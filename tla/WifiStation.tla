----------------------------- MODULE WifiStation -----------------------------
(***************************************************************************)
(* esp32/main/pk_net.c: bringing the Wi-Fi up and taking it down.          *)
(*                                                                         *)
(* The driver reports what happens to the link as events; the event task   *)
(* hands them, in order, to wifi_event_handler, which reconnects up to     *)
(* MaxRetry times and tells the caller of pk_net_wifi_sta_start how it     *)
(* went through two bits.  Our own shutdown raises the same event as a     *)
(* dropout.  The event task outranks the main task on the board's one      *)
(* core, so the main task does not go on sleeping, nor starts the radio    *)
(* anew, with an event unhandled.                                          *)
(***************************************************************************)
EXTENDS Integers, Sequences, FiniteSets

CONSTANTS
  MaxRetry,  \* the 5 of wifi_event_handler
  MaxDrops   \* bound: dropouts of a link that was up

ASSUME WifiAssumption == MaxRetry \in Nat /\ MaxDrops \in Nat

VARIABLES
  bits,         \* s_wifi_event_group
  s_retry_num,
  s_stopping,
  driver,       \* the driver: off, started, joining an access point, up
  events,       \* events posted and not handled yet
  call,         \* where pk_net_wifi_sta_start / _stop is
  gotIp,        \* an address was obtained since the last start
  lost,         \* dropouts and failed joins handled since the last start
  tries,        \* esp_wifi_connect calls made since a shutdown began
  drops         \* how many dropouts there were

wifi == <<bits, s_retry_num, s_stopping, driver, events, call, gotIp, lost, tries, drops>>

WifiEvents == {"sta_start", "sta_disconnected", "sta_got_ip"}
Stopping == {"disconnecting", "halting", "stopped"}

\* The driver leaves the access point, and says so if there was one.
Leave(to) ==
  /\ driver' = to
  /\ events' = IF driver \in {"joining", "up"}
               THEN Append(events, "sta_disconnected") ELSE events

-----------------------------------------------------------------------------
(* The driver and the air *)

GotIp ==
  /\ driver = "joining"
  /\ driver' = "up"
  /\ gotIp' = TRUE
  /\ events' = Append(events, "sta_got_ip")
  /\ UNCHANGED <<bits, s_retry_num, s_stopping, call, lost, tries, drops>>

JoinFails ==
  /\ driver = "joining"
  /\ Leave("started")
  /\ UNCHANGED <<bits, s_retry_num, s_stopping, call, gotIp, lost, tries, drops>>

Dropout ==
  /\ driver = "up"
  /\ drops < MaxDrops
  /\ drops' = drops + 1
  /\ Leave("started")
  /\ UNCHANGED <<bits, s_retry_num, s_stopping, call, gotIp, lost, tries>>

-----------------------------------------------------------------------------
(* wifi_event_handler *)

\* esp_wifi_connect fails on a driver that is off.
Connect ==
  /\ driver' = IF driver = "started" THEN "joining" ELSE driver
  /\ tries' = IF call \in Stopping THEN tries + 1 ELSE tries

HandleStart ==
  /\ Connect
  /\ UNCHANGED <<bits, s_retry_num, gotIp, lost>>

HandleGotIp ==
  /\ s_retry_num' = 0
  /\ bits' = bits \cup {"connected"}
  /\ UNCHANGED <<driver, gotIp, lost, tries>>

\* Fault: one retry too many.
HandleDisconnectedOnceMore ==
  \/ /\ s_stopping
     /\ UNCHANGED <<bits, s_retry_num, driver, gotIp, lost, tries>>
  \/ /\ ~s_stopping
     /\ s_retry_num <= MaxRetry
     /\ Connect
     /\ s_retry_num' = s_retry_num + 1
     /\ lost' = lost + 1
     /\ UNCHANGED <<bits, gotIp>>
  \/ /\ ~s_stopping
     /\ s_retry_num > MaxRetry
     /\ bits' = bits \cup {"fail"}
     /\ lost' = lost + 1
     /\ UNCHANGED <<s_retry_num, driver, gotIp, tries>>

HandleDisconnected ==
  \/ /\ s_stopping
     /\ UNCHANGED <<bits, s_retry_num, driver, gotIp, lost, tries>>
  \/ /\ ~s_stopping
     /\ s_retry_num < MaxRetry
     /\ Connect
     /\ s_retry_num' = s_retry_num + 1
     /\ lost' = lost + 1
     /\ UNCHANGED <<bits, gotIp>>
  \/ /\ ~s_stopping
     /\ s_retry_num >= MaxRetry
     /\ bits' = bits \cup {"fail"}
     /\ lost' = lost + 1
     /\ UNCHANGED <<s_retry_num, driver, gotIp, tries>>

HandleEvent ==
  /\ events # <<>>
  /\ events' = Tail(events)
  /\ \/ Head(events) = "sta_start" /\ HandleStart
     \/ Head(events) = "sta_got_ip" /\ HandleGotIp
     \/ Head(events) = "sta_disconnected" /\ HandleDisconnected
  /\ UNCHANGED <<s_stopping, call, drops>>

-----------------------------------------------------------------------------
(* pk_net_wifi_sta_start *)

\* Fault: the bits of the last window are left set.
StartCallBitsKept ==
  /\ call \in {"down", "stopped"}
  /\ events = <<>>
  /\ s_retry_num' = 0 /\ s_stopping' = FALSE
  /\ driver' = "started" /\ events' = <<"sta_start">>
  /\ call' = "waiting"
  /\ gotIp' = FALSE /\ lost' = 0 /\ tries' = 0
  /\ UNCHANGED <<bits, drops>>

\* Fault: the retries of the last window are not forgotten.
StartCallRetriesKept ==
  /\ call \in {"down", "stopped"}
  /\ events = <<>>
  /\ bits' = {} /\ s_stopping' = FALSE
  /\ driver' = "started" /\ events' = <<"sta_start">>
  /\ call' = "waiting"
  /\ gotIp' = FALSE /\ lost' = 0 /\ tries' = 0
  /\ UNCHANGED <<s_retry_num, drops>>

StartCall ==
  /\ call \in {"down", "stopped"}
  /\ events = <<>>
  /\ bits' = {} /\ s_retry_num' = 0 /\ s_stopping' = FALSE
  /\ driver' = "started" /\ events' = <<"sta_start">>
  /\ call' = "waiting"
  /\ gotIp' = FALSE /\ lost' = 0 /\ tries' = 0
  /\ UNCHANGED drops

StartOk ==
  /\ call = "waiting"
  /\ "connected" \in bits
  /\ call' = "up"
  /\ UNCHANGED <<bits, s_retry_num, s_stopping, driver, events, gotIp, lost, tries, drops>>

\* Woken by the fail bit, or by the timeout: the driver is stopped without
\* s_stopping.
StartFails ==
  /\ call = "waiting"
  /\ \/ bits = {"fail"}
     \/ bits = {} /\ events = <<>>
  /\ Leave("off")
  /\ call' = "down"
  /\ UNCHANGED <<bits, s_retry_num, s_stopping, gotIp, lost, tries, drops>>

-----------------------------------------------------------------------------
(* pk_net_wifi_sta_stop; an event can be handled between any two of its steps *)

\* Fault: the handler is not told.
StopCallUnannounced ==
  /\ call = "up"
  /\ call' = "disconnecting"
  /\ UNCHANGED <<bits, s_retry_num, s_stopping, driver, events, gotIp, lost, tries, drops>>

StopCall ==
  /\ call = "up"
  /\ s_stopping' = TRUE
  /\ call' = "disconnecting"
  /\ UNCHANGED <<bits, s_retry_num, driver, events, gotIp, lost, tries, drops>>

Disconnect ==
  /\ call = "disconnecting"
  /\ Leave("started")
  /\ call' = "halting"
  /\ UNCHANGED <<bits, s_retry_num, s_stopping, gotIp, lost, tries, drops>>

Halt ==
  /\ call = "halting"
  /\ Leave("off")
  /\ call' = "stopped"
  /\ UNCHANGED <<bits, s_retry_num, s_stopping, gotIp, lost, tries, drops>>

-----------------------------------------------------------------------------
WifiInit ==
  /\ bits = {} /\ s_retry_num = 0 /\ s_stopping = FALSE
  /\ driver = "off" /\ events = <<>>
  /\ call = "down"
  /\ gotIp = FALSE /\ lost = 0 /\ tries = 0 /\ drops = 0

Air == JoinFails \/ Dropout

WifiNext ==
  \/ GotIp \/ Air \/ HandleEvent
  \/ StartCall \/ StartOk \/ StartFails
  \/ StopCall \/ Disconnect \/ Halt

-----------------------------------------------------------------------------
(* Properties *)

WifiTypeOK ==
  /\ bits \subseteq {"connected", "fail"}
  /\ s_retry_num \in 0..MaxRetry
  /\ s_stopping \in BOOLEAN /\ gotIp \in BOOLEAN
  /\ driver \in {"off", "started", "joining", "up"}
  /\ events \in Seq(WifiEvents)
  /\ call \in {"down", "waiting", "up"} \cup Stopping
  /\ {lost, tries, drops} \subseteq Nat

\* When pk_net_wifi_sta_start returns ESP_OK an address was obtained in this
\* window: no bit of an earlier window is taken for it.
StartOkMeansIp == call = "up" => gotIp

\* The fail bit stands for as many lost links as the retries allow, all of this
\* window: what the previous window or its shutdown left behind does not count.
FailIsEarned == "fail" \in bits => lost > MaxRetry

\* "Without this flag the handler answered our own shutdown by reconnecting":
\* from the moment the shutdown begins to the next start no connection is
\* attempted, whatever dropouts and shutdown events are still to be handled.
QuietAfterStop == call \in Stopping => tries = 0
=============================================================================
