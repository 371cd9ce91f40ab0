-------------------------- MODULE BleSession_proofs --------------------------
(***************************************************************************)
(* That pk_ble_poll takes nothing for an answer that an earlier poll, or a *)
(* callback that came late, has left behind: for any sequence of polls.    *)
(***************************************************************************)
EXTENDS BleSession, TLAPS

\* Before Reset has run, what the static variables hold may be old.
Unreset == {"idle", "init", "reset"}

LinkType == link \in [wide : BOOLEAN, subscribed : BOOLEAN, accepted : BOOLEAN]

\* A poll starts on a silent radio and scans before it connects.
AirInv ==
  /\ pc \in {"init", "reset", "scan"} => air = "idle"
  /\ pc = "scanning" => air \in {"idle", "scanning"}

\* A token of the subscription is one of this poll.
TokenInv == pc \notin Unreset /\ "cccd" \in tokens => heard

\* What the fountain says in this poll it says after it accepted the secret,
\* and nothing said in an earlier one is still under way.
WireInv == link.accepted \/ wire # {} => granted

\* After Reset every stored frame is of this poll; before it, old ones are
\* told from new ones.
FrameInv ==
  /\ \A f \in frames : f.fresh => granted
  /\ pc \notin Unreset => \A f \in frames : f.fresh

\* What was decoded from those frames, and what the poll returned.
AnswerInv ==
  /\ decoded.is => decoded.fresh /\ granted
  /\ result.ok => result.fresh /\ granted

IInv ==
  /\ TypeOK /\ LinkType /\ AirInv /\ TokenInv /\ WireInv /\ FrameInv /\ AnswerInv
  /\ SubscribedBeforeCommands /\ SecretBeforeQuestions
-----------------------------------------------------------------------------
(* The callbacks: none of them gives the poll more than it may know *)

\* A scan or a connection attempt ends: only one that this poll has started.
LEMMA GapKeeps ==
  ASSUME IInv, Advertise \/ ScanComplete \/ Connected \/ ConnectFailed
  PROVE  IInv'
<1> USE DEF IInv, TypeOK, LinkType, AirInv, TokenInv, WireInv, FrameInv,
      AnswerInv, SubscribedBeforeCommands, SecretBeforeQuestions, Unreset, task, stack, radio, ghost
<1>1. CASE Advertise
  BY <1>1 DEF Advertise, Give, Sems
<1>2. CASE ScanComplete
  BY <1>2 DEF ScanComplete, Give, Sems
<1>3. CASE Connected
  BY <1>3 DEF Connected, Give, Sems
<1>4. CASE ConnectFailed
  BY <1>4 DEF ConnectFailed, Give, Sems
<1>5. QED
  BY <1>1, <1>2, <1>3, <1>4

\* The end of a link takes with it what was said on it.
LEMMA DropKeeps ==
  ASSUME IInv, Drop
  PROVE  IInv'
<1> USE DEF Drop, Unlink, Give, NoLink, Sems, IInv, TypeOK, LinkType, AirInv, TokenInv, WireInv, FrameInv,
      AnswerInv, SubscribedBeforeCommands, SecretBeforeQuestions, Unreset, task, stack, radio, ghost
<1>1. TypeOK'
  <2>1. tokens' \subseteq Sems
    OBVIOUS
  <2>2. air' # "linked" => procs' = {} /\ link' = NoLink /\ wire' = {}
    OBVIOUS
  <2>3. wire' \subseteq {"auth", "state", "count"}
    OBVIOUS
  <2>4. /\ handles' \subseteq Needed \cup {"svc"}
        /\ frames' \subseteq [kind : {"auth", "state", "count"}, fresh : BOOLEAN]
        /\ decoded' \in [is : BOOLEAN, fresh : BOOLEAN]
        /\ result' \in [ok : BOOLEAN, hist : {"ok", "short"}, fresh : BOOLEAN, read : BOOLEAN]
    OBVIOUS
  <2>5. /\ granted' \in BOOLEAN /\ heard' \in BOOLEAN /\ held' \in BOOLEAN
        /\ s_ble_inited' \in BOOLEAN /\ s_ble_synced' \in BOOLEAN /\ s_device_found' \in BOOLEAN
    OBVIOUS
  <2>6. QED
    BY <2>1, <2>2, <2>3, <2>4, <2>5
<1>2. LinkType'
  OBVIOUS
<1>3. AirInv'
  OBVIOUS
<1>4. TokenInv'
  OBVIOUS
<1>5. WireInv'
  OBVIOUS
<1>6. FrameInv'
  OBVIOUS
<1>7. AnswerInv'
  OBVIOUS
<1>8. SubscribedBeforeCommands'
  OBVIOUS
<1>9. SecretBeforeQuestions'
  OBVIOUS
<1>10. QED
  BY <1>1, <1>2, <1>3, <1>4, <1>5, <1>6, <1>7, <1>8, <1>9 DEF IInv

\* Callbacks that give no token but that of the exchange, and what the fountain
\* does unasked.
LEMMA QuietKeeps ==
  ASSUME IInv, MtuDone \/ DiscoveryError \/ SubscribeError \/ LoseReply \/ PushState
         \/ LateSync \/ Visit
  PROVE  IInv'
<1> USE DEF IInv, TypeOK, LinkType, AirInv, TokenInv, WireInv, FrameInv,
      AnswerInv, SubscribedBeforeCommands, SecretBeforeQuestions, Unreset, task, stack, radio, ghost
<1>1. CASE MtuDone
  BY <1>1 DEF MtuDone, Give, Sems, NoLink
<1>2. CASE DiscoveryError
  BY <1>2 DEF DiscoveryError, Give, Sems, NoLink
<1>3. CASE SubscribeError
  BY <1>3 DEF SubscribeError, Give, Sems, NoLink
<1>4. CASE LoseReply
  BY <1>4 DEF LoseReply, Give, Sems, NoLink
<1>5. CASE PushState
  BY <1>5 DEF PushState, Give, Sems, NoLink
<1>6. CASE LateSync
  BY <1>6 DEF LateSync, Give, Sems, NoLink
<1>7. CASE Visit
  BY <1>7 DEF Visit, Give, Sems, NoLink
<1>8. QED
  BY <1>1, <1>2, <1>3, <1>4, <1>5, <1>6, <1>7

\* A stage of the discovery tells the poll of handles, and of nothing else.
LEMMA StageKeeps ==
  ASSUME IInv, NEW this, NEW next, NEW finds \in SUBSET (Needed \cup {"svc"}), NEW goesOn,
         Stage(this, next, finds, goesOn)
  PROVE  IInv'
<1> USE DEF Stage, Give, Needed, IInv, TypeOK, LinkType, AirInv, TokenInv, WireInv, FrameInv,
      AnswerInv, SubscribedBeforeCommands, SecretBeforeQuestions, Unreset, task, stack, radio, ghost
<1>1. TypeOK'
  <2>1. PICK found \in SUBSET finds :
          /\ handles' = handles \cup found
          /\ tokens' = tokens \/ tokens' = tokens \cup {"disc"}
    <3>1. PICK found \in SUBSET finds :
            /\ handles' = handles \cup found
            /\ IF goesOn \in found
               THEN procs' = (procs \ {this}) \cup {next} /\ UNCHANGED tokens
               ELSE procs' = procs \ {this} /\ tokens' = tokens \cup {"disc"}
      BY DEF Stage, Give
    <3>2. QED
      BY <3>1
  <2>2. handles' \subseteq Needed \cup {"svc"}
    BY <2>1
  <2>3. tokens' \subseteq Sems
    <3>1. tokens \subseteq Sems /\ "disc" \in Sems
      BY DEF Sems
    <3>2. QED
      BY <2>1, <3>1
  <2>4. air # "linked" => procs = {}
    OBVIOUS
  <2>5. air' # "linked" => procs' = {} /\ link' = NoLink /\ wire' = {}
    BY <2>4
  <2>6. QED
    BY <2>2, <2>3, <2>5
<1>2. LinkType'
  OBVIOUS
<1>3. AirInv'
  OBVIOUS
<1>4. TokenInv'
  OBVIOUS
<1>5. WireInv'
  OBVIOUS
<1>6. FrameInv'
  OBVIOUS
<1>7. AnswerInv'
  OBVIOUS
<1>8. SubscribedBeforeCommands'
  OBVIOUS
<1>9. SecretBeforeQuestions'
  OBVIOUS
<1>10. QED
  BY <1>1, <1>2, <1>3, <1>4, <1>5, <1>6, <1>7, <1>8, <1>9 DEF IInv

\* The confirmation of the subscription is of a link, and so of this poll.
LEMMA SubscribedKeeps ==
  ASSUME IInv, Subscribed
  PROVE  IInv'
<1> USE DEF Subscribed, Give, Sems, IInv, TypeOK, LinkType, AirInv, TokenInv, WireInv, FrameInv,
      AnswerInv, SubscribedBeforeCommands, SecretBeforeQuestions, Unreset, task, stack, radio, ghost
<1>1. TypeOK'
  OBVIOUS
<1>2. LinkType'
  OBVIOUS
<1>3. AirInv'
  OBVIOUS
<1>4. TokenInv'
  OBVIOUS
<1>5. WireInv'
  OBVIOUS
<1>6. FrameInv'
  OBVIOUS
<1>7. AnswerInv'
  OBVIOUS
<1>8. SubscribedBeforeCommands'
  OBVIOUS
<1>9. SecretBeforeQuestions'
  OBVIOUS
<1>10. QED
  BY <1>1, <1>2, <1>3, <1>4, <1>5, <1>6, <1>7, <1>8, <1>9 DEF IInv

\* A frame comes over a link whose secret this poll has had accepted.
LEMMA NotifyRxKeeps ==
  ASSUME IInv, NotifyRx
  PROVE  IInv'
<1> USE DEF NotifyRx, Frame, IInv, TypeOK, LinkType, AirInv, TokenInv, WireInv, FrameInv,
      AnswerInv, SubscribedBeforeCommands, SecretBeforeQuestions, Unreset, task, stack, radio, ghost
<1>1. TypeOK'
  <2>1. PICK r \in wire : /\ wire' = wire \ {r}
                         /\ frames' = IF r = "state" /\ ~link.wide THEN frames
                                      ELSE frames \cup {[kind |-> r, fresh |-> TRUE]}
    OBVIOUS
  <2>2. [kind |-> r, fresh |-> TRUE] \in [kind : {"auth", "state", "count"}, fresh : BOOLEAN]
    OBVIOUS
  <2>3. frames' \subseteq [kind : {"auth", "state", "count"}, fresh : BOOLEAN]
    BY <2>1, <2>2
  <2>4. air' # "linked" => procs' = {} /\ link' = NoLink /\ wire' = {}
    OBVIOUS
  <2>5. QED
    BY <2>1, <2>3, <2>4
<1>2. LinkType'
  OBVIOUS
<1>3. AirInv'
  OBVIOUS
<1>4. TokenInv'
  OBVIOUS
<1>5. WireInv'
  OBVIOUS
<1>6. FrameInv'
  OBVIOUS
<1>7. AnswerInv'
  OBVIOUS
<1>8. SubscribedBeforeCommands'
  OBVIOUS
<1>9. SecretBeforeQuestions'
  OBVIOUS
<1>10. QED
  BY <1>1, <1>2, <1>3, <1>4, <1>5, <1>6, <1>7, <1>8, <1>9 DEF IInv

-----------------------------------------------------------------------------
(* The poll *)

\* A new poll: what is stored is old from now on.
LEMMA BeginKeeps ==
  ASSUME IInv, Begin
  PROVE  IInv'
<1> USE DEF Begin, Failure, IInv, TypeOK, LinkType, AirInv, TokenInv, WireInv, FrameInv,
      AnswerInv, SubscribedBeforeCommands, SecretBeforeQuestions, Unreset, task, stack, radio, ghost
<1>1. TypeOK'
  <2>1. frames' \subseteq [kind : {"auth", "state", "count"}, fresh : BOOLEAN]
    <3>1. SUFFICES ASSUME NEW f \in frames
                   PROVE  [f EXCEPT !.fresh = FALSE]
                            \in [kind : {"auth", "state", "count"}, fresh : BOOLEAN]
      BY <3>1
    <3>2. f \in [kind : {"auth", "state", "count"}, fresh : BOOLEAN]
      OBVIOUS
    <3>3. QED
      BY <3>2
  <2>2. result' \in [ok : BOOLEAN, hist : {"ok", "short"}, fresh : BOOLEAN, read : BOOLEAN]
    OBVIOUS
  <2>3. QED
    BY <2>1, <2>2
<1>2. LinkType'
  OBVIOUS
<1>3. AirInv'
  OBVIOUS
<1>4. TokenInv'
  OBVIOUS
<1>5. WireInv'
  BY DEF NoLink
<1>6. FrameInv'
  <2>1. \A f \in frames : ~[f EXCEPT !.fresh = FALSE].fresh
    OBVIOUS
  <2>2. \A g \in frames' : ~g.fresh
    BY <2>1
  <2>3. QED
    BY <2>2
<1>7. AnswerInv'
  OBVIOUS
<1>8. SubscribedBeforeCommands'
  OBVIOUS
<1>9. SecretBeforeQuestions'
  OBVIOUS
<1>10. QED
  BY <1>1, <1>2, <1>3, <1>4, <1>5, <1>6, <1>7, <1>8, <1>9 DEF IInv

\* pk_ble_init touches neither tokens nor frames.
LEMMA InitKeeps ==
  ASSUME IInv, StackKept \/ InitOk \/ InitFails \/ SyncTimesOut
  PROVE  IInv'
<1> USE DEF IInv, TypeOK, LinkType, AirInv, TokenInv, WireInv, FrameInv,
      AnswerInv, SubscribedBeforeCommands, SecretBeforeQuestions, Unreset, task, stack, radio, ghost
<1>1. CASE StackKept
  BY <1>1 DEF StackKept, Return, Failure
<1>2. CASE InitOk
  BY <1>2 DEF InitOk, Return, Failure
<1>3. CASE InitFails
  BY <1>3 DEF InitFails, Return, Failure
<1>4. CASE SyncTimesOut
  BY <1>4 DEF SyncTimesOut, Return, Failure
<1>5. QED
  BY <1>1, <1>2, <1>3, <1>4

\* After it nothing old is left.
LEMMA ResetKeeps ==
  ASSUME IInv, Reset
  PROVE  IInv'
<1> USE DEF Reset, IInv, TypeOK, LinkType, AirInv, TokenInv, WireInv, FrameInv,
      AnswerInv, SubscribedBeforeCommands, SecretBeforeQuestions, Unreset, task, stack, radio, ghost
<1>1. TypeOK'
  <2>1. frames' = {} /\ handles' = {} /\ tokens' = {} /\ pc' = "scan"
    OBVIOUS
  <2>2. air' # "linked" => procs' = {} /\ link' = NoLink /\ wire' = {}
    OBVIOUS
  <2>3. /\ decoded' \in [is : BOOLEAN, fresh : BOOLEAN]
        /\ result' \in [ok : BOOLEAN, hist : {"ok", "short"}, fresh : BOOLEAN, read : BOOLEAN]
    OBVIOUS
  <2>4. QED
    BY <2>1, <2>2, <2>3
<1>2. LinkType'
  OBVIOUS
<1>3. AirInv'
  OBVIOUS
<1>4. TokenInv'
  OBVIOUS
<1>5. WireInv'
  OBVIOUS
<1>6. FrameInv'
  OBVIOUS
<1>7. AnswerInv'
  OBVIOUS
<1>8. SubscribedBeforeCommands'
  OBVIOUS
<1>9. SecretBeforeQuestions'
  OBVIOUS
<1>10. QED
  BY <1>1, <1>2, <1>3, <1>4, <1>5, <1>6, <1>7, <1>8, <1>9 DEF IInv

\* Taking the stack down, whether the host can be stopped or not, leaves the
\* radio as it was or silent.
LEMMA DeinitKeeps ==
  ASSUME TypeOK, LinkType, NEW res, Deinit(res)
  PROVE  /\ nimble' \in {"down", "running", "halted"}
         /\ {s_ble_inited', s_ble_synced'} \subseteq BOOLEAN
         /\ air' \in {"idle", "scanning", "connecting", "linked"}
         /\ wire' \subseteq {"auth", "state", "count"}
         /\ s_conn_handle' => air' = "linked"
         /\ air' # "linked" => procs' = {} /\ link' = NoLink /\ wire' = {}
         /\ LinkType'
         /\ link'.accepted \/ wire' # {} => link.accepted \/ wire # {}
<1> USE DEF TypeOK, LinkType
<1>1. CASE UNCHANGED <<stack, radio>>
  BY <1>1 DEF stack, radio
<1>2. CASE ~UNCHANGED <<stack, radio>>
  <2>1. /\ nimble' \in {"down", "halted"}
        /\ s_ble_inited' = (nimble' = "halted")
        /\ s_ble_synced' = (nimble' = "halted" /\ s_ble_synced)
        /\ air' = "idle" /\ s_conn_handle' = FALSE
        /\ procs' = {} /\ link' = NoLink /\ wire' = {}
    BY <1>2 DEF Deinit
  <2>2. s_ble_inited' \in BOOLEAN /\ s_ble_synced' \in BOOLEAN
    BY <2>1
  <2>3. QED
    BY <2>1, <2>2 DEF NoLink
<1>3. QED
  BY <1>1, <1>2

\* No connection: the poll fails, the stack is taken down or halted.
LEMMA NoConnectionKeeps ==
  ASSUME IInv, NoConnection
  PROVE  IInv'
<1> USE DEF NoConnection, Return, Take, Failure, Sems, IInv, TypeOK, LinkType, AirInv, TokenInv, WireInv, FrameInv,
      AnswerInv, SubscribedBeforeCommands, SecretBeforeQuestions, Unreset, task, stack, radio, ghost
<1>1. TypeOK'
  <2>1. pc' = "idle" /\ result' = Failure
    BY DEF Deinit
  <2>2. result' \in [ok : BOOLEAN, hist : {"ok", "short"}, fresh : BOOLEAN, read : BOOLEAN]
    BY <2>1
  <2>3. /\ s_device_found' \in BOOLEAN /\ granted' \in BOOLEAN /\ heard' \in BOOLEAN
        /\ held' \in BOOLEAN /\ tokens' \subseteq Sems
    OBVIOUS
  <2>4. QED
    BY <2>1, <2>2, <2>3, DeinitKeeps
<1>2. LinkType'
  BY DeinitKeeps
<1>3. AirInv'
  BY DEF Deinit
<1>4. TokenInv'
  BY DEF Deinit
<1>5. WireInv'
  BY DeinitKeeps
<1>6. FrameInv'
  BY DEF Deinit
<1>7. AnswerInv'
  BY DEF Deinit
<1>8. SubscribedBeforeCommands'
  BY DEF Deinit
<1>9. SecretBeforeQuestions'
  BY DEF Deinit
<1>10. QED
  BY <1>1, <1>2, <1>3, <1>4, <1>5, <1>6, <1>7, <1>8, <1>9 DEF IInv

\* Steps that only start the next procedure.
LEMMA AdvanceKeeps ==
  ASSUME IInv, Scan \/ Connect \/ ExchangeMtu \/ Discover \/ Subscribe
         \/ SubscribeTimesOut \/ NoAuthReply
  PROVE  IInv'
<1> USE DEF IInv, TypeOK, LinkType, AirInv, TokenInv, WireInv, FrameInv,
      AnswerInv, SubscribedBeforeCommands, SecretBeforeQuestions, Unreset, task, stack, radio, ghost
<1>1. CASE Scan
  BY <1>1 DEF Scan, GoOn
<1>2. CASE Connect
  BY <1>2 DEF Connect, GoOn, Take, Sems
<1>3. CASE ExchangeMtu
  BY <1>3 DEF ExchangeMtu, GoOn, Take, Sems
<1>4. CASE Discover
  BY <1>4 DEF Discover, GoOn, Request
<1>5. CASE Subscribe
  BY <1>5 DEF Subscribe, GoOn, Take, Request, Sems
<1>6. CASE SubscribeTimesOut
  BY <1>6 DEF SubscribeTimesOut, GoOn
<1>7. CASE NoAuthReply
  BY <1>7 DEF NoAuthReply, GoOn
<1>8. QED
  BY <1>1, <1>2, <1>3, <1>4, <1>5, <1>6, <1>7

\* The exchange is answered or outlived: it is no condition.
LEMMA MtuSettledKeeps ==
  ASSUME IInv, MtuSettled
  PROVE  IInv'
<1> USE DEF MtuSettled, GoOn, Take, IInv, TypeOK, LinkType, AirInv, TokenInv, WireInv, FrameInv,
      AnswerInv, SubscribedBeforeCommands, SecretBeforeQuestions, Unreset, task, stack, radio, ghost
<1>1. TypeOK'
  <2>1. tokens' \subseteq Sems
    <3>1. tokens' \subseteq tokens
      OBVIOUS
    <3>2. QED
      BY <3>1
  <2>2. air' # "linked" => procs' = {} /\ link' = NoLink /\ wire' = {}
    OBVIOUS
  <2>3. wire' \subseteq {"auth", "state", "count"}
    OBVIOUS
  <2>4. /\ handles' \subseteq Needed \cup {"svc"}
        /\ frames' \subseteq [kind : {"auth", "state", "count"}, fresh : BOOLEAN]
        /\ decoded' \in [is : BOOLEAN, fresh : BOOLEAN]
        /\ result' \in [ok : BOOLEAN, hist : {"ok", "short"}, fresh : BOOLEAN, read : BOOLEAN]
    OBVIOUS
  <2>5. /\ granted' \in BOOLEAN /\ heard' \in BOOLEAN /\ held' \in BOOLEAN
        /\ s_ble_inited' \in BOOLEAN /\ s_ble_synced' \in BOOLEAN /\ s_device_found' \in BOOLEAN
    OBVIOUS
  <2>6. QED
    BY <2>1, <2>2, <2>3, <2>4, <2>5
<1>2. LinkType'
  OBVIOUS
<1>3. AirInv'
  OBVIOUS
<1>4. TokenInv'
  OBVIOUS
<1>5. WireInv'
  OBVIOUS
<1>6. FrameInv'
  OBVIOUS
<1>7. AnswerInv'
  OBVIOUS
<1>8. SubscribedBeforeCommands'
  OBVIOUS
<1>9. SecretBeforeQuestions'
  OBVIOUS
<1>10. QED
  BY <1>1, <1>2, <1>3, <1>4, <1>5, <1>6, <1>7, <1>8, <1>9 DEF IInv

\* The discovery has not found what is needed, or does not end.
LEMMA DiscoveryFailsKeeps ==
  ASSUME IInv, DiscoveryFails
  PROVE  IInv'
<1> USE DEF DiscoveryFails, GoOn, Take, IInv, TypeOK, LinkType, AirInv, TokenInv, WireInv, FrameInv,
      AnswerInv, SubscribedBeforeCommands, SecretBeforeQuestions, Unreset, task, stack, radio, ghost
<1>1. TypeOK'
  <2>1. tokens' \subseteq Sems
    <3>1. tokens' \subseteq tokens
      OBVIOUS
    <3>2. QED
      BY <3>1
  <2>2. air' # "linked" => procs' = {} /\ link' = NoLink /\ wire' = {}
    OBVIOUS
  <2>3. wire' \subseteq {"auth", "state", "count"}
    OBVIOUS
  <2>4. /\ handles' \subseteq Needed \cup {"svc"}
        /\ frames' \subseteq [kind : {"auth", "state", "count"}, fresh : BOOLEAN]
        /\ decoded' \in [is : BOOLEAN, fresh : BOOLEAN]
        /\ result' \in [ok : BOOLEAN, hist : {"ok", "short"}, fresh : BOOLEAN, read : BOOLEAN]
    OBVIOUS
  <2>5. /\ granted' \in BOOLEAN /\ heard' \in BOOLEAN /\ held' \in BOOLEAN
        /\ s_ble_inited' \in BOOLEAN /\ s_ble_synced' \in BOOLEAN /\ s_device_found' \in BOOLEAN
    OBVIOUS
  <2>6. QED
    BY <2>1, <2>2, <2>3, <2>4, <2>5
<1>2. LinkType'
  OBVIOUS
<1>3. AirInv'
  OBVIOUS
<1>4. TokenInv'
  OBVIOUS
<1>5. WireInv'
  OBVIOUS
<1>6. FrameInv'
  OBVIOUS
<1>7. AnswerInv'
  OBVIOUS
<1>8. SubscribedBeforeCommands'
  OBVIOUS
<1>9. SecretBeforeQuestions'
  OBVIOUS
<1>10. QED
  BY <1>1, <1>2, <1>3, <1>4, <1>5, <1>6, <1>7, <1>8, <1>9 DEF IInv

\* The token of the subscription opens the door to the secret, and what the
\* fountain says from here on it says to this poll.
LEMMA SendSecretKeeps ==
  ASSUME IInv, SendSecret
  PROVE  IInv'
<1> USE DEF SendSecret, GoOn, Take, IInv, TypeOK, LinkType, AirInv, TokenInv, WireInv, FrameInv,
      AnswerInv, SubscribedBeforeCommands, SecretBeforeQuestions, Unreset, task, stack, radio, ghost
<1>1. TypeOK'
  <2>1. tokens' \subseteq Sems
    <3>1. tokens' \subseteq tokens
      OBVIOUS
    <3>2. QED
      BY <3>1
  <2>2. air' # "linked" => procs' = {} /\ link' = NoLink /\ wire' = {}
    OBVIOUS
  <2>3. wire' \subseteq {"auth", "state", "count"}
    OBVIOUS
  <2>4. /\ handles' \subseteq Needed \cup {"svc"}
        /\ frames' \subseteq [kind : {"auth", "state", "count"}, fresh : BOOLEAN]
        /\ decoded' \in [is : BOOLEAN, fresh : BOOLEAN]
        /\ result' \in [ok : BOOLEAN, hist : {"ok", "short"}, fresh : BOOLEAN, read : BOOLEAN]
    OBVIOUS
  <2>5. /\ granted' \in BOOLEAN /\ heard' \in BOOLEAN /\ held' \in BOOLEAN
        /\ s_ble_inited' \in BOOLEAN /\ s_ble_synced' \in BOOLEAN /\ s_device_found' \in BOOLEAN
    OBVIOUS
  <2>6. QED
    BY <2>1, <2>2, <2>3, <2>4, <2>5
<1>2. LinkType'
  OBVIOUS
<1>3. AirInv'
  OBVIOUS
<1>4. TokenInv'
  OBVIOUS
<1>5. WireInv'
  OBVIOUS
<1>6. FrameInv'
  OBVIOUS
<1>7. AnswerInv'
  OBVIOUS
<1>8. SubscribedBeforeCommands'
  OBVIOUS
<1>9. SecretBeforeQuestions'
  OBVIOUS
<1>10. QED
  BY <1>1, <1>2, <1>3, <1>4, <1>5, <1>6, <1>7, <1>8, <1>9 DEF IInv

\* A reply to the secret is one of this poll, as every stored frame is.
LEMMA RequestStateKeeps ==
  ASSUME IInv, RequestState
  PROVE  IInv'
<1> USE DEF RequestState, SendCommand, GoOn, Has, IInv, TypeOK, LinkType, AirInv, TokenInv, WireInv, FrameInv,
      AnswerInv, SubscribedBeforeCommands, SecretBeforeQuestions, Unreset, task, stack, radio, ghost
<1>1. TypeOK'
  <2>1. link.accepted => air = "linked"
    BY DEF NoLink
  <2>2. wire' \subseteq {"auth", "state", "count"}
    OBVIOUS
  <2>3. air' # "linked" => procs' = {} /\ link' = NoLink /\ wire' = {}
    BY <2>1
  <2>4. QED
    BY <2>2, <2>3
<1>2. LinkType'
  OBVIOUS
<1>3. AirInv'
  OBVIOUS
<1>4. TokenInv'
  OBVIOUS
<1>5. WireInv'
  OBVIOUS
<1>6. FrameInv'
  OBVIOUS
<1>7. AnswerInv'
  OBVIOUS
<1>8. SubscribedBeforeCommands'
  OBVIOUS
<1>9. SecretBeforeQuestions'
  OBVIOUS
<1>10. QED
  BY <1>1, <1>2, <1>3, <1>4, <1>5, <1>6, <1>7, <1>8, <1>9 DEF IInv

\* And so is the one to the second question.
LEMMA RequestCountKeeps ==
  ASSUME IInv, RequestCount
  PROVE  IInv'
<1> USE DEF RequestCount, SendCommand, GoOn, IInv, TypeOK, LinkType, AirInv, TokenInv, WireInv, FrameInv,
      AnswerInv, SubscribedBeforeCommands, SecretBeforeQuestions, Unreset, task, stack, radio, ghost
<1>1. TypeOK'
  <2>1. link.accepted => air = "linked"
    BY DEF NoLink
  <2>2. wire' \subseteq {"auth", "state", "count"}
    OBVIOUS
  <2>3. air' # "linked" => procs' = {} /\ link' = NoLink /\ wire' = {}
    BY <2>1
  <2>4. QED
    BY <2>2, <2>3
<1>2. LinkType'
  OBVIOUS
<1>3. AirInv'
  OBVIOUS
<1>4. TokenInv'
  OBVIOUS
<1>5. WireInv'
  OBVIOUS
<1>6. FrameInv'
  OBVIOUS
<1>7. AnswerInv'
  OBVIOUS
<1>8. SubscribedBeforeCommands'
  OBVIOUS
<1>9. SecretBeforeQuestions'
  OBVIOUS
<1>10. QED
  BY <1>1, <1>2, <1>3, <1>4, <1>5, <1>6, <1>7, <1>8, <1>9 DEF IInv

\* The state that is chosen is of this poll.
LEMMA ChooseKeeps ==
  ASSUME IInv, Choose
  PROVE  IInv'
<1> USE DEF Choose, IInv, TypeOK, LinkType, AirInv, TokenInv, WireInv, FrameInv,
      AnswerInv, SubscribedBeforeCommands, SecretBeforeQuestions, Unreset, task, stack, radio, ghost
<1>1. TypeOK'
  <2>1. decoded' \in [is : BOOLEAN, fresh : BOOLEAN]
    BY DEF Has
  <2>2. result' \in [ok : BOOLEAN, hist : {"ok", "short"}, fresh : BOOLEAN, read : BOOLEAN]
    BY DEF Failure
  <2>3. pc' \in {"fetch", "leave"}
    OBVIOUS
  <2>4. QED
    BY <2>1, <2>2, <2>3
<1>2. LinkType'
  OBVIOUS
<1>3. AirInv'
  OBVIOUS
<1>4. TokenInv'
  OBVIOUS
<1>5. WireInv'
  OBVIOUS
<1>6. FrameInv'
  OBVIOUS
<1>7. AnswerInv'
  <2>1. ASSUME NEW f \in frames, f.kind = "state"
        PROVE  Frame("state") \in frames /\ granted
    <3>1. f.fresh = TRUE /\ granted
      OBVIOUS
    <3>2. f = [kind |-> "state", fresh |-> TRUE]
      BY <2>1, <3>1
    <3>3. QED
      BY <3>1, <3>2 DEF Frame
  <2>2. Has("state") => Frame("state") \in frames /\ granted
    BY <2>1 DEF Has
  <2>3. decoded'.is = Has("state") /\ decoded'.fresh = (Frame("state") \in frames)
    OBVIOUS
  <2>4. ~result'.ok
    BY DEF Failure
  <2>5. QED
    BY <2>2, <2>3, <2>4
<1>8. SubscribedBeforeCommands'
  OBVIOUS
<1>9. SecretBeforeQuestions'
  OBVIOUS
<1>10. QED
  BY <1>1, <1>2, <1>3, <1>4, <1>5, <1>6, <1>7, <1>8, <1>9 DEF IInv

\* The history decides what is flagged, not what is returned.
LEMMA FetchKeeps ==
  ASSUME IInv, Fetch
  PROVE  IInv'
<1> USE DEF Fetch, IInv, TypeOK, LinkType, AirInv, TokenInv, WireInv, FrameInv,
      AnswerInv, SubscribedBeforeCommands, SecretBeforeQuestions, Unreset, task, stack, radio, ghost
<1>1. TypeOK'
  <2>1. result' \in [ok : BOOLEAN, hist : {"ok", "short"}, fresh : BOOLEAN, read : BOOLEAN]
    <3>1. [Failure EXCEPT !.read = TRUE]
            \in [ok : BOOLEAN, hist : {"ok", "short"}, fresh : BOOLEAN, read : BOOLEAN]
      BY DEF Failure
    <3>2. [Failure EXCEPT !.hist = "short"]
            \in [ok : BOOLEAN, hist : {"ok", "short"}, fresh : BOOLEAN, read : BOOLEAN]
      BY DEF Failure
    <3>3. QED
      BY <3>1, <3>2
  <2>2. QED
    BY <2>1
<1>2. LinkType'
  OBVIOUS
<1>3. AirInv'
  OBVIOUS
<1>4. TokenInv'
  OBVIOUS
<1>5. WireInv'
  OBVIOUS
<1>6. FrameInv'
  OBVIOUS
<1>7. AnswerInv'
  <2>1. ~result'.ok
    BY DEF Failure
  <2>2. QED
    BY <2>1
<1>8. SubscribedBeforeCommands'
  OBVIOUS
<1>9. SecretBeforeQuestions'
  OBVIOUS
<1>10. QED
  BY <1>1, <1>2, <1>3, <1>4, <1>5, <1>6, <1>7, <1>8, <1>9 DEF IInv

\* The poll returns what it decoded.
LEMMA LeaveKeeps ==
  ASSUME IInv, Leave
  PROVE  IInv'
<1> USE DEF Leave, Return, Take, Sems, IInv, TypeOK, LinkType, AirInv, TokenInv, WireInv, FrameInv,
      AnswerInv, SubscribedBeforeCommands, SecretBeforeQuestions, Unreset, task, stack, radio, ghost
<1>1. TypeOK'
  <2>1. pc' = "idle" /\ result' = [result EXCEPT !.ok = decoded.is, !.fresh = decoded.fresh]
    BY DEF Deinit
  <2>2. result' \in [ok : BOOLEAN, hist : {"ok", "short"}, fresh : BOOLEAN, read : BOOLEAN]
    BY <2>1
  <2>3. /\ s_device_found' \in BOOLEAN /\ granted' \in BOOLEAN /\ heard' \in BOOLEAN
        /\ held' \in BOOLEAN /\ tokens' \subseteq Sems
    OBVIOUS
  <2>4. QED
    BY <2>1, <2>2, <2>3, DeinitKeeps
<1>2. LinkType'
  BY DeinitKeeps
<1>3. AirInv'
  BY DEF Deinit
<1>4. TokenInv'
  BY DEF Deinit
<1>5. WireInv'
  BY DeinitKeeps
<1>6. FrameInv'
  BY DEF Deinit
<1>7. AnswerInv'
  <2>1. result' = [result EXCEPT !.ok = decoded.is, !.fresh = decoded.fresh]
    BY DEF Deinit
  <2>2. result'.ok = decoded.is /\ result'.fresh = decoded.fresh
    BY <2>1
  <2>3. QED
    BY <2>2
<1>8. SubscribedBeforeCommands'
  BY DEF Deinit
<1>9. SecretBeforeQuestions'
  BY DEF Deinit
<1>10. QED
  BY <1>1, <1>2, <1>3, <1>4, <1>5, <1>6, <1>7, <1>8, <1>9 DEF IInv

-----------------------------------------------------------------------------
(* The session *)

\* The first poll finds nothing.
LEMMA Initially ==
  ASSUME Init
  PROVE  IInv
<1> USE DEF Init, Failure, NoLink, Needed, Sems
<1>1. TypeOK
  BY DEF TypeOK
<1>2. LinkType /\ AirInv /\ TokenInv /\ WireInv /\ FrameInv
  BY DEF LinkType, AirInv, TokenInv, WireInv, FrameInv, Unreset
<1>3. AnswerInv /\ SubscribedBeforeCommands /\ SecretBeforeQuestions
  BY DEF AnswerInv, SubscribedBeforeCommands, SecretBeforeQuestions
<1>4. QED
  BY <1>1, <1>2, <1>3 DEF IInv

\* The polling task's steps.
LEMMA TaskKeeps ==
  ASSUME IInv, Task
  PROVE  IInv'
<1>1. CASE StackKept \/ InitOk \/ InitFails \/ SyncTimesOut
  BY <1>1, InitKeeps
<1>2. CASE Scan \/ Connect \/ ExchangeMtu \/ Discover \/ Subscribe
           \/ SubscribeTimesOut \/ NoAuthReply
  BY <1>2, AdvanceKeeps
<1>3. CASE Reset \/ NoConnection \/ MtuSettled \/ DiscoveryFails \/ SendSecret
  BY <1>3, ResetKeeps, NoConnectionKeeps, MtuSettledKeeps, DiscoveryFailsKeeps, SendSecretKeeps
<1>4. CASE RequestState \/ RequestCount \/ Choose \/ Fetch \/ Leave
  BY <1>4, RequestStateKeeps, RequestCountKeeps, ChooseKeeps, FetchKeeps, LeaveKeeps
<1>5. QED
  BY <1>1, <1>2, <1>3, <1>4 DEF Task

\* The host task's.
LEMMA HostKeeps ==
  ASSUME IInv, Host
  PROVE  IInv'
<1>1. CASE Advertise \/ ScanComplete \/ Connected \/ ConnectFailed
  BY <1>1, GapKeeps
<1>2. CASE MtuDone \/ DiscoveryError \/ SubscribeError \/ LoseReply \/ PushState \/ LateSync
  BY <1>2, QuietKeeps
<1>3. CASE SvcsDiscovered \/ ChrsDiscovered \/ DscsDiscovered
  <2>1. \E this, next, goesOn : \E finds \in SUBSET (Needed \cup {"svc"}) :
          Stage(this, next, finds, goesOn)
    <3>1. {"svc"} \in SUBSET (Needed \cup {"svc"}) /\ {"rx", "tx"} \in SUBSET (Needed \cup {"svc"})
          /\ {"cccd"} \in SUBSET (Needed \cup {"svc"})
      BY DEF Needed
    <3>2. QED
      BY <1>3, <3>1 DEF SvcsDiscovered, ChrsDiscovered, DscsDiscovered
  <2>2. QED
    BY <2>1, StageKeeps
<1>4. CASE Drop \/ Subscribed \/ NotifyRx
  BY <1>4, DropKeeps, SubscribedKeeps, NotifyRxKeeps
<1>5. QED
  BY <1>1, <1>2, <1>3, <1>4 DEF Host

\* Every step keeps the invariant.
LEMMA Keeps ==
  ASSUME IInv, [Next]_vars
  PROVE  IInv'
<1>1. CASE Next
  BY <1>1, BeginKeeps, TaskKeeps, HostKeeps, QuietKeeps DEF Next
<1>2. CASE UNCHANGED vars
  BY <1>2 DEF vars, task, stack, radio, ghost, IInv, TypeOK, LinkType, AirInv, TokenInv,
      WireInv, FrameInv, AnswerInv, SubscribedBeforeCommands, SecretBeforeQuestions, Unreset
<1>3. QED
  BY <1>1, <1>2

\* The invariant, of any sequence of polls.
LEMMA Always == Spec => []IInv
<1>1. Init => IInv
  BY Initially
<1>2. IInv /\ [Next]_vars => IInv'
  BY Keeps
<1>3. QED
  BY <1>1, <1>2, PTL DEF Spec

\* The session's variables keep their types, a connection handle is of a live
\* link, and without one nothing is under way.
THEOREM TypeCorrect == Spec => []TypeOK
<1>1. IInv => TypeOK
  BY DEF IInv
<1>2. QED
  BY <1>1, Always, PTL

\* No command goes out before this poll has seen its own subscription
\* confirmed: no token a callback left behind is taken for it.
THEOREM SubscribedCorrect == Spec => []SubscribedBeforeCommands
<1>1. IInv => SubscribedBeforeCommands
  BY DEF IInv
<1>2. QED
  BY <1>1, Always, PTL

\* No question goes out before the fountain has accepted the secret in this
\* poll: no frame an earlier poll stored is taken for its answer.
THEOREM SecretCorrect == Spec => []SecretBeforeQuestions
<1>1. IInv => SecretBeforeQuestions
  BY DEF IInv
<1>2. QED
  BY <1>1, Always, PTL

\* A poll that returns TRUE hands over a state received in it.
THEOREM ReadingCorrect == Spec => []ReadingIsNew
<1>1. IInv => ReadingIsNew
  BY DEF IInv, AnswerInv, ReadingIsNew
<1>2. QED
  BY <1>1, Always, PTL
=============================================================================
