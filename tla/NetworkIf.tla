------------------------------ MODULE NetworkIf ------------------------------
(* Joining the access point (network_if.c), called once by Mqtt_IF_Connect. Two  *)
(* threads share the word g_ulStatus without a lock: the main task tests its bits *)
(* and clears them, and sl_Task, of higher priority, runs the event handlers that *)
(* set and clear them. A handler runs to its end before the main task goes on;    *)
(* the main task's "&= ~bit" is a load and a store, between which a handler may   *)
(* run.                                                                           *)
(*                                                                               *)
(* The network processor is outside the repository: it takes up a connection,     *)
(* acquires an address, loses the access point and tries again, and queues one    *)
(* event for each. With a profile in its memory it begins by itself.              *)
EXTENDS Integers, Sequences

CONSTANTS ConnectWait,      \* polls, one a second, before the attempt is given up
          MaxDrops          \* bound: how often the access point is lost

ASSUME ConnectWaitAssumption == ConnectWait \in Nat \ {0}
ASSUME MaxDropsAssumption == MaxDrops \in Nat

VARIABLES main,             \* where the main task is
          loaded,           \* the status word it has loaded to clear a bit of
          index,            \* g_usConnectIndex
          givingUp,         \* the second DisconnectFromAP of ConnectAP is running
          result,           \* of Mqtt_IF_Connect, for gApConnectionState
          status,           \* the bits set in g_ulStatus
          events,           \* events sl_Task has not handled yet
          link,             \* the network processor's connection
          drops,            \* how often it was lost
          profile           \* it has an access point in its memory

vars == <<main, loaded, index, givingUp, result, status, events, link, drops, profile>>

mainVars == <<main, loaded, index, givingUp, result>>
nwp == <<events, link, drops, profile>>

Bits == {"CONNECTION", "IP_ACQUIRED"}
Events == {"CONNECT", "IPV4_ACQUIRED", "DISCONNECT"}

Running == 1                \* no result yet; Mqtt_IF_Connect returns 0 or -1

TypeOK ==
    /\ main \in {"initDriver", "setMode", "stopDriver", "restart", "hung", "isConnected",
                 "disconnect", "spin", "loadConnection", "storeConnection", "loadIp",
                 "storeIp", "connect", "pollConnection", "pollIp", "checkConnection",
                 "checkIp", "getIp", "returned"}
    /\ loaded \subseteq Bits
    /\ index \in 0..ConnectWait
    /\ givingUp \in BOOLEAN
    /\ result \in {Running, 0, -1}
    /\ status \subseteq Bits
    /\ events \in Seq(Events)
    /\ link \in {"idle", "joining", "joined", "addressed"}
    /\ drops \in 0..MaxDrops
    /\ profile \in BOOLEAN

Init ==
    /\ main = "initDriver" /\ loaded = {} /\ index = 0 /\ givingUp = FALSE
    /\ result = Running
    /\ status = {}
    /\ events = <<>> /\ link = "idle" /\ drops = 0
    /\ profile \in BOOLEAN

Goto(from, to) == main = from /\ main' = to

-----------------------------------------------------------------------------
(* Network_IF_InitDriver(ROLE_STA), with Network_IF_ResetMCUStateMachine before it *)

\* A station with a stored profile begins to join without being asked. (The comment in
\* Network_IF_InitDriver says that profiles are cleaned; no call does it.)
LinkAfterStart(started) ==
    IF started = "station" /\ profile THEN "joining" ELSE link

\* sl_Start fails, comes up as a station, or in another role.
InitDriver(started) ==
    /\ Goto("initDriver", CASE started = "station" -> "isConnected"
                            [] started = "other"   -> "setMode"
                            [] started = "failed"  -> "hung")       \* LOOP_FOREVER
    /\ status' = {}
    /\ link' = LinkAfterStart(started)
    /\ UNCHANGED <<loaded, index, givingUp, result, events, drops, profile>>

\* sl_WlanSetMode to the station role; its error is returned.
SetMode(ok) ==
    /\ Goto("setMode", IF ok THEN "stopDriver" ELSE "returned")
    /\ result' = IF ok THEN result ELSE -1
    /\ UNCHANGED <<loaded, index, givingUp, status, nwp>>

\* sl_Stop, whose result is overwritten by that of the next start.
StopDriver ==
    /\ Goto("stopDriver", "restart")
    /\ UNCHANGED <<loaded, index, givingUp, result, status, nwp>>

Restart(started) ==
    /\ Goto("restart", CASE started = "station" -> "isConnected"
                         [] started = "other"   -> "hung"           \* LOOP_FOREVER
                         [] started = "failed"  -> "returned")
    /\ result' = IF started = "failed" THEN -1 ELSE result
    /\ link' = LinkAfterStart(started)
    /\ UNCHANGED <<loaded, index, givingUp, status, events, drops, profile>>

-----------------------------------------------------------------------------
(* Network_IF_DisconnectFromAP and the two CLR_STATUS_BITs after each call of it   *)

IsConnected ==
    /\ Goto("isConnected", IF "CONNECTION" \in status THEN "disconnect" ELSE "loadConnection")
    /\ UNCHANGED <<loaded, index, givingUp, result, status, nwp>>

LinkUp == link \in {"joined", "addressed"}

\* Fault: the result of sl_WlanDisconnect not looked at.
DisconnectUnchecked(accepted) ==
    /\ Goto("disconnect", "spin")
    /\ link' = IF accepted THEN "idle" ELSE link
    /\ events' = IF accepted /\ LinkUp THEN Append(events, "DISCONNECT") ELSE events
    /\ UNCHANGED <<loaded, index, givingUp, result, status, drops, profile>>

\* sl_WlanDisconnect; its error is returned to a caller that ignores it.
WlanDisconnect(accepted) ==
    /\ Goto("disconnect", IF accepted THEN "spin" ELSE "loadConnection")
    /\ link' = IF accepted THEN "idle" ELSE link
    /\ events' = IF accepted /\ LinkUp THEN Append(events, "DISCONNECT") ELSE events
    /\ UNCHANGED <<loaded, index, givingUp, result, status, drops, profile>>

SpinEnds ==
    /\ Goto("spin", "loadConnection")
    /\ "CONNECTION" \notin status
    /\ UNCHANGED <<loaded, index, givingUp, result, status, nwp>>

Load(from, to) ==
    /\ Goto(from, to)
    /\ loaded' = status
    /\ UNCHANGED <<index, givingUp, result, status, nwp>>

StoreConnection ==
    /\ Goto("storeConnection", "loadIp")
    /\ status' = loaded \ {"CONNECTION"}
    /\ UNCHANGED <<loaded, index, givingUp, result, nwp>>

\* Fault: a failed attempt started again at once.
RetryAtOnce ==
    /\ Goto("storeIp", "connect")
    /\ status' = loaded \ {"IP_ACQUIRED"}
    /\ index' = 0
    /\ UNCHANGED <<loaded, givingUp, result, nwp>>

StoreIp ==
    /\ Goto("storeIp", IF givingUp THEN "returned" ELSE "connect")
    /\ status' = loaded \ {"IP_ACQUIRED"}
    /\ result' = IF givingUp THEN -1 ELSE result
    /\ UNCHANGED <<loaded, index, givingUp, nwp>>

-----------------------------------------------------------------------------
(* Network_IF_ConnectAP                                                           *)

\* sl_WlanConnect; a connection there is already is ended first.
WlanConnect(accepted) ==
    /\ Goto("connect", IF accepted THEN "pollConnection" ELSE "returned")
    /\ link' = IF accepted THEN "joining" ELSE link
    /\ events' = IF accepted /\ LinkUp THEN Append(events, "DISCONNECT") ELSE events
    /\ result' = IF accepted THEN result ELSE -1
    /\ UNCHANGED <<loaded, index, givingUp, status, drops, profile>>

\* Fault: one poll too many.
TickPastEnd ==
    /\ index' = index + 1
    /\ main' = IF index + 1 <= ConnectWait THEN "pollConnection" ELSE "checkConnection"

\* One more second gone without both bits.
Tick ==
    /\ index' = index + 1
    /\ main' = IF index + 1 < ConnectWait THEN "pollConnection" ELSE "checkConnection"

\* Fault: seconds not counted while there is no connection.
PollUncounted ==
    /\ main = "pollConnection"
    /\ main' = IF "CONNECTION" \in status THEN "pollIp" ELSE "pollConnection"
    /\ UNCHANGED <<loaded, index, givingUp, result, status, nwp>>

\* sleep(1), then the two tests of &&, each reading the volatile word.
PollConnection ==
    /\ main = "pollConnection"
    /\ IF "CONNECTION" \in status THEN main' = "pollIp" /\ UNCHANGED index ELSE Tick
    /\ UNCHANGED <<loaded, givingUp, result, status, nwp>>

PollIp ==
    /\ main = "pollIp"
    /\ IF "IP_ACQUIRED" \in status THEN main' = "checkConnection" /\ UNCHANGED index ELSE Tick
    /\ UNCHANGED <<loaded, givingUp, result, status, nwp>>

\* The same two tests decide whether the attempt has succeeded.
Check(from, bit, to) ==
    /\ Goto(from, IF bit \in status THEN to ELSE "isConnected")
    /\ givingUp' = (bit \notin status)
    /\ UNCHANGED <<loaded, index, result, status, nwp>>

IpConfigGet(ok) ==
    /\ Goto("getIp", "returned")
    /\ result' = IF ok THEN 0 ELSE -1
    /\ UNCHANGED <<loaded, index, givingUp, status, nwp>>

MainTask ==
    \/ \E started \in {"station", "other", "failed"} : InitDriver(started) \/ Restart(started)
    \/ StopDriver \/ IsConnected
    \/ \E ok \in BOOLEAN :
          SetMode(ok) \/ WlanDisconnect(ok) \/ WlanConnect(ok) \/ IpConfigGet(ok)
    \/ SpinEnds
    \/ Load("loadConnection", "storeConnection") \/ StoreConnection
    \/ Load("loadIp", "storeIp") \/ StoreIp
    \/ PollConnection \/ PollIp
    \/ Check("checkConnection", "CONNECTION", "checkIp")
    \/ Check("checkIp", "IP_ACQUIRED", "getIp")

-----------------------------------------------------------------------------
(* sl_Task: SimpleLinkWlanEventHandler, SimpleLinkNetAppEventHandler.              *)

\* Fault: the address kept when the connection goes.
HandledKeepingIp(event, word) ==
    CASE event = "CONNECT"       -> word \cup {"CONNECTION"}
      [] event = "IPV4_ACQUIRED" -> word \cup {"IP_ACQUIRED"}
      [] event = "DISCONNECT"    -> word \ {"CONNECTION"}

\* The status word after the handler of an event.
Handled(event, word) ==
    CASE event = "CONNECT"       -> word \cup {"CONNECTION"}
      [] event = "IPV4_ACQUIRED" -> word \cup {"IP_ACQUIRED"}
      [] event = "DISCONNECT"    -> word \ {"CONNECTION", "IP_ACQUIRED"}

HandleEvent ==
    /\ events # <<>>
    /\ status' = Handled(Head(events), status)
    /\ events' = Tail(events)
    /\ UNCHANGED <<mainVars, link, drops, profile>>

-----------------------------------------------------------------------------
(* The network processor.                                                         *)

Report(from, to, event) ==
    /\ link \in from /\ link' = to
    /\ events' = Append(events, event)
    /\ UNCHANGED <<mainVars, status, profile>>

Associate == Report({"joining"}, "joined", "CONNECT") /\ UNCHANGED drops

AcquireAddress == Report({"joined"}, "addressed", "IPV4_ACQUIRED") /\ UNCHANGED drops

\* The access point goes away; the processor goes on trying or does not.
Drop ==
    /\ drops < MaxDrops /\ drops' = drops + 1
    /\ \E to \in {"joining", "idle"} : Report({"joined", "addressed"}, to, "DISCONNECT")

Next == MainTask \/ HandleEvent \/ Associate \/ AcquireAddress \/ Drop

(* Both threads run when they can, sleeps end and driver calls return. The radio  *)
(* owes nothing.                                                                  *)
Fairness == WF_vars(MainTask) /\ WF_vars(HandleEvent)

Spec == Init /\ [][Next]_vars /\ Fairness

-----------------------------------------------------------------------------
(* Properties                                                                     *)

\* The bits that describe a connection, and those an event announces.
BitsOf(state) ==
    CASE state \in {"idle", "joining"} -> {}
      [] state = "joined"              -> {"CONNECTION"}
      [] state = "addressed"           -> Bits

Announced(event) ==
    CASE event = "DISCONNECT"    -> {}
      [] event = "CONNECT"       -> {"CONNECTION"}
      [] event = "IPV4_ACQUIRED" -> Bits

\* What the bits will be once the first n events have been handled.
After(n) == IF n = 0 THEN status ELSE Announced(events[n])

Waiting == main \in {"pollConnection", "pollIp", "checkConnection", "checkIp", "getIp"}

(* Unless the network processor joins by itself, no update of the status word is   *)
(* lost from the connect command to the decision: each pending event finds the bits *)
(* it was queued on, and the last one leaves the bits of the connection as it is.   *)
(* The same holds after a success, for good.                                       *)
BitsTrackLink ==
    (~profile /\ (Waiting \/ result = 0)) =>
        /\ \A n \in 1..Len(events) : Handled(events[n], After(n - 1)) = Announced(events[n])
        /\ After(Len(events)) = BitsOf(link)

(* The two bits are read one after the other, with handlers in between; yet a      *)
(* connection is taken as established only if both are set at one moment.          *)
BothBitsAtOnce ==
    [][(main = "checkIp" /\ main' = "getIp") => status = Bits]_vars

(* DisconnectFromAP never waits for an event that will not come. With a stored      *)
(* profile it may: a bit that a clear has set again is no sign of a connection.     *)
SpinIsAnswered ==
    (~profile /\ main = "spin" /\ "CONNECTION" \in status)
        => \E n \in 1..Len(events) : events[n] = "DISCONNECT"

(* Mqtt_IF_Connect ends: it hangs only where LOOP_FOREVER is meant, before the device *)
(* is a station, and unless the processor joins by itself it returns from everything  *)
(* after that. No wait depends on the radio.                                         *)
Terminates ==
    /\ <>(main \in {"isConnected", "returned", "hung"})
    /\ (main = "isConnected" /\ ~profile) ~> main = "returned"

(* main_task.c and ConnectAP say that a negative result means disconnected and      *)
(* that the attempt is called off. The bit is not set until the connection is       *)
(* made, so an attempt still under way is not called off, and succeeds later.       *)
AttemptCalledOff == (main = "returned" /\ givingUp) => ~LinkUp

(* network_if.h says that a set bit means a connection. A handler that runs between *)
(* the load and the store of a clear is undone by the store.                       *)
BitMeansConnected == ("CONNECTION" \in status /\ events = <<>>) => LinkUp
=============================================================================
