-------------------------- MODULE NetworkIf_proofs --------------------------
(* Safety of NetworkIf for every number of polls and of drops. Where the program      *)
(* stands and how many seconds it has waited (Control) does not depend on the radio,   *)
(* and events come in an order (Ordered) whatever the main task does. Without a stored *)
(* profile, the main task changes nothing in the status word until the second pair of  *)
(* clears (the first pair finds it empty), so that word and pending events together    *)
(* describe the link (IInv).                                                          *)
EXTENDS NetworkIf, TLAPS

-----------------------------------------------------------------------------
(* The inductive invariant.                                                         *)

\* The main task has not asked for a connection yet.
Early == main \in {"initDriver", "setMode", "stopDriver", "restart", "hung", "isConnected",
                   "disconnect", "spin", "loadConnection", "storeConnection", "loadIp",
                   "storeIp", "connect"}
         /\ ~givingUp

\* It has not stored the word of the second pair of clears.
Tracked == ~(givingUp /\ main \in {"loadIp", "storeIp", "returned"})

Untouched ==
    Early => /\ status = {} /\ loaded = {} /\ index = 0
             /\ events = <<>> /\ link = "idle"

Chained == \A n \in 1..Len(events) : Handled(events[n], After(n - 1)) = Announced(events[n])

Tracking == Tracked => Chained /\ After(Len(events)) = BitsOf(link)

Phases ==
    /\ main = "spin" => link = "idle"
    /\ result = 0 => main = "returned" /\ ~givingUp
    /\ givingUp => main \in {"isConnected", "disconnect", "spin", "loadConnection",
                             "storeConnection", "loadIp", "storeIp", "returned"}
    /\ main \in {"pollConnection", "pollIp"} => index < ConnectWait

\* Whatever the network processor does on its own.
Control == TypeOK /\ Phases /\ (Early => index = 0)

\* An address is reported only after an association, and the last event pending is that
\* of the present connection.
Ordered ==
    /\ \A n \in 1..Len(events) :
          n # 1 /\ events[n] = "IPV4_ACQUIRED" => events[n - 1] = "CONNECT"
    /\ events # <<>> /\ link = "joined" => events[Len(events)] = "CONNECT"

\* The second test of the decision: the connection bit was set at the first, and once it
\* is not, no address comes before another connection.
AddressNotAlone ==
    main = "checkIp" =>
        /\ status \in {{}, {"CONNECTION"}, Bits}
        /\ status = {} => IF events = <<>> THEN link # "joined"
                                           ELSE events[1] # "IPV4_ACQUIRED"

\* Without a stored profile.
IInv == TypeOK /\ Untouched /\ Tracking /\ Phases

-----------------------------------------------------------------------------
LEMMA AppendFacts ==
  ASSUME NEW S, NEW q \in Seq(S), NEW e \in S
  PROVE  /\ Append(q, e) \in Seq(S)
         /\ Len(q) \in Nat /\ Len(Append(q, e)) = Len(q) + 1
         /\ \A i \in 1..Len(q) : Append(q, e)[i] = q[i]
         /\ Append(q, e)[Len(q) + 1] = e
  OBVIOUS

LEMMA HeadTailFacts ==
  ASSUME NEW S, NEW q \in Seq(S), q # <<>>
  PROVE  /\ Tail(q) \in Seq(S) /\ Head(q) = q[1] /\ q[1] \in S
         /\ Len(q) \in Nat /\ Len(q) >= 1 /\ Len(Tail(q)) = Len(q) - 1
         /\ \A i \in 1..(Len(q) - 1) : Tail(q)[i] = q[i + 1] /\ i + 1 \in 1..Len(q)
  OBVIOUS

LEMMA InitInvariant == Init => IInv
<1> SUFFICES ASSUME Init PROVE IInv
  OBVIOUS
<1>1. TypeOK
  <2>1. 0 \in 0..ConnectWait /\ 0 \in 0..MaxDrops
    BY ConnectWaitAssumption, MaxDropsAssumption
  <2>2. <<>> \in Seq(Events)
    OBVIOUS
  <2>3. QED BY <2>1, <2>2 DEF Init, TypeOK
<1>2. Len(events) = 0 /\ status = {} /\ link = "idle"
  BY DEF Init
<1>3. Tracking
  BY <1>2 DEF Tracking, Chained, After, BitsOf
<1>4. Untouched /\ Phases
  BY DEF Init, Untouched, Early, Phases, Running
<1>5. QED BY <1>1, <1>3, <1>4 DEF IInv

(* Steps of the main task that leave word, events and link alone.                   *)
LEMMA QuietInvariant ==
  ASSUME IInv, UNCHANGED <<status, events, link, drops, profile>>,
         TypeOK', Early' => Early /\ loaded' = {} /\ index' = 0, Tracked' => Tracked, Phases'
  PROVE  IInv'
<1>1. Untouched'
  BY DEF IInv, Untouched
<1>2. Tracking'
  BY DEF IInv, Tracking, Chained, After
<1>3. QED BY <1>1, <1>2 DEF IInv

(* The network processor queues an event that fits the link it leaves.              *)
LEMMA ReportInvariant ==
  ASSUME IInv, NEW from, NEW to, NEW event \in Events, Report(from, to, event),
         drops' \in 0..MaxDrops, to \in {"idle", "joining", "joined", "addressed"},
         link # "idle", main # "spin",
         Handled(event, BitsOf(link)) = Announced(event), BitsOf(to) = Announced(event)
  PROVE  IInv'
<1>1. /\ events \in Seq(Events) /\ events' = Append(events, event) /\ link' = to
      /\ UNCHANGED <<main, loaded, index, givingUp, result, status, profile>>
  BY DEF IInv, TypeOK, Report, mainVars
<1>2. /\ events' \in Seq(Events) /\ Len(events) \in Nat /\ Len(events') = Len(events) + 1
      /\ \A i \in 1..Len(events) : events'[i] = events[i]
      /\ events'[Len(events) + 1] = event
  BY <1>1, AppendFacts
<1>3. TypeOK' /\ Phases' /\ Tracked' = Tracked
  BY <1>1, <1>2 DEF IInv, TypeOK, Phases, Tracked
<1>4. Untouched'
  BY <1>1 DEF IInv, Untouched, Early
<1>5. ASSUME Tracked PROVE Chained' /\ After(Len(events))' = BitsOf(link)'
  <2>1. Chained /\ After(Len(events)) = BitsOf(link)
    BY <1>5 DEF IInv, Tracking
  <2>2. \A n \in 0..Len(events) : After(n)' = After(n)
    BY <1>1, <1>2 DEF After
  <2>3. ASSUME NEW n \in 1..Len(events')
        PROVE  Handled(events'[n], After(n - 1)') = Announced(events'[n])
    <3>1. CASE n \in 1..Len(events)
      <4>1. n - 1 \in 0..Len(events) /\ events'[n] = events[n]
        BY <1>2, <3>1
      <4>2. QED BY <2>1, <2>2, <3>1, <4>1 DEF Chained
    <3>2. CASE n = Len(events) + 1
      <4>1. n - 1 = Len(events) /\ Len(events) \in 0..Len(events) /\ events'[n] = event
        BY <1>2, <3>2
      <4>2. QED BY <2>1, <2>2, <4>1
    <3>3. QED BY <1>2, <3>1, <3>2
  <2>4. Chained'
    BY <2>3 DEF Chained
  <2>5. After(Len(events))' = Announced(event)
    BY <1>2 DEF After
  <2>6. QED BY <1>1, <2>4, <2>5
<1>6. QED BY <1>3, <1>4, <1>5 DEF IInv, Tracking

(* The handler of the oldest event leaves the bits that event announced.            *)
LEMMA HandleInvariant == ASSUME IInv, HandleEvent PROVE IInv'
<1>1. /\ events \in Seq(Events) /\ events # <<>> /\ events' = Tail(events)
      /\ status' = Handled(Head(events), status) /\ status \subseteq Bits
      /\ UNCHANGED <<main, loaded, index, givingUp, result, link, drops, profile>>
  BY DEF IInv, TypeOK, HandleEvent, mainVars
<1>2. /\ events' \in Seq(Events) /\ Len(events) \in Nat /\ Len(events) >= 1
      /\ Head(events) = events[1] /\ events[1] \in Events
      /\ Len(events') = Len(events) - 1
      /\ \A i \in 1..Len(events') : events'[i] = events[i + 1] /\ i + 1 \in 1..Len(events)
  BY <1>1, HeadTailFacts
<1>3. status' \subseteq Bits
  BY <1>1, <1>2 DEF Handled, Events, Bits
<1>4. TypeOK' /\ Phases' /\ Tracked' = Tracked
  BY <1>1, <1>2, <1>3 DEF IInv, TypeOK, Phases, Tracked
<1>5. Untouched'
  BY <1>1 DEF IInv, Untouched, Early
<1>6. ASSUME Tracked PROVE Chained' /\ After(Len(events))' = BitsOf(link)'
  <2>1. Chained /\ After(Len(events)) = BitsOf(link)
    BY <1>6 DEF IInv, Tracking
  <2>2. status' = Announced(events[1])
    <3>1. 1 \in 1..Len(events) /\ After(1 - 1) = status
      BY <1>2 DEF After
    <3>2. QED BY <1>1, <1>2, <2>1, <3>1 DEF Chained
  <2>4. \A n \in 0..Len(events') : After(n)' = After(n + 1)
    BY <1>2, <2>2 DEF After
  <2>5. ASSUME NEW n \in 1..Len(events')
        PROVE  Handled(events'[n], After(n - 1)') = Announced(events'[n])
    <3>1. /\ events'[n] = events[n + 1] /\ n + 1 \in 1..Len(events)
          /\ n - 1 \in 0..Len(events') /\ (n - 1) + 1 = (n + 1) - 1
      BY <1>2
    <3>2. After(n - 1)' = After((n + 1) - 1)
      BY <2>4, <3>1
    <3>3. QED BY <2>1, <3>1, <3>2 DEF Chained
  <2>6. Chained'
    BY <2>5 DEF Chained
  <2>7. After(Len(events))' = After(Len(events))
    BY <1>2, <2>4
  <2>8. QED BY <1>1, <2>1, <2>6, <2>7
<1>7. QED BY <1>4, <1>5, <1>6 DEF IInv, Tracking
(* A disconnect command queues the event that ends the wait for it.                 *)
LEMMA DisconnectInvariant ==
  ASSUME IInv, NEW accepted \in BOOLEAN, WlanDisconnect(accepted)
  PROVE  IInv'
<1>1. /\ main = "disconnect"
      /\ UNCHANGED <<loaded, index, givingUp, result, status, drops, profile>>
      /\ events \in Seq(Events) /\ Len(events) \in Nat /\ TypeOK
  BY DEF IInv, TypeOK, WlanDisconnect, Goto
<1>2. Early => link = "idle" /\ events = <<>>
  BY DEF IInv, Untouched
<1>3. CASE ~accepted
  BY <1>1, <1>3, QuietInvariant
     DEF WlanDisconnect, Goto, TypeOK, Early, Tracked, Phases, IInv, Untouched
<1>4. CASE accepted /\ ~LinkUp
  <2>1. main' = "spin" /\ link' = "idle" /\ events' = events
    BY <1>4 DEF WlanDisconnect, Goto
  <2>2. TypeOK' /\ Phases' /\ Tracked /\ Untouched'
    BY <1>1, <2>1 DEF IInv, TypeOK, Phases, Tracked, Untouched, Early
  <2>3. BitsOf(link)' = BitsOf(link)
    BY <1>1, <1>4, <2>1 DEF BitsOf, LinkUp, TypeOK
  <2>4. Tracking'
    BY <1>1, <2>1, <2>2, <2>3 DEF IInv, Tracking, Chained, After
  <2>5. QED BY <2>2, <2>4 DEF IInv
<1>5. CASE accepted /\ LinkUp
  <2>1. main' = "spin" /\ link' = "idle" /\ events' = Append(events, "DISCONNECT")
    BY <1>5 DEF WlanDisconnect, Goto
  <2>2. /\ events' \in Seq(Events) /\ Len(events') = Len(events) + 1
        /\ \A i \in 1..Len(events) : events'[i] = events[i]
        /\ events'[Len(events) + 1] = "DISCONNECT"
    BY <1>1, <2>1, AppendFacts DEF Events
  <2>3. ~Early
    BY <1>2, <1>5 DEF LinkUp
  <2>4. TypeOK' /\ Phases' /\ Tracked /\ Untouched'
    BY <1>1, <2>1, <2>2, <2>3 DEF IInv, TypeOK, Phases, Tracked, Untouched, Early
  <2>5. \A n \in 0..Len(events) : After(n)' = After(n) /\ After(n) \subseteq Bits
    <3>1. \A n \in 1..Len(events) : events[n] \in Events
      BY <1>1
    <3>2. QED BY <1>1, <2>2, <3>1 DEF After, Announced, Events, Bits, TypeOK
  <2>6. ASSUME NEW n \in 1..Len(events')
        PROVE  Handled(events'[n], After(n - 1)') = Announced(events'[n])
    <3>1. n - 1 \in 0..Len(events)
      BY <1>1, <2>2
    <3>2. CASE n \in 1..Len(events)
      BY <2>2, <2>4, <2>5, <3>1, <3>2 DEF IInv, Tracking, Chained
    <3>3. CASE n = Len(events) + 1
      BY <2>2, <2>5, <3>1, <3>3 DEF Handled, Announced, Bits
    <3>4. QED BY <1>1, <2>2, <3>2, <3>3
  <2>7. After(Len(events))' = BitsOf(link)'
    BY <1>1, <2>1, <2>2 DEF After, Announced, BitsOf
  <2>8. QED BY <2>4, <2>6, <2>7 DEF IInv, Tracking, Chained
<1>6. QED BY <1>3, <1>4, <1>5

(* The first pair of clears clears nothing; after the second the word is its own.    *)
LEMMA StoreInvariant == ASSUME IInv, StoreConnection \/ StoreIp PROVE IInv'
<1>1. /\ TypeOK /\ UNCHANGED <<loaded, index, givingUp, events, link, drops, profile>>
      /\ main \in {"storeConnection", "storeIp"}
      /\ status' = loaded \ {"CONNECTION"} \/ status' = loaded \ {"IP_ACQUIRED"}
      /\ main' = "loadIp" \/ main' = IF givingUp THEN "returned" ELSE "connect"
      /\ result' \in {result, -1} /\ (result' = -1 \/ result' = result)
  BY DEF IInv, StoreConnection, StoreIp, Goto, nwp
<1>2. TypeOK'
  BY <1>1 DEF TypeOK
<1>3. Phases'
  BY <1>1 DEF IInv, Phases
<1>4. CASE givingUp
  <2>1. ~Tracked' /\ ~Early'
    BY <1>1, <1>4 DEF Tracked, Early
  <2>2. QED BY <1>2, <1>3, <2>1 DEF IInv, Tracking, Untouched
<1>5. CASE ~givingUp
  <2>1. Early
    BY <1>1, <1>5 DEF Early
  <2>2. /\ status = {} /\ loaded = {} /\ index = 0 /\ events = <<>> /\ link = "idle"
        /\ status' = {}
    BY <1>1, <2>1 DEF IInv, Untouched
  <2>3. Len(events) = 0
    BY <2>2
  <2>4. Untouched'
    BY <1>1, <2>2 DEF Untouched
  <2>5. Tracking'
    BY <1>1, <2>2, <2>3 DEF Tracking, Chained, After, BitsOf
  <2>6. QED BY <1>2, <1>3, <2>4, <2>5 DEF IInv
<1>6. QED BY <1>4, <1>5

(* The attempt starts with nothing set and nothing pending.                          *)
LEMMA ConnectInvariant == ASSUME IInv, NEW accepted \in BOOLEAN, WlanConnect(accepted) PROVE IInv'
<1>1. /\ main = "connect" /\ ~givingUp /\ TypeOK
      /\ UNCHANGED <<loaded, index, givingUp, status, drops, profile>>
      /\ main' \in {"pollConnection", "returned"} /\ link' \in {link, "joining"}
      /\ ~LinkUp => events' = events
      /\ accepted => main' = "pollConnection"
      /\ result' = IF accepted THEN result ELSE -1
  BY DEF IInv, Phases, WlanConnect, Goto
<1>2. /\ status = {} /\ index = 0 /\ events = <<>> /\ Len(events) = 0 /\ link = "idle" /\ Early
      /\ events' = events
  BY <1>1 DEF IInv, Untouched, Early, LinkUp
<1>3. TypeOK'
  BY <1>1, <1>2 DEF TypeOK
<1>4. Phases' /\ Untouched'
  BY <1>1, <1>2, ConnectWaitAssumption DEF IInv, TypeOK, Phases, Untouched, Early
<1>5. Tracking'
  BY <1>1, <1>2 DEF Tracking, Chained, After, BitsOf
<1>6. QED BY <1>3, <1>4, <1>5 DEF IInv

(* A device without a stored profile waits to be asked.                              *)
LEMMA InductiveStep == ~profile /\ IInv /\ [Next]_vars => IInv'
<1> SUFFICES ASSUME ~profile, IInv, [Next]_vars PROVE IInv'
  OBVIOUS
<1>1. TypeOK /\ Phases
  BY DEF IInv
<1>2. CASE \E started \in {"station", "other", "failed"} : InitDriver(started)
  <2>1. PICK started \in {"station", "other", "failed"} : InitDriver(started)
    BY <1>2
  <2>2. ~givingUp /\ main = "initDriver" /\ Early
    BY <1>1, <2>1 DEF InitDriver, Goto, Phases, Early
  <2>3. status = {} /\ loaded = {} /\ index = 0
    BY <2>2 DEF IInv, Untouched
  <2>4. UNCHANGED <<status, events, link, drops, profile, loaded, index, givingUp, result>>
    BY <2>1, <2>3 DEF InitDriver, LinkAfterStart
  <2>5. main' \in {"isConnected", "setMode", "hung"}
    BY <2>1 DEF InitDriver, Goto
  <2>6. QED BY <1>1, <2>2, <2>3, <2>4, <2>5, QuietInvariant DEF TypeOK, Early, Tracked, Phases
<1>3. CASE \/ StopDriver \/ \E ok \in BOOLEAN : SetMode(ok)
            \/ \E started \in {"station", "other", "failed"} : Restart(started)
  <2>1. /\ main \in {"setMode", "stopDriver", "restart"} /\ result' \in {result, -1}
        /\ main' \in {"stopDriver", "restart", "isConnected", "hung", "returned"}
        /\ UNCHANGED <<status, events, link, drops, profile, loaded, index, givingUp>>
    BY <1>3 DEF StopDriver, SetMode, Restart, LinkAfterStart, Goto, nwp
  <2>2. ~givingUp /\ Early
    BY <1>1, <2>1 DEF Phases, Early
  <2>3. loaded = {} /\ index = 0
    BY <2>2 DEF IInv, Untouched
  <2>4. QED BY <1>1, <2>1, <2>2, <2>3, QuietInvariant DEF TypeOK, Early, Tracked, Phases
<1>4. CASE IsConnected
  <2>1. /\ main = "isConnected" /\ main' \in {"disconnect", "loadConnection"}
        /\ UNCHANGED <<status, events, link, drops, profile, loaded, index, givingUp, result>>
    BY <1>4 DEF IsConnected, Goto, nwp
  <2>2. QED BY <1>1, <2>1, QuietInvariant DEF IInv, Untouched, TypeOK, Early, Tracked, Phases
<1>5. CASE SpinEnds
  <2>1. /\ main = "spin" /\ main' = "loadConnection"
        /\ UNCHANGED <<status, events, link, drops, profile, loaded, index, givingUp, result>>
    BY <1>5 DEF SpinEnds, Goto, nwp
  <2>2. QED BY <1>1, <2>1, QuietInvariant DEF IInv, Untouched, TypeOK, Early, Tracked, Phases
<1>6. CASE Load("loadConnection", "storeConnection") \/ Load("loadIp", "storeIp")
  <2>1. /\ <<main, main'>> \in {<<"loadConnection", "storeConnection">>, <<"loadIp", "storeIp">>}
        /\ loaded' = status
        /\ UNCHANGED <<status, events, link, drops, profile, index, givingUp, result>>
    BY <1>6 DEF Load, Goto, nwp
  <2>2. QED BY <1>1, <2>1, QuietInvariant DEF IInv, Untouched, TypeOK, Early, Tracked, Phases
<1>7. CASE StoreConnection \/ StoreIp
  BY <1>7, StoreInvariant
<1>8. CASE \E ok \in BOOLEAN : WlanDisconnect(ok)
  BY <1>8, DisconnectInvariant
<1>9. CASE \E ok \in BOOLEAN : WlanConnect(ok)
  BY <1>9, ConnectInvariant
<1>10. CASE \E ok \in BOOLEAN : IpConfigGet(ok)
  <2>1. /\ main = "getIp" /\ main' = "returned" /\ result' \in {0, -1}
        /\ UNCHANGED <<status, events, link, drops, profile, loaded, index, givingUp>>
    BY <1>10 DEF IpConfigGet, Goto, nwp
  <2>2. QED BY <1>1, <2>1, QuietInvariant DEF TypeOK, Early, Tracked, Phases
<1>11. CASE PollConnection \/ PollIp
  <2>1. /\ main \in {"pollConnection", "pollIp"} /\ ~givingUp /\ index < ConnectWait
        /\ \/ main' \in {"pollIp", "checkConnection"} /\ index' = index
           \/ Tick
        /\ UNCHANGED <<status, events, link, drops, profile, loaded, givingUp, result>>
    BY <1>1, <1>11 DEF PollConnection, PollIp, Phases, nwp
  <2>2. /\ main' \in {"pollConnection", "pollIp", "checkConnection"} /\ index' \in 0..ConnectWait
        /\ main' = "pollConnection" => index' < ConnectWait
        /\ main' = "pollIp" => index' < ConnectWait
    BY <1>1, <2>1, ConnectWaitAssumption DEF Tick, TypeOK
  <2>3. QED BY <1>1, <2>1, <2>2, QuietInvariant DEF TypeOK, Early, Tracked, Phases
<1>12. CASE \/ Check("checkConnection", "CONNECTION", "checkIp")
            \/ Check("checkIp", "IP_ACQUIRED", "getIp")
  <2>1. /\ main \in {"checkConnection", "checkIp"} /\ givingUp' \in BOOLEAN
        /\ main' \in {"checkIp", "getIp", "isConnected"}
        /\ givingUp' <=> main' = "isConnected"
        /\ UNCHANGED <<status, events, link, drops, profile, loaded, index, result>>
    BY <1>12 DEF Check, Goto, nwp
  <2>2. result # 0
    BY <1>1, <2>1 DEF Phases
  <2>3. QED BY <1>1, <2>1, <2>2, QuietInvariant DEF TypeOK, Early, Tracked, Phases
<1>13. CASE HandleEvent
  BY <1>13, HandleInvariant
<1>14. CASE Associate
  <2>1. Report({"joining"}, "joined", "CONNECT") /\ drops' \in 0..MaxDrops /\ link = "joining"
    BY <1>1, <1>14 DEF Associate, Report, TypeOK
  <2>2. Handled("CONNECT", BitsOf(link)) = Announced("CONNECT") /\ main # "spin"
    BY <1>1, <2>1 DEF Handled, BitsOf, Announced, Phases
  <2>3. QED BY <2>1, <2>2, ReportInvariant DEF Events, Announced, BitsOf
<1>15. CASE AcquireAddress
  <2>1. /\ Report({"joined"}, "addressed", "IPV4_ACQUIRED")
        /\ drops' \in 0..MaxDrops /\ link = "joined"
    BY <1>1, <1>15 DEF AcquireAddress, Report, TypeOK
  <2>2. Handled("IPV4_ACQUIRED", BitsOf(link)) = Announced("IPV4_ACQUIRED") /\ main # "spin"
    BY <1>1, <2>1 DEF Handled, BitsOf, Announced, Phases, Bits
  <2>3. QED BY <2>1, <2>2, ReportInvariant DEF Events, Announced, BitsOf
<1>16. CASE Drop
  <2>1. PICK to \in {"joining", "idle"} : Report({"joined", "addressed"}, to, "DISCONNECT")
    BY <1>16 DEF Drop
  <2>2. drops' \in 0..MaxDrops
    BY <1>1, <1>16, MaxDropsAssumption DEF Drop, TypeOK
  <2>3. Handled("DISCONNECT", BitsOf(link)) = {} /\ link # "idle" /\ main # "spin"
    BY <1>1, <2>1 DEF Report, Handled, BitsOf, Bits, Phases
  <2>4. QED BY <2>1, <2>2, <2>3, ReportInvariant DEF Events, Announced, BitsOf
<1>17. CASE UNCHANGED vars
  BY <1>1, <1>17, QuietInvariant DEF vars, IInv, Untouched, TypeOK, Early, Tracked, Phases
<1>18. QED
  BY <1>2, <1>3, <1>4, <1>5, <1>6, <1>7, <1>8, <1>9, <1>10, <1>11, <1>12, <1>13, <1>14, <1>15,
     <1>16, <1>17 DEF Next, MainTask

LEMMA LinkInvariant == IInv => BitsTrackLink
<1> SUFFICES ASSUME IInv, Waiting \/ result = 0
             PROVE  Chained /\ After(Len(events)) = BitsOf(link)
  BY DEF BitsTrackLink, Chained
<1>1. Tracked
  BY DEF IInv, Phases, Waiting, Tracked
<1>2. QED BY <1>1 DEF IInv, Tracking

(* The wait in DisconnectFromAP has its event in the queue: the link is idle, so the  *)
(* newest event, if any, is a disconnection.                                         *)
LEMMA SpinInvariant == IInv => SpinIsAnswered
<1> SUFFICES ASSUME IInv, main = "spin", "CONNECTION" \in status
             PROVE  \E n \in 1..Len(events) : events[n] = "DISCONNECT"
  BY DEF SpinIsAnswered
<1>1. link = "idle" /\ Tracked /\ events \in Seq(Events) /\ Len(events) \in Nat
  BY DEF IInv, Phases, Tracked, TypeOK
<1>2. After(Len(events)) = {}
  BY <1>1 DEF IInv, Tracking, BitsOf
<1>3. Len(events) # 0
  BY <1>2 DEF After
<1>4. Len(events) \in 1..Len(events) /\ events[Len(events)] \in Events
  BY <1>1, <1>3
<1>5. Announced(events[Len(events)]) = {}
  BY <1>2, <1>3 DEF After
<1>6. events[Len(events)] = "DISCONNECT"
  BY <1>4, <1>5 DEF Announced, Events, Bits
<1>7. QED BY <1>4, <1>6

(* The main task's control, whatever is stored in the network processor.              *)
LEMMA ControlStep == Control /\ [Next]_vars => Control'
<1> SUFFICES ASSUME Control, [Next]_vars PROVE Control'
  OBVIOUS
<1>1. TypeOK /\ Phases /\ (Early => index = 0) /\ events \in Seq(Events)
  BY DEF Control, TypeOK
<1>2. \A e \in Events : Append(events, e) \in Seq(Events)
  BY <1>1, AppendFacts
<1>3. ASSUME events' \in Seq(Events), status' \subseteq Bits, drops' \in 0..MaxDrops,
             link' \in {"idle", "joining", "joined", "addressed"},
             UNCHANGED <<mainVars, profile>>, main = "spin" => link' = "idle"
      PROVE  Control'
  BY <1>1, <1>3 DEF Control, TypeOK, Phases, Early, mainVars
<1>4. CASE HandleEvent
  <2>1. events # <<>> /\ Tail(events) \in Seq(Events) /\ Head(events) \in Events
    BY <1>1, <1>4, HeadTailFacts DEF HandleEvent
  <2>2. status' \subseteq Bits
    BY <1>1, <1>4, <2>1 DEF HandleEvent, Handled, Events, Bits, TypeOK
  <2>3. QED BY <1>1, <1>3, <1>4, <2>1, <2>2 DEF HandleEvent, TypeOK, Phases
<1>5. CASE Associate \/ AcquireAddress
  BY <1>1, <1>2, <1>3, <1>5 DEF Associate, AcquireAddress, Report, TypeOK, Phases, Events
<1>6. CASE Drop
  <2>1. drops' \in 0..MaxDrops
    BY <1>1, <1>6, MaxDropsAssumption DEF Drop, TypeOK
  <2>2. QED BY <1>1, <1>2, <1>3, <1>6, <2>1 DEF Drop, Report, TypeOK, Phases, Events
<1>7. CASE MainTask
  <2> USE DEF Goto, nwp
  <2>1. CASE \/ StopDriver \/ \E ok \in BOOLEAN : SetMode(ok)
             \/ \E started \in {"station", "other", "failed"} :
                    InitDriver(started) \/ Restart(started)
    <3>1. /\ main \in {"initDriver", "setMode", "stopDriver", "restart"}
          /\ main' \in {"setMode", "stopDriver", "restart", "isConnected", "hung", "returned"}
          /\ result' \in {result, -1} /\ status' \in {status, {}} /\ link' \in {link, "joining"}
          /\ UNCHANGED <<loaded, index, givingUp, events, drops, profile>>
      BY <2>1 DEF StopDriver, SetMode, InitDriver, Restart, LinkAfterStart
    <3>2. QED BY <1>1, <3>1 DEF Control, TypeOK, Phases, Early
  <2>2. CASE \E ok \in BOOLEAN : WlanDisconnect(ok) \/ WlanConnect(ok)
    <3>1. /\ UNCHANGED <<loaded, index, givingUp, status, drops, profile>>
          /\ events' = events \/ events' = Append(events, "DISCONNECT")
          /\ \/ /\ main = "disconnect" /\ result' = result
                /\ \/ main' = "spin" /\ link' = "idle"
                   \/ main' = "loadConnection" /\ link' = link
             \/ /\ main = "connect" /\ result' \in {result, -1} /\ link' \in {link, "joining"}
                /\ \/ main' = "pollConnection" /\ result' = result
                   \/ main' = "returned" /\ result' = -1
      BY <2>2 DEF WlanDisconnect, WlanConnect
    <3>2. events' \in Seq(Events)
      BY <1>1, <1>2, <3>1 DEF Events
    <3>3. QED BY <1>1, <3>1, <3>2, ConnectWaitAssumption DEF Control, TypeOK, Phases, Early
  <2>3. CASE IsConnected \/ SpinEnds
    BY <1>1, <2>3 DEF IsConnected, SpinEnds, Control, TypeOK, Phases, Early
  <2>4. CASE Load("loadConnection", "storeConnection") \/ Load("loadIp", "storeIp")
    BY <1>1, <2>4 DEF Load, Control, TypeOK, Phases, Early
  <2>5. CASE StoreConnection \/ StoreIp
    BY <1>1, <2>5 DEF StoreConnection, StoreIp, Control, TypeOK, Phases, Early
  <2>6. CASE PollConnection \/ PollIp
    <3>1. /\ main \in {"pollConnection", "pollIp"} /\ ~givingUp /\ index < ConnectWait
          /\ \/ main' \in {"pollIp", "checkConnection"} /\ index' = index
             \/ Tick
          /\ UNCHANGED <<status, events, link, drops, profile, loaded, givingUp, result>>
      BY <1>1, <2>6 DEF PollConnection, PollIp, Phases
    <3>2. /\ main' \in {"pollConnection", "pollIp", "checkConnection"}
          /\ index' \in 0..ConnectWait
          /\ main' \in {"pollConnection", "pollIp"} => index' < ConnectWait
      BY <1>1, <3>1, ConnectWaitAssumption DEF Tick, TypeOK
    <3>3. result # 0 /\ ~Early /\ ~Early'
      BY <1>1, <3>1, <3>2 DEF Phases, Early
    <3>4. TypeOK'
      BY <1>1, <3>1, <3>2 DEF TypeOK
    <3>5. Phases'
      BY <1>1, <3>1, <3>2, <3>3 DEF Phases
    <3>6. QED BY <3>3, <3>4, <3>5 DEF Control
  <2>7. CASE \/ Check("checkConnection", "CONNECTION", "checkIp")
             \/ Check("checkIp", "IP_ACQUIRED", "getIp")
             \/ \E ok \in BOOLEAN : IpConfigGet(ok)
    <3>1. CASE \E ok \in BOOLEAN : IpConfigGet(ok)
      BY <1>1, <3>1 DEF IpConfigGet, Control, TypeOK, Phases, Early
    <3>2. CASE ~(\E ok \in BOOLEAN : IpConfigGet(ok))
      <4>1. /\ main \in {"checkConnection", "checkIp"} /\ givingUp' \in BOOLEAN
            /\ main' \in {"checkIp", "getIp", "isConnected"}
            /\ givingUp' <=> main' = "isConnected"
            /\ UNCHANGED <<status, events, link, drops, profile, loaded, index, result>>
        BY <2>7, <3>2 DEF Check
      <4>2. result # 0 /\ ~Early'
        BY <1>1, <4>1 DEF Phases, Early
      <4>3. TypeOK'
        BY <1>1, <4>1 DEF TypeOK
      <4>4. QED BY <1>1, <4>1, <4>2, <4>3 DEF Control, Phases
    <3>3. QED BY <3>1, <3>2
  <2>8. QED BY <1>7, <2>1, <2>2, <2>3, <2>4, <2>5, <2>6, <2>7 DEF MainTask
<1>8. CASE UNCHANGED vars
  BY <1>1, <1>8 DEF vars, Control, TypeOK, Phases, Early
<1>9. QED BY <1>4, <1>5, <1>6, <1>7, <1>8 DEF Next

LEMMA ControlInvariance == Spec => []Control
<1>1. Init => Control
  BY InitInvariant DEF IInv, Untouched, Control
<1>2. QED BY <1>1, ControlStep, PTL DEF Spec

(* What is stored in the network processor stays there.                              *)
LEMMA ProfileStays == [Next]_vars => profile' = profile
  BY DEF Next, MainTask, InitDriver, SetMode, StopDriver, Restart, IsConnected,
     WlanDisconnect, WlanConnect, IpConfigGet, SpinEnds, Load, StoreConnection, StoreIp,
     PollConnection, PollIp, Check, HandleEvent, Associate, AcquireAddress, Drop, Report,
     nwp, vars

LEMMA Invariance == Spec => [](~profile => IInv)
<1>1. Init => (~profile => IInv)
  BY InitInvariant
<1>2. (~profile => IInv) /\ [Next]_vars => (~profile => IInv)'
  BY InductiveStep, ProfileStays
<1>3. QED BY <1>1, <1>2, PTL DEF Spec

-----------------------------------------------------------------------------
(* The order of events, with or without a stored profile.                             *)

(* An event that the network processor queues fits the last one.                      *)
LEMMA AppendInOrder ==
  ASSUME Ordered, AddressNotAlone, TypeOK, NEW e \in Events, events' = Append(events, e),
         UNCHANGED status, main' = main \/ (main # "checkIp" /\ main' # "checkIp"),
         e = "IPV4_ACQUIRED" => link = "joined", link' = "joined" => e = "CONNECT"
  PROVE  Ordered' /\ AddressNotAlone'
<1>1. /\ events \in Seq(Events) /\ Len(events) \in Nat /\ Len(events') = Len(events) + 1
      /\ \A i \in 1..Len(events) : events'[i] = events[i]
      /\ events'[Len(events) + 1] = e /\ events' # <<>>
  BY AppendFacts DEF TypeOK
<1>2. ASSUME NEW n \in 1..Len(events'), n # 1, events'[n] = "IPV4_ACQUIRED"
      PROVE  events'[n - 1] = "CONNECT"
  <2>1. CASE n \in 1..Len(events)
    <3>1. n - 1 \in 1..Len(events)
      BY <1>1, <1>2, <2>1
    <3>2. QED BY <1>1, <1>2, <2>1, <3>1 DEF Ordered
  <2>2. CASE n = Len(events) + 1
    <3>1. n - 1 = Len(events) /\ Len(events) \in 1..Len(events) /\ events # <<>>
      BY <1>1, <1>2, <2>2
    <3>2. link = "joined"
      BY <1>1, <1>2, <2>2
    <3>3. QED BY <1>1, <3>1, <3>2 DEF Ordered
  <2>3. QED BY <1>1, <1>2, <2>1, <2>2
<1>3. Ordered'
  BY <1>1, <1>2 DEF Ordered
<1>4. ASSUME main' = "checkIp", status' = {} PROVE events'[1] # "IPV4_ACQUIRED"
  <2>1. main = "checkIp" /\ status = {}
    BY <1>4
  <2>2. CASE events = <<>>
    BY <1>1, <2>1, <2>2 DEF AddressNotAlone
  <2>3. CASE events # <<>>
    <3>1. 1 \in 1..Len(events)
      BY <1>1, <2>3
    <3>2. QED BY <1>1, <2>1, <2>3, <3>1 DEF AddressNotAlone
  <2>4. QED BY <2>2, <2>3
<1>5. QED BY <1>1, <1>3, <1>4 DEF AddressNotAlone

(* Handling the oldest event keeps the order of the rest.                             *)
LEMMA HandleInOrder ==
  ASSUME Ordered, AddressNotAlone, TypeOK, HandleEvent
  PROVE  Ordered' /\ AddressNotAlone'
<1>1. /\ events \in Seq(Events) /\ events # <<>> /\ events' = Tail(events)
      /\ status' = Handled(events[1], status) /\ UNCHANGED <<main, link>>
  BY HeadTailFacts DEF TypeOK, HandleEvent, mainVars
<1>2. /\ Len(events) \in Nat /\ Len(events) >= 1 /\ events[1] \in Events
      /\ Len(events') = Len(events) - 1
      /\ \A i \in 1..Len(events') : events'[i] = events[i + 1] /\ i + 1 \in 1..Len(events)
      /\ events' # <<>> => Len(events') >= 1
      /\ events' = <<>> => Len(events) = 1
  <2>1. /\ events' \in Seq(Events) /\ events[1] \in Events
        /\ Len(events) \in Nat /\ Len(events) >= 1 /\ Len(events') = Len(events) - 1
        /\ \A i \in 1..(Len(events) - 1) :
               events'[i] = events[i + 1] /\ i + 1 \in 1..Len(events)
    BY <1>1, HeadTailFacts
  <2>2. events' # <<>> => Len(events') >= 1
    BY <2>1
  <2>3. events' = <<>> => Len(events) = 1
    BY <2>1
  <2>4. QED BY <2>1, <2>2, <2>3
<1>3. Ordered'
  <2>1. ASSUME NEW n \in 1..Len(events'), n # 1, events'[n] = "IPV4_ACQUIRED"
        PROVE  events'[n - 1] = "CONNECT"
    <3>1. n - 1 \in 1..Len(events') /\ (n - 1) + 1 = n /\ (n + 1) - 1 = n /\ n + 1 # 1
      BY <1>2, <2>1
    <3>2. events'[n] = events[n + 1] /\ n + 1 \in 1..Len(events) /\ events'[n - 1] = events[n]
      BY <1>2, <3>1
    <3>3. QED BY <2>1, <3>1, <3>2 DEF Ordered
  <2>2. ASSUME events' # <<>>, link' = "joined" PROVE events'[Len(events')] = "CONNECT"
    <3>1. Len(events') \in 1..Len(events') /\ Len(events') + 1 = Len(events)
      BY <1>2, <2>2
    <3>2. events'[Len(events')] = events[Len(events)]
      BY <1>2, <3>1
    <3>3. QED BY <1>1, <2>2, <3>2 DEF Ordered
  <2>3. QED BY <2>1, <2>2 DEF Ordered
<1>4. ASSUME main = "checkIp"
      PROVE  /\ status' \in {{}, {"CONNECTION"}, Bits}
             /\ status' = {} => events[1] = "DISCONNECT"
  BY <1>1, <1>2, <1>4 DEF AddressNotAlone, Handled, Events, Bits
<1>5. ASSUME events[1] = "DISCONNECT"
      PROVE  IF events' = <<>> THEN link' # "joined" ELSE events'[1] # "IPV4_ACQUIRED"
  <2>1. CASE events' = <<>>
    BY <1>1, <1>2, <1>5, <2>1 DEF Ordered
  <2>2. CASE events' # <<>>
    <3>1. 1 \in 1..Len(events') /\ 1 + 1 = 2 /\ 2 - 1 = 1
      BY <1>2, <2>2
    <3>2. events'[1] = events[2] /\ 2 \in 1..Len(events)
      BY <1>2, <3>1
    <3>3. QED BY <1>5, <2>2, <3>1, <3>2 DEF Ordered
  <2>3. QED BY <2>1, <2>2
<1>6. QED BY <1>1, <1>3, <1>4, <1>5 DEF AddressNotAlone

LEMMA OrderStep ==
  Control /\ Ordered /\ AddressNotAlone /\ [Next]_vars => Ordered' /\ AddressNotAlone'
<1> SUFFICES ASSUME Control, Ordered, AddressNotAlone, [Next]_vars
             PROVE  Ordered' /\ AddressNotAlone'
  OBVIOUS
<1>1. TypeOK /\ status \subseteq Bits
  BY DEF Control, TypeOK
<1>2. CASE HandleEvent
  BY <1>1, <1>2, HandleInOrder
<1>3. CASE Associate \/ AcquireAddress \/ Drop
  <2>1. PICK e \in Events :
           /\ events' = Append(events, e) /\ UNCHANGED <<status, main>>
           /\ e = "IPV4_ACQUIRED" => link = "joined"
           /\ link' = "joined" => e = "CONNECT"
    BY <1>3 DEF Associate, AcquireAddress, Drop, Report, mainVars, Events
  <2>2. QED BY <1>1, <2>1, AppendInOrder
<1>4. CASE MainTask
  <2> USE DEF Goto, nwp
  <2>1. CASE Check("checkConnection", "CONNECTION", "checkIp")
    <3>1. UNCHANGED <<status, events, link>>
      BY <2>1 DEF Check
    <3>2. main' = "checkIp" => "CONNECTION" \in status
      BY <2>1 DEF Check
    <3>3. "CONNECTION" \in status => status \in {{"CONNECTION"}, Bits} /\ status # {}
      BY <1>1 DEF Bits
    <3>4. QED BY <3>1, <3>2, <3>3 DEF Ordered, AddressNotAlone
  <2>2. CASE \E ok \in BOOLEAN : WlanDisconnect(ok) \/ WlanConnect(ok)
    <3>1. /\ main # "checkIp" /\ main' # "checkIp" /\ status' = status
          /\ \/ /\ events' = Append(events, "DISCONNECT")
                /\ link' # "joined"
             \/ /\ events' = events
                /\ link' = "joined" => link = "joined"
      BY <2>2 DEF WlanDisconnect, WlanConnect
    <3>2. CASE events' = Append(events, "DISCONNECT") /\ link' # "joined"
      BY <1>1, <3>1, <3>2, AppendInOrder DEF Events
    <3>3. CASE events' = events /\ (link' = "joined" => link = "joined")
      BY <3>1, <3>3 DEF Ordered, AddressNotAlone
    <3>4. QED BY <3>1, <3>2, <3>3
  <2>3. CASE /\ ~Check("checkConnection", "CONNECTION", "checkIp")
             /\ ~(\E ok \in BOOLEAN : WlanDisconnect(ok) \/ WlanConnect(ok))
    <3>1. main' # "checkIp" /\ events' = events /\ (link' = "joined" => link = "joined")
      BY <1>4, <2>3 DEF MainTask, InitDriver, SetMode, StopDriver, Restart, LinkAfterStart,
         IsConnected, IpConfigGet, SpinEnds, Load, StoreConnection, StoreIp, PollConnection,
         PollIp, Tick, Check
    <3>2. QED BY <3>1 DEF Ordered, AddressNotAlone
  <2>4. QED BY <2>1, <2>2, <2>3
<1>5. CASE UNCHANGED vars
  BY <1>5 DEF vars, Ordered, AddressNotAlone
<1>6. QED BY <1>2, <1>3, <1>4, <1>5 DEF Next

LEMMA OrderInvariance == Spec => [](Ordered /\ AddressNotAlone)
<1>1. Init => Ordered /\ AddressNotAlone
  BY DEF Init, Ordered, AddressNotAlone
<1>2. QED BY <1>1, OrderStep, ControlInvariance, PTL DEF Spec

-----------------------------------------------------------------------------
(* Every variable keeps its type, and polling stops after ConnectWait seconds.       *)
THEOREM TypeCorrect == Spec => []TypeOK
  BY ControlInvariance, PTL DEF Control

(* Without a stored profile, from the connect command to the decision, and for good  *)
(* after a success, word and pending events describe the link: no handler's update    *)
(* is lost.                                                                          *)
THEOREM LinkTracked == Spec => []BitsTrackLink
<1>1. (~profile => IInv) => BitsTrackLink
  BY LinkInvariant DEF BitsTrackLink
<1>2. QED BY <1>1, Invariance, PTL

(* Without a stored profile the wait in DisconnectFromAP ends: its event is queued or  *)
(* handled.                                                                           *)
THEOREM SpinAnswered == Spec => []SpinIsAnswered
<1>1. (~profile => IInv) => SpinIsAnswered
  BY SpinInvariant DEF SpinIsAnswered
<1>2. QED BY <1>1, Invariance, PTL

(* Two tests at two moments amount to one test of both bits, with or without a stored *)
(* profile: after the first, an address is never noted without a connection.         *)
THEOREM BothBits == Spec => BothBitsAtOnce
<1>1. AddressNotAlone /\ [Next]_vars
          => [(main = "checkIp" /\ main' = "getIp") => status = Bits]_vars
  <2> SUFFICES ASSUME AddressNotAlone, Next, main = "checkIp", main' = "getIp"
               PROVE  status = Bits
    OBVIOUS
  <2>1. Check("checkIp", "IP_ACQUIRED", "getIp")
    BY DEF Next, MainTask, InitDriver, SetMode, StopDriver, Restart, IsConnected,
       WlanDisconnect, WlanConnect,
       IpConfigGet, SpinEnds, Load, StoreConnection, StoreIp, PollConnection, PollIp, Check,
       Goto, HandleEvent, Associate, AcquireAddress, Drop, Report, mainVars
  <2>2. "IP_ACQUIRED" \in status
    BY <2>1 DEF Check, Goto
  <2>3. QED BY <2>2 DEF AddressNotAlone
<1>2. QED BY <1>1, OrderInvariance, PTL DEF Spec, BothBitsAtOnce

-----------------------------------------------------------------------------
(* The wait for the access point ends: what Terminates needs besides fair scheduling. *)

\* Steps of the main task that are left: one way through the procedure, two for each
\* second it may poll, and ten for the decision and what follows a failure.
Place == [initDriver |-> 11, setMode |-> 10, stopDriver |-> 9, restart |-> 8,
          isConnected |-> 7, disconnect |-> 6, spin |-> 5,
          loadConnection |-> 4, storeConnection |-> 3, loadIp |-> 2, storeIp |-> 1,
          connect |-> 0, pollConnection |-> 9, pollIp |-> 8,
          checkConnection |-> 9, checkIp |-> 8, getIp |-> 1, returned |-> 0, hung |-> 0]
Seconds == ConnectWait - index
MainLeft ==
    IF main = "hung" THEN 0
    ELSE Place[main] + (IF Early THEN 10 ELSE 0)
             + (IF Early \/ main \in {"pollConnection", "pollIp"} THEN 2 * Seconds ELSE 0)

LEMMA MainLeftIsNatural == ASSUME TypeOK PROVE MainLeft \in Nat /\ Seconds \in Nat
<1>1. Seconds \in Nat
  BY ConnectWaitAssumption DEF TypeOK, Seconds
<1>2. Place[main] \in Nat
  BY DEF TypeOK, Place
<1> HIDE DEF Seconds, Place
<1>3. QED BY <1>1, <1>2 DEF MainLeft

LEMMA MainTaskAdvances == ASSUME Control, MainTask PROVE MainLeft' < MainLeft
<1> USE DEF Goto
<1>1. TypeOK /\ Phases /\ index \in 0..ConnectWait /\ ConnectWait \in Nat
  BY ConnectWaitAssumption DEF Control, TypeOK
<1>2. /\ Place["initDriver"] = 11 /\ Place["setMode"] = 10 /\ Place["stopDriver"] = 9
      /\ Place["restart"] = 8 /\ Place["isConnected"] = 7
      /\ Place["disconnect"] = 6 /\ Place["spin"] = 5 /\ Place["loadConnection"] = 4
      /\ Place["storeConnection"] = 3 /\ Place["loadIp"] = 2 /\ Place["storeIp"] = 1
      /\ Place["connect"] = 0 /\ Place["pollConnection"] = 9 /\ Place["pollIp"] = 8
      /\ Place["checkConnection"] = 9 /\ Place["checkIp"] = 8 /\ Place["getIp"] = 1
      /\ Place["returned"] = 0
  BY DEF Place
<1>3. Seconds \in Nat
  BY <1>1, MainLeftIsNatural
<1>4. ASSUME UNCHANGED <<index, givingUp>>, main # "hung",
             <<main, main'>> \in {<<"initDriver", "isConnected">>, <<"initDriver", "setMode">>,
                 <<"setMode", "stopDriver">>, <<"stopDriver", "restart">>,
                 <<"restart", "isConnected">>, <<"isConnected", "disconnect">>,
                 <<"isConnected", "loadConnection">>, <<"disconnect", "spin">>,
                 <<"disconnect", "loadConnection">>, <<"spin", "loadConnection">>,
                 <<"loadConnection", "storeConnection">>, <<"storeConnection", "loadIp">>,
                 <<"loadIp", "storeIp">>}
      PROVE  MainLeft' < MainLeft
  <2>1. Place[main'] < Place[main] /\ Place[main] \in Nat /\ Place[main'] \in Nat
    BY <1>2, <1>4
  <2>2. /\ Early' = Early /\ Seconds' = Seconds /\ main # "hung" /\ main' # "hung"
        /\ main \notin {"pollConnection", "pollIp"} /\ main' \notin {"pollConnection", "pollIp"}
    BY <1>4 DEF Early, Seconds
  <2>3. QED BY <1>3, <2>1, <2>2 DEF MainLeft
<1>5. CASE \/ StopDriver \/ \E ok \in BOOLEAN : SetMode(ok)
           \/ \E started \in {"station", "other", "failed"} :
                  InitDriver(started) \/ Restart(started)
  <2>1. CASE main' = "hung" \/ main' = "returned"
    <3>1. /\ main \in {"initDriver", "setMode", "stopDriver", "restart"}
          /\ UNCHANGED <<index, givingUp>> /\ Early
      BY <1>1, <1>5 DEF InitDriver, SetMode, StopDriver, Restart, Early, Phases
    <3>2. MainLeft' = 0
      BY <1>2, <2>1 DEF MainLeft, Early
    <3>3. Place[main] \in Nat /\ main # "hung"
      BY <1>2, <3>1
    <3>4. MainLeft = Place[main] + 10 + 2 * Seconds
      BY <3>1, <3>3 DEF MainLeft
    <3>5. QED BY <1>3, <3>2, <3>3, <3>4
  <2>2. CASE main' # "hung" /\ main' # "returned"
    BY <1>4, <1>5, <2>2 DEF InitDriver, SetMode, StopDriver, Restart
  <2>3. QED BY <2>1, <2>2
<1>6. CASE \/ IsConnected \/ SpinEnds \/ StoreConnection
           \/ Load("loadConnection", "storeConnection") \/ Load("loadIp", "storeIp")
           \/ \E ok \in BOOLEAN : WlanDisconnect(ok)
  BY <1>4, <1>6 DEF IsConnected, SpinEnds, Load, StoreConnection, WlanDisconnect
<1>7. CASE StoreIp
  <2>1. main = "storeIp" /\ UNCHANGED <<index, givingUp>>
    BY <1>7 DEF StoreIp
  <2>2. CASE givingUp
    <3>1. main' = "returned" /\ ~Early /\ ~Early'
      BY <1>7, <2>1, <2>2 DEF StoreIp, Early
    <3>2. MainLeft = 1 /\ MainLeft' = 0
      BY <1>2, <2>1, <3>1 DEF MainLeft
    <3>3. QED BY <3>2
  <2>3. CASE ~givingUp
    <3>1. main' = "connect" /\ Early /\ Early' /\ Seconds' = Seconds
      BY <1>7, <2>1, <2>3 DEF StoreIp, Early, Seconds
    <3>2. MainLeft = 11 + 2 * Seconds /\ MainLeft' = 10 + 2 * Seconds
      BY <1>2, <1>3, <2>1, <3>1 DEF MainLeft
    <3>3. QED BY <1>3, <3>2
  <2>4. QED BY <2>2, <2>3
<1>8. CASE \E ok \in BOOLEAN : WlanConnect(ok)
  <2>1. /\ main = "connect" /\ main' \in {"pollConnection", "returned"} /\ ~givingUp
        /\ UNCHANGED <<index, givingUp>>
    BY <1>1, <1>8 DEF WlanConnect, Phases
  <2>2. Early /\ ~Early' /\ Seconds' = Seconds
    BY <2>1 DEF Early, Seconds
  <2>3. MainLeft = 10 + 2 * Seconds
    BY <1>2, <1>3, <2>1, <2>2 DEF MainLeft
  <2>4. MainLeft' = 0 \/ MainLeft' = 9 + 2 * Seconds
    BY <1>2, <1>3, <2>1, <2>2 DEF MainLeft
  <2>5. QED BY <1>3, <2>3, <2>4
<1>9. CASE PollConnection \/ PollIp
  <2>1. /\ main \in {"pollConnection", "pollIp"} /\ ~Early /\ ~Early' /\ index < ConnectWait
        /\ \/ main = "pollConnection" /\ main' = "pollIp" /\ index' = index
           \/ main = "pollIp" /\ main' = "checkConnection" /\ index' = index
           \/ index' = index + 1 /\ main' \in {"pollConnection", "checkConnection"}
    BY <1>1, <1>9 DEF PollConnection, PollIp, Tick, Phases, Early
  <2>2. MainLeft = Place[main] + 2 * Seconds /\ Place[main] \in {8, 9}
    BY <1>2, <1>3, <2>1 DEF MainLeft
  <2>3. Seconds >= 1
    BY <1>1, <2>1 DEF Seconds
  <2>4. CASE main = "pollConnection" /\ main' = "pollIp" /\ index' = index
    <3>1. MainLeft' = 8 + 2 * Seconds /\ Place[main] = 9
      BY <1>2, <1>3, <2>1, <2>4 DEF MainLeft, Seconds
    <3>2. QED BY <1>3, <2>2, <3>1
  <2>5. CASE main' = "checkConnection"
    <3>1. MainLeft' = 9
      BY <1>2, <2>1, <2>5 DEF MainLeft
    <3>2. QED BY <1>3, <2>2, <2>3, <3>1
  <2>6. CASE main' = "pollConnection" /\ index' = index + 1
    <3>1. Seconds' = Seconds - 1
      BY <1>1, <2>6 DEF Seconds
    <3>2. MainLeft' = 9 + 2 * (Seconds - 1)
      BY <1>2, <1>3, <2>1, <2>6, <3>1 DEF MainLeft
    <3>3. QED BY <1>3, <2>2, <3>2
  <2>7. QED BY <2>1, <2>4, <2>5, <2>6
<1>10. CASE \/ Check("checkConnection", "CONNECTION", "checkIp")
            \/ Check("checkIp", "IP_ACQUIRED", "getIp")
  <2>1. /\ ~Early /\ ~Early' /\ main \in {"checkConnection", "checkIp"}
        /\ \/ main = "checkConnection" /\ main' = "checkIp"
           \/ main' \in {"isConnected", "getIp"}
    BY <1>1, <1>10 DEF Check, Early
  <2>2. MainLeft = Place[main] /\ MainLeft' = Place[main']
    BY <1>2, <2>1 DEF MainLeft
  <2>3. QED BY <1>2, <2>1, <2>2
<1>11. CASE \E ok \in BOOLEAN : IpConfigGet(ok)
  <2>1. main = "getIp" /\ main' = "returned"
    BY <1>11 DEF IpConfigGet
  <2>2. MainLeft = 1 /\ MainLeft' = 0
    BY <1>2, <2>1 DEF MainLeft, Early
  <2>3. QED BY <2>2
<1>12. QED BY <1>5, <1>6, <1>7, <1>8, <1>9, <1>10, <1>11 DEF MainTask

(* Mqtt_IF_Connect is over after at most 2 * ConnectWait + 21 steps of the main task,  *)
(* whatever the handlers and the radio do in between, profile or not: neither an event   *)
(* nor a lost access point makes it start again or gives it another second.             *)
THEOREM AttemptIsBounded ==
    Spec => /\ MainLeft = 2 * ConnectWait + 21
            /\ [][/\ MainLeft \in Nat /\ MainLeft' \in Nat
                  /\ MainTask => MainLeft' < MainLeft
                  /\ ~MainTask => MainLeft' = MainLeft]_vars
<1>1. Init => MainLeft = 2 * ConnectWait + 21
  <2> SUFFICES ASSUME Init PROVE MainLeft = 2 * ConnectWait + 21
    OBVIOUS
  <2>1. main = "initDriver" /\ Early /\ Seconds = ConnectWait /\ ConnectWait \in Nat
    BY ConnectWaitAssumption DEF Init, Early, Seconds
  <2>2. MainLeft = 11 + 10 + 2 * ConnectWait
    BY <2>1 DEF MainLeft, Place
  <2>3. QED BY <2>1, <2>2
<1>2. Control /\ Control' /\ [Next]_vars
          => [/\ MainLeft \in Nat /\ MainLeft' \in Nat
              /\ MainTask => MainLeft' < MainLeft
              /\ ~MainTask => MainLeft' = MainLeft]_vars
  <2> SUFFICES ASSUME Control, Control', Next
               PROVE  /\ MainLeft \in Nat /\ MainLeft' \in Nat
                      /\ MainTask => MainLeft' < MainLeft
                      /\ ~MainTask => MainLeft' = MainLeft
    OBVIOUS
  <2>1. MainLeft \in Nat
    BY MainLeftIsNatural DEF Control
  <2>2. MainTask => MainLeft' < MainLeft
    BY MainTaskAdvances
  <2>3. ASSUME ~MainTask PROVE MainLeft' = MainLeft
    <3>1. UNCHANGED mainVars
      BY <2>3 DEF Next, HandleEvent, Associate, AcquireAddress, Drop, Report
    <3>2. QED BY <3>1 DEF mainVars, MainLeft, Early, Seconds
  <2>4. MainLeft' \in Nat
    <3>1. index' \in 0..ConnectWait /\ Place[main'] \in Nat
      BY DEF Control, TypeOK, Place
    <3>2. Seconds' \in Nat
      <4>1. \A i \in 0..ConnectWait : ConnectWait - i \in Nat
        BY ConnectWaitAssumption
      <4>2. QED BY <3>1, <4>1 DEF Seconds
    <3>3. QED BY <3>1, <3>2 DEF MainLeft
  <2>5. QED BY <2>1, <2>2, <2>3, <2>4
<1>3. QED BY <1>1, <1>2, ControlInvariance, PTL DEF Spec

(* The one wait without a time limit, for the disconnection in DisconnectFromAP: nothing *)
(* adds events meanwhile, so that each step leaves fewer, and unless there is a stored   *)
(* profile there is one to handle until the main task can leave it.                     *)
THEOREM SpinIsShort ==
    Spec => /\ [](~profile /\ main = "spin" /\ "CONNECTION" \in status => events # <<>>)
            /\ [][main = "spin" /\ main' = "spin" => Len(events') < Len(events)]_vars
<1>1. (~profile => IInv)
         => (~profile /\ main = "spin" /\ "CONNECTION" \in status => events # <<>>)
  BY SpinInvariant DEF SpinIsAnswered
<1>2. Control /\ [Next]_vars
          => [main = "spin" /\ main' = "spin" => Len(events') < Len(events)]_vars
  <2> SUFFICES ASSUME Control, Next, main = "spin", main' = "spin"
               PROVE  Len(events') < Len(events)
    OBVIOUS
  <2>1. link = "idle" /\ events \in Seq(Events)
    BY DEF Control, Phases, TypeOK
  <2>2. HandleEvent
    BY <2>1 DEF Next, MainTask, InitDriver, SetMode, StopDriver, Restart, IsConnected,
       WlanDisconnect, WlanConnect,
       IpConfigGet, SpinEnds, Load, StoreConnection, StoreIp, PollConnection, PollIp, Check,
       Goto, Associate, AcquireAddress, Drop, Report
  <2>3. QED BY <2>1, <2>2, HeadTailFacts DEF HandleEvent
<1>3. QED BY <1>1, <1>2, Invariance, ControlInvariance, PTL DEF Spec
=============================================================================
