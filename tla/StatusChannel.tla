---------------------------- MODULE StatusChannel ----------------------------
(* What the firmware promises of status messages: each one the callback accepts  *)
(* is handed to the MQTT library exactly once, in the order of acceptance, and   *)
(* at most Capacity are on their way at a time. Messages are numbered in the     *)
(* order of their acceptance.                                                    *)
EXTENDS Integers, Sequences

CONSTANT Capacity

VARIABLES accepted,     \* number of messages accepted
          handed        \* the messages handed over, in that order

channelVars == <<accepted, handed>>

ChannelInit == accepted = 0 /\ handed = <<>>

Accept ==
    /\ accepted - Len(handed) < Capacity
    /\ accepted' = accepted + 1
    /\ UNCHANGED handed

Deliver ==
    /\ Len(handed) < accepted
    /\ handed' = Append(handed, Len(handed) + 1)
    /\ UNCHANGED accepted

ChannelNext == Accept \/ Deliver

ChannelSpec ==
    ChannelInit /\ [][ChannelNext]_channelVars /\ WF_channelVars(Deliver)
=============================================================================
