-------------------------------- MODULE MCLink --------------------------------
(***************************************************************************)
(* Model values for Link: short sequences of payloads of each frame shape, *)
(* retry limits cut down so that exhausting them takes few steps, and at   *)
(* most two faults.                                                        *)
(***************************************************************************)
EXTENDS Link

\* A two-frame divided payload, then a one-frame extended payload: after a
\* fault the extended frame can meet a context left in frame division.
MCMsgs == <<1100, 600>>

\* A two-frame divided payload, then a one-frame regular payload.
MCMsgsRegular == <<1100, 10>>

\* Two one-frame regular payloads.
MCMsgsShort == <<10, 10>>

\* Three one-frame regular payloads: a device lost during the first two
\* calls has a later call to be reopened in.
MCMsgsShort3 == <<10, 10, 10>>

\* A three-frame divided payload, then a two-frame one: the receive context
\* must be emptied between them and keep three frames in order.
MCMsgsDivided == <<2100, 1100>>
=============================================================================
