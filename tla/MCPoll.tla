------------------------------- MODULE MCPoll -------------------------------
(* Buses and endpoints for AdbPoll. *)
EXTENDS AdbPoll

Device(m, s, busy, adb) == [model |-> m, serial |-> s, busy |-> busy, adb |-> adb]

\* Two phones of one model, one of them busy or without a serial, and a mouse.
MCBuses ==
  { <<Device("phone", "s1", FALSE, TRUE)>>,
    <<Device("phone", "s1", FALSE, TRUE), Device("phone", "s2", FALSE, TRUE)>>,
    <<Device("mouse", "", FALSE, FALSE), Device("phone", "", FALSE, TRUE)>>,
    <<Device("phone", "s1", TRUE, TRUE), Device("phone", "s2", FALSE, TRUE)>> }

MCEndpoints == { <<>>, <<"now">>, <<"nosocket", "refused">>, <<"late", "soon">>, <<"now", "soon">> }

=============================================================================
