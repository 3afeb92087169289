------------------------------ MODULE MCPorts ------------------------------
(* An instance of Ports for TLC: three rates; devices with the addresses 1 *)
(* and 2 on the line that ask for the mode, set it (or forget to say       *)
(* which), set a time that does not exist, and speak to somebody else.     *)
EXTENDS Ports

Request(dst, src, cmd, data) == [dst |-> dst, src |-> src, cmd |-> cmd, high |-> 0, data |-> data]
MCRequests == {Request(Self, 2, GET_MODE, <<>>), Request(Self, 1, SET_MODE, <<1>>),
               Request(Self, 2, SET_MODE, <<>>), Request(Self, 1, SET_TIME, <<24, 0, 0>>),
               Request(1, 2, STATUS_NOTIFY, <<7, 7>>)}
=============================================================================
