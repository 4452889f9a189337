--------------------------- MODULE StreamContract ---------------------------
(***************************************************************************)
(* What the client of POST /v1/converse is promised: events, then exactly  *)
(* one `done` or `error`, then the end of the stream.  Only a connection   *)
(* that breaks, is given up as too slow, or is cut at the end of the       *)
(* shutdown grace leaves the client without its terminal frame.            *)
(***************************************************************************)
EXTENDS Naturals, Sequences

CONSTANTS
  Streams,    \* the requests
  Terminals   \* the terminal frames: "done" and the error codes

VARIABLES
  wire,       \* the frames each client has received
  conn        \* "none", "open", "ended" by the server, or "dropped"

contractVars == <<wire, conn>>

Frames == Terminals \cup {"event"}
HasTerminal(s) == wire[s] # <<>> /\ wire[s][Len(wire[s])] \in Terminals

ContractInit ==
  /\ wire = [s \in Streams |-> <<>>]
  /\ conn = [s \in Streams |-> "none"]

Open(s) ==
  /\ conn[s] = "none"
  /\ conn' = [conn EXCEPT ![s] = "open"]
  /\ UNCHANGED wire

Send(s) ==
  /\ conn[s] = "open" /\ ~HasTerminal(s)
  /\ \E f \in Frames : wire' = [wire EXCEPT ![s] = Append(@, f)]
  /\ UNCHANGED conn

\* The last frame may close the stream in the same step.
End(s) ==
  /\ conn[s] = "open"
  /\ \/ HasTerminal(s) /\ UNCHANGED wire
     \/ ~HasTerminal(s) /\ \E f \in Terminals : wire' = [wire EXCEPT ![s] = Append(@, f)]
  /\ conn' = [conn EXCEPT ![s] = "ended"]

Drop(s) ==
  /\ conn[s] = "open"
  /\ conn' = [conn EXCEPT ![s] = "dropped"]
  /\ UNCHANGED wire

ContractNext == \E s \in Streams : Open(s) \/ Send(s) \/ End(s) \/ Drop(s)

ContractSpec == ContractInit /\ [][ContractNext]_contractVars
-----------------------------------------------------------------------------
\* What a client makes of it: the terminal frame is the last one, so there is one at most,
\* and a stream that the server ended has it.
OneTerminalFrame ==
  \A s \in Streams :
    /\ \A i \in 1..Len(wire[s]) : wire[s][i] \in Terminals => i = Len(wire[s])
    /\ conn[s] = "ended" => HasTerminal(s)
=============================================================================
