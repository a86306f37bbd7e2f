------------------------------ MODULE Requests ------------------------------
(* The HTTP requests in progress between the clients and the backend: a      *)
(* client waits for one answer at a time, and a handler is at the stage that *)
(* names what it awaits.                                                      *)
EXTENDS Naturals, Sequences, FiniteSets

CONSTANTS
    Clients,    \* processes of the command line that may overlap
    None        \* no request, no row, no value

VARIABLE call   \* client -> its request, a record with a stage, or None

At(c, stage) == call[c] # None /\ call[c].stage = stage

Send(c, request) == call' = [call EXCEPT ![c] = request]

Answered(value) == [stage |-> "answered", error |-> None, value |-> value]
Refused(error) == [stage |-> "answered", error |-> error, value |-> None]

Reply(c, value) == Send(c, Answered(value))
Refuse(c, error) == Send(c, Refused(error))

\* Handlers of the server that have not answered yet.
Handling(c) == call[c] # None /\ ~At(c, "answered")

Await(c, stage, request) == Send(c, [request EXCEPT !.stage = stage])
=============================================================================
