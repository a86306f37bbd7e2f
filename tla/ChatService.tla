----------------------------- MODULE ChatService -----------------------------
(***************************************************************************)
(* Chat sessions (apps/backend/src/chat/chat.service.ts).  A session is an *)
(* object that requests share while they wait for the model; it enters the *)
(* map with its first reply.                                               *)
(***************************************************************************)
EXTENDS Requests

CONSTANTS
    Agents,
    MaxMessagesPerSession,
    MaxMessages     \* bound on the messages sent

VARIABLES
    sessions,   \* agent -> its session object, or None
    messages,   \* session object -> its messages
    sent,       \* messages sent so far
    undisturbed \* session objects whose messages each waited for the reply before

chatVars == <<sessions, messages, sent, undisturbed>>

\* An object is named after the message it was made for.
Objects == 1..MaxMessages
Turn == {"user", "assistant"} \X Objects

\* A request to the model is not the value for none.
ASSUME RequestAssumption ==
    None \notin [stage : {"model"}, agent : Agents, session : Objects, turn : Objects,
                 prompt : Seq(Turn)]

ChatInit ==
    /\ sessions = [a \in Agents |-> None]
    /\ messages = [o \in Objects |-> <<>>]
    /\ sent = 0
    /\ undisturbed = Objects

ChatTypeOK ==
    /\ sessions \in [Agents -> 1..sent \cup {None}]
    /\ messages \in [Objects -> Seq(Turn)]
    /\ \A o \in Objects : Len(messages[o]) <= MaxMessagesPerSession + Cardinality(Clients)
    /\ sent \in 0..MaxMessages
    /\ undisturbed \subseteq Objects

\* Faulty variant: nothing goes.
KeepAll(h) == h

\* Faulty variant: one message at a time.
TrimOne(h) == LET over == Len(h) - MaxMessagesPerSession
              IN  IF over > 0 THEN SubSeq(h, over + 1, Len(h)) ELSE h

\* The oldest two go until the rest fits.
Trim(h) == LET over == Len(h) - MaxMessagesPerSession
           IN  IF over > 0 THEN SubSeq(h, 2 * ((over + 1) \div 2) + 1, Len(h)) ELSE h

AwaitsModel(o) == \E c \in Clients : At(c, "model") /\ call[c].session = o

\* sendMessage up to the request to the model.
SendMessage(c) ==
    LET n == sent + 1
        a == call[c].agent
        o == IF sessions[a] = None THEN n ELSE sessions[a]
        h == Trim(Append(messages[o], <<"user", n>>))
    IN  /\ At(c, "message")
        /\ n \in Objects
        /\ sent' = n
        /\ messages' = [messages EXCEPT ![o] = h]
        /\ undisturbed' = IF AwaitsModel(o) THEN undisturbed \ {o} ELSE undisturbed
        /\ Send(c, [stage |-> "model", agent |-> a, session |-> o, turn |-> n, prompt |-> h])
        /\ UNCHANGED sessions

\* The model takes a conversation that the user opens.
ModelAccepts(prompt) == Head(prompt)[1] = "user"

ModelAnswers(c) ==
    LET q == call[c]
    IN  /\ At(c, "model")
        /\ ModelAccepts(q.prompt)
        /\ messages' = [messages EXCEPT ![q.session] = Append(@, <<"assistant", q.turn>>)]
        /\ sessions' = [sessions EXCEPT ![q.agent] = q.session]
        /\ Reply(c, None)
        /\ UNCHANGED <<sent, undisturbed>>

\* An error or an empty reply: the user's message stays.
ModelFails(c) ==
    /\ At(c, "model")
    /\ undisturbed' = undisturbed \ {call[c].session}
    /\ Refuse(c, "INTERNAL_ERROR")
    /\ UNCHANGED <<sessions, messages, sent>>

ChatStep(c) == SendMessage(c) \/ ModelAnswers(c) \/ ModelFails(c)

\* After thirty minutes without a message, longer than any request takes.
EvictExpired(a) ==
    /\ sessions[a] # None
    /\ ~AwaitsModel(sessions[a])
    /\ sessions' = [sessions EXCEPT ![a] = None]
    /\ UNCHANGED <<call, messages, sent, undisturbed>>

ChatRestart == sessions' = [a \in Agents |-> None] /\ UNCHANGED <<messages, sent, undisturbed>>

----------------------------------------------------------------------------

\* While each message of a session waits for the reply before, the model is shown,
\* and remembers, user and assistant in turn, the user first, each reply after the
\* message it answers, however much was trimmed (chat.service.ts:85-88, 108).
TurnsAlternate ==
    \A o \in undisturbed : \A i \in DOMAIN messages[o] :
        messages[o][i] = IF i % 2 = 1 THEN <<"user", messages[o][i][2]>>
                                      ELSE <<"assistant", messages[o][i - 1][2]>>
=============================================================================
