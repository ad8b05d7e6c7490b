--------------------------- MODULE ClientSession ---------------------------
(* One RemoteTelys object (client.py) shared by the threads of a client, the byte   *)
(* stream of _wire.py as a queue of frames in each direction, and the handler      *)
(* thread of the server at the other end (server.py, _handle). Frames carry no      *)
(* request id: what pairs a reply with its request is the lock of _call and the     *)
(* order of the stream. Modelled faults: the connection is lost, the server stops,   *)
(* a reply cannot be sent, another thread closes the connection, a call is           *)
(* interrupted (KeyboardInterrupt, a raising signal handler) in sendall or recv.     *)
(* A call on a closed object, and arguments json cannot encode, raise before a byte   *)
(* is sent: nothing changes.                                                  *)
EXTENDS Integers, Sequences

CONSTANTS
  Thread,         \* threads of the client
  NoThread,
  MaxCalls,       \* bound on calls
  MaxInterrupts   \* bound on interrupted calls

ASSUME SessionAssumption ==
  NoThread \notin Thread /\ MaxCalls \in Nat /\ MaxInterrupts \in Nat

VARIABLES
  secured,     \* the server asks for a token
  given,       \* the token the client was given
  client,      \* __init__ and close
  holder,      \* _lock: the thread in _call
  asked,       \* calls so far; the last one is that of the holder
  toServer, toClient,   \* frames under way, by the number of their call
  link,        \* the connection is up
  handler,     \* position of _handle
  current,     \* the call it has received
  authed,      \* _handle's local of that name
  stop,        \* the server's _stop
  done,        \* history: calls dispatched
  outcome,     \* history: how each call ended
  interrupts, cut, garbled   \* history: interrupted calls; a request or a reply was cut

streams == <<toServer, toClient, link>>
hvars   == <<handler, current, authed>>
cvars   == <<client, holder, asked>>
faults  == <<interrupts, cut, garbled>>
setup   == <<secured, given>>
vars    == <<setup, cvars, streams, hvars, stop, done, outcome, faults>>

Calls     == 1..MaxCalls
AuthCall  == 0
Half      == -1                      \* a request of which only a part was sent
Frame(i, kind) == [call |-> i, kind |-> kind]
Frames    == {AuthCall, Half} \cup Calls
Replies   == [call : Frames, kind : {"ok", "refused"}]
Dirty     == interrupts > 0

Init ==
  /\ secured \in BOOLEAN /\ given \in {"none", "right", "wrong"}
  /\ client = "new" /\ holder = NoThread /\ asked = 0
  /\ toServer = <<>> /\ toClient = <<>> /\ link = TRUE
  /\ handler = "recv" /\ current = AuthCall /\ authed = ~secured /\ stop = FALSE
  /\ done = {} /\ outcome = [i \in Calls |-> "none"]
  /\ interrupts = 0 /\ cut = FALSE /\ garbled = FALSE

-----------------------------------------------------------------------------
(* The client.                                                              *)

Connect ==
  /\ client = "new"
  /\ IF given = "none"
     THEN client' = "open" /\ UNCHANGED toServer
     ELSE client' = "auth" /\ toServer' = Append(toServer, AuthCall)
  /\ UNCHANGED <<setup, holder, asked, toClient, link, hvars, stop, done, outcome, faults>>

(* The rest of __init__: an error reply closes the socket.                       *)
AuthReply ==
  /\ client = "auth" /\ toClient # <<>>
  /\ client' = IF Head(toClient).kind = "ok" THEN "open" ELSE "closed"
  /\ toClient' = Tail(toClient)
  /\ UNCHANGED <<setup, holder, asked, toServer, link, hvars, stop, done, outcome, faults>>

(* connect_timeout, or the connection ends in the handshake.                      *)
AuthFails ==
  /\ client = "auth" /\ client' = "closed"
  /\ UNCHANGED <<setup, holder, asked, streams, hvars, stop, done, outcome, faults>>

\* Mutant: _call without its lock.
TakeUnlocked(t) ==
  /\ client = "open" /\ asked < MaxCalls
  /\ asked' = asked + 1

Take(t) ==
  /\ client = "open" /\ holder = NoThread /\ asked < MaxCalls
  /\ asked' = asked + 1

(* _call up to the point where it waits for the reply.                           *)
Send(t) ==
  /\ Take(t) /\ holder' = t
  /\ toServer' = IF link THEN Append(toServer, asked + 1) ELSE toServer
  /\ UNCHANGED <<setup, client, toClient, link, hvars, stop, done, outcome, faults>>

(* sendall is interrupted: the lock is released, and nothing or a part of the frame is     *)
(* sent.                                                                    *)
SendInterrupted(t) ==
  /\ Take(t) /\ interrupts < MaxInterrupts
  /\ interrupts' = interrupts + 1
  /\ \/ UNCHANGED <<toServer, cut>>
     \/ cut' = TRUE /\ toServer' = IF link THEN Append(toServer, Half) ELSE toServer
  /\ outcome' = [outcome EXCEPT ![asked + 1] = "failed"]
  /\ UNCHANGED <<setup, client, holder, toClient, link, hvars, stop, done, garbled>>

End(o) == holder' = NoThread /\ outcome' = [outcome EXCEPT ![asked] = o]

(* The reply that is next in the stream is returned, whatever it replies to.       *)
Receive(t) ==
  /\ holder = t /\ toClient # <<>> /\ ~garbled
  /\ LET r == Head(toClient) IN
       End(IF r.kind = "refused" THEN "refused" ELSE IF r.call = asked THEN "own" ELSE "other")
  /\ toClient' = Tail(toClient)
  /\ UNCHANGED <<setup, client, asked, toServer, link, hvars, stop, done, faults>>

(* The server closed the connection, or it was lost (_recv_exact).                 *)
ReceiveEnds(t) ==
  /\ holder = t /\ toClient = <<>>
  /\ ~link \/ handler = "ended"
  /\ End("failed")
  /\ UNCHANGED <<setup, client, asked, streams, hvars, stop, done, faults>>

(* The socket was closed under the call, or the stream is cut and what is read       *)
(* as a length or as JSON is neither.                                           *)
ReceiveRaises(t) ==
  /\ holder = t /\ (client = "closed" \/ garbled)
  /\ End("failed")
  /\ UNCHANGED <<setup, client, asked, streams, hvars, stop, done, faults>>

(* recv is interrupted before the reply was read, or in the middle of it.          *)
ReceiveInterrupted(t) ==
  /\ holder = t /\ interrupts < MaxInterrupts
  /\ interrupts' = interrupts + 1
  /\ garbled' \in {garbled} \cup {toClient # <<>>}
  /\ End("failed")
  /\ UNCHANGED <<setup, client, asked, streams, hvars, stop, done, cut>>

Close ==
  /\ client = "open" /\ client' = "closed"
  /\ UNCHANGED <<setup, holder, asked, streams, hvars, stop, done, outcome, faults>>

-----------------------------------------------------------------------------
(* The handler: the loop of _handle.                                            *)

AfterReply == IF stop THEN "ended" ELSE "recv"
Say(i, kind) == toClient' = IF link THEN Append(toClient, Frame(i, kind)) ELSE toClient

HandleAuth ==
  /\ handler = "recv" /\ toServer # <<>> /\ Head(toServer) = AuthCall
  /\ toServer' = Tail(toServer)
  /\ IF authed \/ given = "right"
     THEN authed' = TRUE /\ Say(AuthCall, "ok") /\ handler' = AfterReply
     ELSE Say(AuthCall, "refused") /\ handler' = "ended" /\ UNCHANGED authed
  /\ UNCHANGED <<setup, cvars, link, current, stop, done, outcome, faults>>

HandleUnauthorized ==
  /\ handler = "recv" /\ toServer # <<>> /\ Head(toServer) \in Calls /\ ~authed
  /\ toServer' = Tail(toServer)
  /\ Say(Head(toServer), "refused") /\ handler' = "ended"
  /\ UNCHANGED <<setup, cvars, link, current, authed, stop, done, outcome, faults>>

Dispatch ==
  /\ handler = "recv" /\ toServer # <<>> /\ Head(toServer) \in Calls /\ authed
  /\ toServer' = Tail(toServer)
  /\ current' = Head(toServer) /\ done' = done \cup {Head(toServer)}
  /\ handler' = "reply"
  /\ UNCHANGED <<setup, cvars, toClient, link, authed, stop, outcome, faults>>

(* A cut frame is completed with the bytes of the next ones: they are no JSON.      *)
HandleBad ==
  /\ handler = "recv" /\ Len(toServer) > 1 /\ Head(toServer) = Half
  /\ toServer' = <<>>
  /\ Say(Half, "refused") /\ handler' = "ended"
  /\ UNCHANGED <<setup, cvars, link, current, authed, stop, done, outcome, faults>>

Reply ==
  /\ handler = "reply" /\ link
  /\ Say(current, "ok") /\ handler' = AfterReply
  /\ UNCHANGED <<setup, cvars, toServer, link, current, authed, stop, done, outcome, faults>>

\* Mutant: the error of an unsendable reply is swallowed and the loop goes on.
ReplyFailsQuietly ==
  /\ handler = "reply" /\ handler' = AfterReply
  /\ UNCHANGED <<setup, cvars, streams, current, authed, stop, done, outcome, faults>>

(* _safe_send returns False, or lets the error of an unsendable reply through:       *)
(* "with conn" closes the socket either way.                                     *)
ReplyFails ==
  /\ handler = "reply" /\ handler' = "ended"
  /\ UNCHANGED <<setup, cvars, streams, current, authed, stop, done, outcome, faults>>

\* Mutant: an empty recv is read again instead of taken for the end.
HandlerLeavesLate ==
  /\ handler = "recv" /\ handler' = "ended"
  /\ ~authed \/ ~link
  /\ UNCHANGED <<setup, cvars, streams, current, authed, stop, done, outcome, faults>>

(* recv_msg raises: the pre-auth timeout, the end of the connection. The close of    *)
(* the client reaches the server when no thread is blocked on the socket.           *)
HandlerLeaves ==
  /\ handler = "recv" /\ handler' = "ended"
  /\ ~authed \/ ~link \/ (client = "closed" /\ holder = NoThread)
  /\ UNCHANGED <<setup, cvars, streams, current, authed, stop, done, outcome, faults>>

-----------------------------------------------------------------------------
Stop ==
  /\ ~stop /\ stop' = TRUE
  /\ UNCHANGED <<setup, cvars, streams, hvars, done, outcome, faults>>

(* The server process exits under its daemon threads.                             *)
Exit ==
  /\ stop /\ handler # "ended" /\ handler' = "ended"
  /\ UNCHANGED <<setup, cvars, streams, current, authed, stop, done, outcome, faults>>

(* What had not arrived is lost; what had is read before the end is noticed. A loss that   *)
(* neither side notices is not modelled: it leaves the client in recv.                 *)
Lose ==
  /\ link /\ link' = FALSE
  /\ toClient' \in {toClient, <<>>} /\ toServer' \in {toServer, <<>>}
  /\ UNCHANGED <<setup, cvars, hvars, stop, done, outcome, faults>>

ClientStep(t) == Send(t) \/ SendInterrupted(t) \/ Receive(t) \/ ReceiveEnds(t)
                 \/ ReceiveRaises(t) \/ ReceiveInterrupted(t)
HandlerStep == HandleAuth \/ HandleUnauthorized \/ Dispatch \/ HandleBad \/ Reply \/ ReplyFails
               \/ HandlerLeaves

Next ==
  \/ Connect \/ AuthReply \/ AuthFails \/ Close
  \/ \E t \in Thread : ClientStep(t)
  \/ HandlerStep
  \/ Stop \/ Exit \/ Lose

Spec == Init /\ [][Next]_vars

(* The handler thread runs and native calls return (_handle); a blocked recv wakes up   *)
(* when there is something to read or the connection has ended; the handshake has a     *)
(* timeout. Nobody owes a call, a close, a stop or a fault.                           *)
Fairness ==
  /\ WF_vars(HandlerStep) /\ WF_vars(AuthReply \/ AuthFails)
  /\ \A t \in Thread : WF_vars(Receive(t) \/ ReceiveEnds(t))

FairSpec == Spec /\ Fairness

-----------------------------------------------------------------------------
(* Properties.                                                              *)

(* Every variable has its type (RemoteTelys.__init__, _handle).                      *)
TypeOK ==
  /\ secured \in BOOLEAN /\ given \in {"none", "right", "wrong"}
  /\ client \in {"new", "auth", "open", "closed"}
  /\ holder \in Thread \cup {NoThread} /\ asked \in 0..MaxCalls
  /\ toServer \in Seq(Frames) /\ toClient \in Seq(Replies)
  /\ link \in BOOLEAN
  /\ handler \in {"recv", "reply", "ended"} /\ current \in {AuthCall} \cup Calls
  /\ authed \in BOOLEAN /\ stop \in BOOLEAN
  /\ done \subseteq Calls
  /\ outcome \in [Calls -> {"none", "own", "other", "refused", "failed"}]
  /\ interrupts \in 0..MaxInterrupts /\ cut \in BOOLEAN /\ garbled \in BOOLEAN

(* As long as no call was interrupted, every call that returns has the reply to its     *)
(* own request, whatever threads share the connection and however earlier calls         *)
(* failed (_call).                                                               *)
ReplyIsOwn == ~Dirty => \A i \in Calls : outcome[i] # "other"

(* Nothing is dispatched for a client that has not shown the token ("the FIRST           *)
(* message must be a valid auth", server.py:343).                                   *)
NothingUnauthorized == done # {} /\ secured => given = "right"

(* Until a call is interrupted, the connection keeps the promise of RequestReply: one      *)
(* call at a time, executed at most once, answered only when it was executed, refused       *)
(* only when it was not (_call, _handle).                                           *)
RR == INSTANCE RequestReply WITH waiting <- (holder # NoThread)
ImplementsRequestReply == RR!Init /\ [][Dirty' \/ RR!Next]_(RR!rrvars)

(* A call that waits for its reply returns or raises, although it has no timeout,       *)
(* unless an interrupted call has left a part of a frame in the stream (_call, _handle). *)
CallsEnd == \A t \in Thread : holder = t ~> holder # t \/ cut \/ garbled

(* The handler thread of a client that has closed the connection ends; with no idle        *)
(* timeout after the handshake it must not outlive its client (_handle).                *)
HandlerEnds == client = "closed" ~> handler = "ended" \/ cut \/ garbled

-----------------------------------------------------------------------------
(* What the comments say and the code does not do.                              *)

(* "one in-flight request/response per connection" (client.py:68).                  *)
OneInFlight == \A i \in Calls : outcome[i] # "other"

(* "surface to the client, keep serving" (server.py:362): a handler that has dispatched     *)
(* a request goes on unless its client, the connection or the server has gone.            *)
KeepsServing == [][handler = "reply" /\ handler' = "ended" => stop \/ ~link \/ client = "closed"]_vars
=============================================================================
