---------------------------- MODULE ClientProofs ----------------------------
(* Theorems about what runs in the process of a client: the session it shares between     *)
(* threads, for any threads, calls and interrupts, and `telys login`, for any number of     *)
(* logins, kills and installs.                                                    *)
EXTENDS ClientSession, Login, TLAPS

-----------------------------------------------------------------------------
(* The session.                                                                *)

Answerable(i) == i \in Calls /\ i <= asked /\ i \notin done /\ outcome[i] \in {"none", "failed"}

(* What the handler may still read is one frame, of the handshake or of a call        *)
(* that was asked and not yet dispatched.                                        *)
Unread ==
  handler # "ended" /\ toServer # <<>> =>
    /\ handler = "recv" /\ toClient = <<>>
    /\ \E i \in {AuthCall} \cup Calls :
         toServer = <<i>> /\ (i = AuthCall \/ Answerable(i))

(* While a call waits and its connection lives, it is in exactly one place: on its way,   *)
(* dispatched, or on its way back.                                               *)
Waiting ==
  holder # NoThread /\ link /\ handler # "ended" =>
    \/ toServer = <<asked>> /\ toClient = <<>> /\ handler = "recv"
    \/ toServer = <<>> /\ toClient = <<>> /\ handler = "reply" /\ current = asked
    \/ toServer = <<>> /\ toClient # <<>> /\ handler = "recv"

(* The reply that waits for the holder is the one to its call.                      *)
AnswerIsOwn ==
  holder # NoThread /\ toClient # <<>> =>
    \E r \in Replies :
      /\ toClient = <<r>> /\ r.call = asked
      /\ r.kind = "ok" => asked \in done
      /\ r.kind = "refused" => asked \notin done

(* Between two calls nothing is under way.                                        *)
Idle ==
  holder = NoThread /\ client = "open" =>
    /\ toClient = <<>>
    /\ link /\ handler # "ended" => toServer = <<>> /\ handler = "recv"

Handshake ==
  client \in {"new", "auth"} =>
    /\ holder = NoThread /\ asked = 0 /\ handler # "reply"
    /\ toServer \in {<<>>, <<AuthCall>>}
    /\ toClient = <<>> \/ \E r \in Replies : toClient = <<r>> /\ toServer = <<>>
    /\ client = "new" => toServer = <<>> /\ toClient = <<>>

Counted ==
  /\ \A i \in Calls : i > asked => i \notin done /\ outcome[i] = "none"
  /\ holder # NoThread => asked \in Calls /\ outcome[asked] = "none" /\ client \in {"open", "closed"}
  /\ handler = "reply" => current \in done

Clean ==
  /\ ~cut /\ ~garbled
  /\ \A i \in Calls : outcome[i] # "other"
  /\ Unread /\ Waiting /\ AnswerIsOwn /\ Idle /\ Handshake /\ Counted

IInv == TypeOK /\ (~Dirty => Clean)

LEMMA HeadTail ==
  ASSUME NEW S, NEW s \in Seq(S), s # <<>>
  PROVE  Head(s) \in S /\ Tail(s) \in Seq(S)
  OBVIOUS

LEMMA AppendType ==
  ASSUME NEW S, NEW s \in Seq(S), NEW x \in S
  PROVE  Append(s, x) \in Seq(S)
  OBVIOUS

LEMMA FrameTypes == AuthCall \in Frames /\ Half \in Frames /\ Calls \subseteq Frames
  BY DEF Frames

LEMMA SayType ==
  ASSUME NEW i \in Frames, NEW k \in {"ok", "refused"}, toClient \in Seq(Replies), Say(i, k)
  PROVE  toClient' \in Seq(Replies)
  BY AppendType DEF Say, Frame, Replies

(* The initial state has its types.                                             *)
LEMMA InitType == Init => TypeOK
<1> SUFFICES ASSUME Init PROVE TypeOK
  OBVIOUS
<1>1. authed \in BOOLEAN
  BY Zenon DEF Init
<1>2. outcome \in [Calls -> {"none", "own", "other", "refused", "failed"}]
  BY DEF Init
<1>3. toServer \in Seq(Frames) /\ toClient \in Seq(Replies)
  BY DEF Init
<1>4. asked \in 0..MaxCalls /\ interrupts \in 0..MaxInterrupts
  BY SessionAssumption DEF Init
<1>5. secured \in BOOLEAN /\ cut \in BOOLEAN /\ garbled \in BOOLEAN /\ stop \in BOOLEAN /\ link \in BOOLEAN
  BY Zenon DEF Init
<1> QED BY <1>1, <1>2, <1>3, <1>4, <1>5 DEF Init, TypeOK

USE DEF setup, cvars, streams, hvars, faults

(* A step keeps the types.                                                     *)
LEMMA NextType == TypeOK /\ [Next]_vars => TypeOK'
<1> SUFFICES ASSUME TypeOK, [Next]_vars PROVE TypeOK'
  OBVIOUS
<1> USE SessionAssumption, FrameTypes DEF TypeOK
<1>1. CASE Connect
  BY <1>1, AppendType DEF Connect
<1>2. CASE AuthReply
  BY <1>2, HeadTail DEF AuthReply
<1>3. CASE AuthFails
  BY <1>3 DEF AuthFails
<1>4. CASE Close
  BY <1>4 DEF Close
<1>5. ASSUME NEW t \in Thread, ClientStep(t) PROVE TypeOK'
  <2>0. Take(t) => asked + 1 \in Calls /\ asked + 1 \in 0..MaxCalls
    BY DEF Take, Calls
  <2>1. CASE Send(t)
    BY <2>0, <2>1, AppendType DEF Send, Take
  <2>2. CASE SendInterrupted(t)
    <3>1. toServer' \in Seq(Frames)
      BY <2>2, AppendType DEF SendInterrupted
    <3>2. cut' \in BOOLEAN
      <4>1. cut' = cut \/ cut' = TRUE
        BY <2>2, Zenon DEF SendInterrupted
      <4> QED BY <4>1
    <3>3. asked' \in 0..MaxCalls /\ interrupts' \in 0..MaxInterrupts
          /\ outcome' \in [Calls -> {"none", "own", "other", "refused", "failed"}]
      BY <2>0, <2>2 DEF SendInterrupted, Take
    <3>4. UNCHANGED <<secured, given, client, holder, toClient, link, handler, current, authed, stop, done, garbled>>
      BY <2>2 DEF SendInterrupted
    <3> QED BY <3>1, <3>2, <3>3, <3>4
  <2>3. CASE Receive(t)
    <3>1. \E o \in {"own", "other", "refused"} : End(o)
      BY <2>3 DEF Receive
    <3>2. holder' \in Thread \cup {NoThread}
          /\ outcome' \in [Calls -> {"none", "own", "other", "refused", "failed"}]
      BY <3>1 DEF End
    <3>3. toClient' \in Seq(Replies)
      BY <2>3, HeadTail DEF Receive
    <3> QED BY <2>3, <3>2, <3>3 DEF Receive
  <2>4. CASE ReceiveEnds(t)
    <3>1. holder' \in Thread \cup {NoThread}
          /\ outcome' \in [Calls -> {"none", "own", "other", "refused", "failed"}]
      BY <2>4 DEF ReceiveEnds, End
    <3> QED BY <2>4, <3>1 DEF ReceiveEnds
  <2>5. CASE ReceiveRaises(t)
    <3>1. holder' \in Thread \cup {NoThread}
          /\ outcome' \in [Calls -> {"none", "own", "other", "refused", "failed"}]
      BY <2>5 DEF ReceiveRaises, End
    <3> QED BY <2>5, <3>1 DEF ReceiveRaises
  <2>6. CASE ReceiveInterrupted(t)
    <3>1. garbled' \in BOOLEAN
      BY <2>6, Zenon DEF ReceiveInterrupted
    <3>2. interrupts' \in 0..MaxInterrupts
      BY <2>6 DEF ReceiveInterrupted
    <3>3. holder' \in Thread \cup {NoThread}
          /\ outcome' \in [Calls -> {"none", "own", "other", "refused", "failed"}]
      BY <2>6 DEF ReceiveInterrupted, End
    <3> QED BY <2>6, <3>1, <3>2, <3>3 DEF ReceiveInterrupted
  <2> QED BY <1>5, <2>1, <2>2, <2>3, <2>4, <2>5, <2>6 DEF ClientStep
<1>6. CASE HandlerStep
  <2>0. AfterReply \in {"recv", "ended"}
    BY DEF AfterReply
  <2>1. CASE HandleAuth
    <3>1. toServer' \in Seq(Frames)
      BY <2>1, HeadTail DEF HandleAuth
    <3>2. toClient' \in Seq(Replies)
      BY <2>1, SayType DEF HandleAuth
    <3>3. authed' \in BOOLEAN /\ handler' \in {"recv", "reply", "ended"}
      BY <2>0, <2>1 DEF HandleAuth
    <3> QED BY <2>1, <3>1, <3>2, <3>3 DEF HandleAuth
  <2>2. CASE HandleUnauthorized
    <3>1. toServer' \in Seq(Frames)
      BY <2>2, HeadTail DEF HandleUnauthorized
    <3>2. toClient' \in Seq(Replies)
      BY <2>2, HeadTail, SayType DEF HandleUnauthorized
    <3> QED BY <2>2, <3>1, <3>2 DEF HandleUnauthorized
  <2>3. CASE Dispatch
    BY <2>3, HeadTail DEF Dispatch
  <2>4. CASE HandleBad
    BY <2>4, SayType DEF HandleBad
  <2>5. CASE Reply
    <3>1. toClient' \in Seq(Replies)
      <4>1. current \in Frames
        BY DEF Frames
      <4> QED BY <2>5, <4>1, SayType DEF Reply
    <3> QED BY <2>0, <2>5, <3>1 DEF Reply
  <2>6. CASE ReplyFails
    BY <2>6 DEF ReplyFails
  <2>7. CASE HandlerLeaves
    BY <2>7 DEF HandlerLeaves
  <2> QED BY <1>6, <2>1, <2>2, <2>3, <2>4, <2>5, <2>6, <2>7 DEF HandlerStep
<1>7. CASE Stop
  BY <1>7 DEF Stop
<1>8. CASE Exit
  BY <1>8 DEF Exit
<1>9. CASE Lose
  <2>1. <<>> \in Seq(Replies) /\ <<>> \in Seq(Frames)
    OBVIOUS
  <2>2. (toClient' = toClient \/ toClient' = <<>>) /\ (toServer' = toServer \/ toServer' = <<>>)
    BY <1>9, Zenon DEF Lose
  <2>3. toClient' \in Seq(Replies)
    BY <2>1, <2>2
  <2>4. toServer' \in Seq(Frames)
    BY <2>1, <2>2
  <2>5. link' \in BOOLEAN
    BY <1>9 DEF Lose
  <2>6. UNCHANGED <<setup, cvars, hvars, stop, done, outcome, faults>>
    BY <1>9 DEF Lose
  <2> HIDE <1>9
  <2> QED BY <2>3, <2>4, <2>5, <2>6
<1>10. CASE UNCHANGED vars
  BY <1>10 DEF vars
<1> QED BY <1>1, <1>2, <1>3, <1>4, <1>5, <1>6, <1>7, <1>8, <1>9, <1>10 DEF Next

(* The state of a session has its type (_call, _handle).                           *)
THEOREM TypeCorrect == Spec => []TypeOK
<1>1. Init => TypeOK
  BY InitType
<1>2. TypeOK /\ [Next]_vars => TypeOK'
  BY NextType
<1> QED BY <1>1, <1>2, PTL DEF Spec

(* One-element sequences, which is all the streams ever hold here.                  *)
LEMMA OneElement ==
  ASSUME NEW x
  PROVE  /\ Append(<<>>, x) = <<x>> /\ Head(<<x>>) = x /\ Tail(<<x>>) = <<>>
         /\ <<x>> # <<>> /\ Len(<<x>>) = 1
  OBVIOUS

LEMMA SingleEqual == \A x, y : <<x>> = <<y>> => x = y
  OBVIOUS

(* The initial state is clean.                                                  *)
LEMMA InitClean == Init => Clean
<1> SUFFICES ASSUME Init PROVE Clean
  OBVIOUS
<1>1. Unread /\ Waiting /\ AnswerIsOwn /\ Idle
  BY DEF Init, Unread, Waiting, AnswerIsOwn, Idle
<1>2. Handshake /\ Counted
  BY DEF Init, Handshake, Counted
<1>3. \A i \in Calls : outcome[i] # "other"
  BY DEF Init
<1> QED BY <1>1, <1>2, <1>3 DEF Init, Clean

(* A client step other than an interruption keeps a clean session clean.            *)
LEMMA ClientClean ==
  ASSUME TypeOK, Clean, ~Dirty', NEW t \in Thread, ClientStep(t)
  PROVE  Clean'
<1> USE SessionAssumption
<1>1. CASE Send(t)
  <2>1. asked + 1 \in Calls /\ asked' = asked + 1 /\ asked + 1 \notin done
        /\ outcome[asked + 1] = "none"
    BY <1>1 DEF Send, Take, TypeOK, Calls, Clean, Counted
  <2>2. toClient = <<>> /\ (link /\ handler # "ended" => toServer = <<>> /\ handler = "recv")
    BY <1>1 DEF Send, Take, Clean, Idle
  <2>3. link /\ handler # "ended" => toServer' = <<asked + 1>>
    BY <1>1, <2>2, OneElement DEF Send
  <2>4. Waiting' /\ AnswerIsOwn'
    BY <1>1, <2>1, <2>2, <2>3 DEF Send, Waiting, AnswerIsOwn
  <2>5. Unread'
    <3>1. CASE link
      BY <1>1, <2>1, <2>2, <2>3, <3>1 DEF Send, Unread, Answerable, Calls
    <3>2. CASE ~link
      BY <1>1, <2>1, <3>2 DEF Send, Unread, Answerable, Clean, Calls, TypeOK
    <3> QED BY <3>1, <3>2 DEF TypeOK
  <2>6. Idle' /\ Handshake'
    BY <1>1 DEF Send, Take, Idle, Handshake
  <2>7. Counted'
    BY <1>1, <2>1 DEF Send, Take, Counted, Clean, Calls, TypeOK
  <2> QED BY <1>1, <2>4, <2>5, <2>6, <2>7 DEF Send, Clean
<1>2. CASE Receive(t)
  <2>1. PICK r \in Replies :
          /\ toClient = <<r>> /\ r.call = asked
          /\ r.kind = "ok" => asked \in done
          /\ r.kind = "refused" => asked \notin done
    BY <1>2 DEF Receive, Clean, AnswerIsOwn
  <2>0. Head(toClient) = r /\ Tail(toClient) = <<>>
    BY <2>1, OneElement
  <2>2. holder' = NoThread /\ toClient' = <<>> /\ asked \in Calls
        /\ outcome' = [outcome EXCEPT ![asked] = IF r.kind = "refused" THEN "refused" ELSE "own"]
    <3>1. asked \in Calls
      BY <1>2 DEF Receive, Clean, Counted
    <3>2. toClient' = <<>> /\ holder' = NoThread
      BY <1>2, <2>0 DEF Receive, End
    <3>3. outcome' = [outcome EXCEPT ![asked] = IF r.kind = "refused" THEN "refused"
                                               ELSE IF r.call = asked THEN "own" ELSE "other"]
      BY <1>2, <2>0 DEF Receive, End
    <3> QED BY <2>1, <3>1, <3>2, <3>3
  <2>3. \A i \in Calls : outcome'[i] # "other"
    BY <2>2 DEF Clean, TypeOK
  <2>4. Waiting' /\ AnswerIsOwn'
    BY <2>2 DEF Waiting, AnswerIsOwn
  <2>5. toServer = <<>> \/ handler = "ended"
    BY <1>2, <2>1, OneElement DEF Unread, Clean, Receive
  <2>6. Unread'
    BY <1>2, <2>5 DEF Receive, Unread
  <2>7. Idle'
    BY <1>2, <2>2, <2>1, OneElement DEF Receive, Idle, Clean, Waiting, TypeOK
  <2>8. Handshake' /\ Counted'
    BY <1>2, <2>2 DEF Receive, Handshake, Counted, Clean, TypeOK, Calls
  <2> QED BY <1>2, <2>3, <2>4, <2>6, <2>7, <2>8 DEF Receive, Clean
<1>3. ASSUME ReceiveEnds(t) \/ ReceiveRaises(t) PROVE Clean'
  <2>1. holder = t /\ holder' = NoThread /\ outcome' = [outcome EXCEPT ![asked] = "failed"]
        /\ UNCHANGED <<setup, client, asked, streams, hvars, stop, done, faults>>
    BY <1>3 DEF ReceiveEnds, ReceiveRaises, End
  <2>2. asked \in Calls /\ client \in {"open", "closed"}
    BY <2>1 DEF Clean, Counted
  <2>3. \A i \in Calls : outcome'[i] = IF i = asked THEN "failed" ELSE outcome[i]
    BY <2>1, <2>2 DEF TypeOK
  <2>4. Waiting' /\ AnswerIsOwn' /\ Handshake'
    BY <2>1, <2>2 DEF Waiting, AnswerIsOwn, Handshake
  <2>5. Unread'
    BY <2>1, <2>3 DEF Unread, Answerable, Clean
  <2>6. Idle'
    BY <1>3, <2>1 DEF ReceiveEnds, ReceiveRaises, Idle, Clean
  <2>7. Counted'
    BY <2>1, <2>2, <2>3 DEF Counted, Clean, Calls, TypeOK
  <2> QED BY <2>1, <2>3, <2>4, <2>5, <2>6, <2>7 DEF Clean
<1>4. ~SendInterrupted(t) /\ ~ReceiveInterrupted(t)
  BY DEF SendInterrupted, ReceiveInterrupted, Dirty, TypeOK
<1> QED BY <1>1, <1>2, <1>3, <1>4 DEF ClientStep

(* A step of the handler keeps a clean session clean.                              *)
LEMMA HandlerClean ==
  ASSUME TypeOK, Clean, HandlerStep
  PROVE  Clean'
<1> USE SessionAssumption DEF AuthCall, Half
<1>0. ASSUME handler = "recv", toServer # <<>>
      PROVE  \E i \in {AuthCall} \cup Calls :
               /\ toServer = <<i>> /\ Head(toServer) = i /\ Tail(toServer) = <<>>
               /\ toClient = <<>> /\ (i = AuthCall \/ Answerable(i))
  BY <1>0, OneElement DEF Clean, Unread
<1>1. CASE HandleAuth
  <2>1. toServer = <<AuthCall>> /\ toServer' = <<>> /\ toClient = <<>>
    BY <1>0, <1>1 DEF HandleAuth
  <2>2. PICK k \in {"ok", "refused"} : toClient' = IF link THEN <<Frame(AuthCall, k)>> ELSE <<>>
    BY <1>1, <2>1, OneElement DEF HandleAuth, Say
  <2>3. handler' \in {"recv", "ended"}
    BY <1>1 DEF HandleAuth, AfterReply
  <2>4. link => holder = NoThread /\ client # "open"
    BY <1>1, <2>1, SingleEqual, OneElement DEF HandleAuth, Clean, Waiting, Idle, Counted, Calls
  <2>5. client \in {"new", "auth"} => client = "auth"
    BY <2>1, OneElement DEF Clean, Handshake
  <2>6. Unread' /\ Waiting' /\ AnswerIsOwn' /\ Idle'
    BY <1>1, <2>1, <2>2, <2>3, <2>4 DEF HandleAuth, Unread, Waiting, AnswerIsOwn, Idle, Clean
  <2>7. Frame(AuthCall, k) \in Replies
    BY DEF Frame, Replies, Frames
  <2>8. Handshake' /\ Counted'
    BY <1>1, <2>1, <2>2, <2>3, <2>5, <2>7 DEF HandleAuth, Handshake, Counted, Clean
  <2> QED BY <1>1, <2>6, <2>8 DEF HandleAuth, Clean
<1>2. CASE HandleUnauthorized
  <2>1. PICK i \in Calls : /\ toServer = <<i>> /\ Head(toServer) = i /\ Tail(toServer) = <<>>
                           /\ toClient = <<>> /\ Answerable(i)
    BY <1>0, <1>2 DEF HandleUnauthorized, Calls
  <2>2. toClient' = IF link THEN <<Frame(i, "refused")>> ELSE <<>>
    BY <1>2, <2>1, OneElement DEF HandleUnauthorized, Say
  <2>3. link => client # "open" \/ holder # NoThread
    BY <1>2, <2>1, OneElement DEF HandleUnauthorized, Clean, Idle
  <2>4. link /\ holder # NoThread => i = asked
    BY <1>2, <2>1, OneElement, SingleEqual DEF HandleUnauthorized, Clean, Waiting
  <2>5. Frame(i, "refused") \in Replies /\ Frame(i, "refused").call = i
        /\ Frame(i, "refused").kind = "refused"
    BY DEF Frame, Replies, Frames
  <2>6. client \notin {"new", "auth"}
    BY <2>1, OneElement, SingleEqual DEF Clean, Handshake, Calls
  <2>7. Unread' /\ Waiting' /\ Idle' /\ Handshake'
    BY <1>2, <2>1, <2>2, <2>3, <2>6 DEF HandleUnauthorized, Unread, Waiting, Idle, Handshake
  <2>8. AnswerIsOwn'
    BY <1>2, <2>1, <2>2, <2>4, <2>5 DEF HandleUnauthorized, AnswerIsOwn, Answerable
  <2>9. Counted'
    BY <1>2 DEF HandleUnauthorized, Counted, Clean
  <2> QED BY <1>2, <2>7, <2>8, <2>9 DEF HandleUnauthorized, Clean
<1>3. CASE Dispatch
  <2>1. PICK i \in Calls : /\ toServer = <<i>> /\ Head(toServer) = i /\ Tail(toServer) = <<>>
                           /\ toClient = <<>> /\ Answerable(i)
    BY <1>0, <1>3 DEF Dispatch, Calls
  <2>2. /\ toServer' = <<>> /\ toClient' = <<>> /\ handler' = "reply" /\ current' = i
        /\ done' = done \cup {i} /\ UNCHANGED <<setup, cvars, link, outcome, faults>>
    BY <1>3, <2>1 DEF Dispatch
  <2>3. link /\ holder # NoThread => i = asked
    BY <1>3, <2>1, OneElement, SingleEqual DEF Dispatch, Clean, Waiting
  <2>4. client \notin {"new", "auth"}
    BY <2>1, OneElement, SingleEqual DEF Clean, Handshake, Calls
  <2>5. Unread' /\ AnswerIsOwn' /\ Handshake'
    BY <2>2, <2>4 DEF Unread, AnswerIsOwn, Handshake
  <2>6. Waiting'
    BY <2>2, <2>3 DEF Waiting
  <2>7. Idle'
    BY <1>3, <2>1, <2>2, OneElement DEF Idle, Clean, Dispatch
  <2>8. Counted'
    BY <2>1, <2>2 DEF Counted, Clean, Answerable, Calls, TypeOK
  <2> QED BY <2>2, <2>5, <2>6, <2>7, <2>8 DEF Clean
<1>4. ~HandleBad
  <2> SUFFICES ASSUME HandleBad PROVE FALSE
    OBVIOUS
  <2>1. toServer # <<>>
    BY DEF HandleBad
  <2>2. PICK i : toServer = <<i>>
    BY <1>0, <2>1 DEF HandleBad
  <2> QED BY <2>2, OneElement DEF HandleBad
<1>5. CASE Reply
  <2>1. toServer = <<>>
    BY <1>5 DEF Reply, Clean, Unread
  <2>2. handler' \in {"recv", "ended"}
    BY <1>5 DEF Reply, AfterReply
  <2>3. holder # NoThread => toClient = <<>> /\ current = asked
    BY <1>5 DEF Reply, Clean, Waiting
  <2>4. holder # NoThread => toClient' = <<Frame(asked, "ok")>>
    BY <1>5, <2>3, OneElement DEF Reply, Say
  <2>5. Frame(asked, "ok").call = asked /\ Frame(asked, "ok").kind = "ok"
    BY DEF Frame
  <2>6. holder # NoThread => Frame(asked, "ok") \in Replies /\ asked \in done
    BY <1>5, <2>3 DEF Reply, Clean, Counted, Frame, Replies, Frames
  <2>7. client \notin {"new", "auth", "open"} \/ holder # NoThread
    BY <1>5 DEF Reply, Clean, Handshake, Idle
  <2>8. AnswerIsOwn'
    BY <1>5, <2>4, <2>5, <2>6 DEF Reply, AnswerIsOwn
  <2>9. Unread' /\ Waiting' /\ Idle'
    BY <1>5, <2>1, <2>2, <2>4, <2>7, OneElement DEF Reply, Unread, Waiting, Idle
  <2>10. Handshake' /\ Counted'
    BY <1>5, <2>2 DEF Reply, Handshake, Counted, Clean
  <2> QED BY <1>5, <2>8, <2>9, <2>10 DEF Reply, Clean
<1>6. ASSUME ReplyFails \/ HandlerLeaves PROVE Clean'
  <2>1. handler' = "ended" /\ UNCHANGED <<setup, cvars, streams, current, authed, done, outcome, faults>>
    BY <1>6 DEF ReplyFails, HandlerLeaves
  <2>2. Unread' /\ Waiting' /\ AnswerIsOwn' /\ Idle'
    BY <2>1 DEF Unread, Waiting, AnswerIsOwn, Idle, Clean
  <2>3. Handshake' /\ Counted'
    BY <2>1 DEF Handshake, Counted, Clean
  <2> QED BY <2>1, <2>2, <2>3 DEF Clean
<1> QED BY <1>1, <1>2, <1>3, <1>4, <1>5, <1>6 DEF HandlerStep

(* So do the steps of the handshake, the close, the stop and the faults of the link.   *)
LEMMA OtherClean ==
  ASSUME TypeOK, Clean,
         Connect \/ AuthReply \/ AuthFails \/ Close \/ Stop \/ Exit \/ Lose \/ UNCHANGED vars
  PROVE  Clean'
<1> USE SessionAssumption DEF AuthCall
<1>1. CASE Connect
  <2>1. holder = NoThread /\ asked = 0 /\ toServer = <<>> /\ toClient = <<>> /\ handler # "reply"
        /\ toServer' \in {<<>>, <<AuthCall>>} /\ client' \in {"auth", "open"}
        /\ (client' = "open" => toServer' = <<>>)
        /\ UNCHANGED <<setup, holder, asked, toClient, link, hvars, stop, done, outcome, faults>>
    BY <1>1, OneElement DEF Connect, Clean, Handshake
  <2>2. Unread' /\ Waiting' /\ AnswerIsOwn'
    BY <2>1, OneElement DEF Unread, Waiting, AnswerIsOwn, TypeOK
  <2>3. Idle' /\ Handshake' /\ Counted'
    BY <2>1, OneElement DEF Idle, Handshake, Counted, Clean, TypeOK
  <2> QED BY <2>1, <2>2, <2>3 DEF Clean
<1>2. CASE AuthReply
  <2>1. PICK r \in Replies : toClient = <<r>> /\ toServer = <<>> /\ holder = NoThread
                              /\ handler # "reply"
    BY <1>2 DEF AuthReply, Clean, Handshake
  <2>2. toClient' = <<>> /\ client' \in {"open", "closed"}
    BY <1>2, <2>1, OneElement DEF AuthReply
  <2>3. Unread' /\ Waiting' /\ AnswerIsOwn'
    BY <1>2, <2>1, <2>2 DEF AuthReply, Unread, Waiting, AnswerIsOwn
  <2>4. Idle' /\ Handshake' /\ Counted'
    BY <1>2, <2>1, <2>2 DEF AuthReply, Idle, Handshake, Counted, Clean, TypeOK
  <2> QED BY <1>2, <2>3, <2>4 DEF AuthReply, Clean
<1>3. ASSUME AuthFails \/ Close PROVE Clean'
  <2>1. client' = "closed" /\ client \in {"auth", "open"}
        /\ UNCHANGED <<setup, holder, asked, streams, hvars, stop, done, outcome, faults>>
    BY <1>3 DEF AuthFails, Close
  <2>2. Unread' /\ Waiting' /\ AnswerIsOwn'
    BY <2>1 DEF Unread, Waiting, AnswerIsOwn, Answerable, Clean
  <2>3. Idle' /\ Handshake' /\ Counted'
    BY <2>1 DEF Idle, Handshake, Counted, Clean
  <2> QED BY <2>1, <2>2, <2>3 DEF Clean
<1>4. ASSUME Stop \/ UNCHANGED vars PROVE Clean'
  <2>1. UNCHANGED <<setup, cvars, streams, hvars, done, outcome, faults>>
    BY <1>4 DEF Stop, vars
  <2> QED BY <2>1 DEF Clean, Unread, Answerable, Waiting, AnswerIsOwn, Idle, Handshake, Counted
<1>5. CASE Exit
  <2>1. handler' = "ended"
        /\ UNCHANGED <<setup, cvars, streams, current, authed, done, outcome, faults>>
    BY <1>5 DEF Exit
  <2>2. Unread' /\ Waiting' /\ AnswerIsOwn' /\ Idle'
    BY <2>1 DEF Unread, Waiting, AnswerIsOwn, Idle, Clean
  <2>3. Handshake' /\ Counted'
    BY <2>1 DEF Handshake, Counted, Clean
  <2> QED BY <2>1, <2>2, <2>3 DEF Clean
<1>6. CASE Lose
  <2>1. /\ ~link' /\ toClient' \in {toClient, <<>>} /\ toServer' \in {toServer, <<>>}
        /\ UNCHANGED <<setup, cvars, hvars, stop, done, outcome, faults>>
    BY <1>6 DEF Lose
  <2>2. Unread' /\ Waiting'
    BY <2>1 DEF Unread, Answerable, Waiting, Clean
  <2>3. AnswerIsOwn' /\ Idle' /\ Counted'
    BY <2>1 DEF AnswerIsOwn, Idle, Counted, Clean
  <2>4. Handshake'
    BY <2>1 DEF Handshake, Clean
  <2> QED BY <2>1, <2>2, <2>3, <2>4 DEF Clean
<1> QED BY <1>1, <1>2, <1>3, <1>4, <1>5, <1>6

(* An interruption cannot be undone.                                            *)
LEMMA DirtyStays == TypeOK /\ [Next]_vars /\ Dirty => Dirty'
<1> SUFFICES ASSUME TypeOK, [Next]_vars, Dirty PROVE Dirty'
  OBVIOUS
<1>1. interrupts \in Nat /\ interrupts > 0
  BY SessionAssumption DEF TypeOK, Dirty
<1>2. interrupts' = interrupts \/ interrupts' = interrupts + 1
  <2>1. ASSUME NEW t \in Thread, ClientStep(t) PROVE <1>2!2 \/ <1>2!1
    BY <2>1 DEF ClientStep, Send, SendInterrupted, Receive, ReceiveEnds, ReceiveRaises, ReceiveInterrupted
  <2>2. CASE HandlerStep
    BY <2>2 DEF HandlerStep, HandleAuth, HandleUnauthorized, Dispatch, HandleBad, Reply, ReplyFails,
                HandlerLeaves
  <2>3. CASE Connect \/ AuthReply \/ AuthFails \/ Close \/ Stop \/ Exit \/ Lose \/ UNCHANGED vars
    BY <2>3 DEF Connect, AuthReply, AuthFails, Close, Stop, Exit, Lose, vars
  <2> QED BY <2>1, <2>2, <2>3 DEF Next
<1> QED BY <1>1, <1>2 DEF Dirty

(* IInv is inductive.                                                          *)
LEMMA NextInv == IInv /\ [Next]_vars => IInv'
<1> SUFFICES ASSUME IInv, [Next]_vars PROVE IInv'
  OBVIOUS
<1>1. TypeOK /\ TypeOK'
  BY NextType DEF IInv
<1>2. ASSUME ~Dirty' PROVE Clean'
  <2>1. Clean
    BY <1>1, <1>2, DirtyStays DEF IInv
  <2> QED BY <1>1, <1>2, <2>1, ClientClean, HandlerClean, OtherClean DEF Next
<1> QED BY <1>1, <1>2 DEF IInv

LEMMA Invariant == Spec => []IInv
<1>1. Init => IInv
  BY InitType, InitClean DEF IInv
<1> QED BY <1>1, NextInv, PTL DEF Spec

(* As long as no call was interrupted, a call that returns has its own reply (_call).     *)
THEOREM OwnReply == Spec => []ReplyIsOwn
<1>1. IInv => ReplyIsOwn
  BY DEF IInv, Clean, ReplyIsOwn
<1> QED BY <1>1, Invariant, PTL

(* An interruption apart, a step of a clean session is a step of RequestReply or none.      *)
LEMMA StepRefines ==
  ASSUME IInv, [Next]_vars, ~Dirty'
  PROVE  RR!Next \/ UNCHANGED RR!rrvars
<1> USE SessionAssumption DEF RR!rrvars
<1>0. TypeOK /\ Clean /\ Calls = RR!Calls
  BY DirtyStays DEF IInv, Calls, RR!Calls
<1>1. ASSUME NEW t \in Thread, ClientStep(t) PROVE RR!Next
  <2>1. CASE Send(t)
    <3>1. ~(holder # NoThread) /\ (holder # NoThread)' /\ asked < MaxCalls /\ asked' = asked + 1
          /\ UNCHANGED <<done, outcome>>
      BY <2>1 DEF Send, Take
    <3> QED BY <3>1 DEF RR!Ask, RR!Next
  <2>2. CASE Receive(t)
    <3>1. PICK r \in Replies :
            /\ toClient = <<r>> /\ r.call = asked
            /\ r.kind = "ok" => asked \in done
            /\ r.kind = "refused" => asked \notin done
      BY <1>0, <2>2 DEF Receive, Clean, AnswerIsOwn
    <3>2. Head(toClient) = r
      BY <3>1, OneElement
    <3>3. PICK o \in {"own", "refused"} :
            End(o) /\ (o = "own" => r.kind # "refused") /\ (o = "refused" => r.kind = "refused")
      BY <2>2, <3>1, <3>2 DEF Receive
    <3>4. r.kind = "ok" \/ r.kind = "refused"
      BY DEF Replies
    <3>5. RR!Return(o)
      BY <2>2, <3>1, <3>3, <3>4 DEF Receive, End, RR!Return
    <3> QED BY <3>5 DEF RR!Next
  <2>3. ASSUME ReceiveEnds(t) \/ ReceiveRaises(t) PROVE RR!Next
    <3>1. RR!Return("failed")
      BY <2>3 DEF ReceiveEnds, ReceiveRaises, End, RR!Return
    <3> QED BY <3>1 DEF RR!Next
  <2>4. ~SendInterrupted(t) /\ ~ReceiveInterrupted(t)
    BY <1>0 DEF SendInterrupted, ReceiveInterrupted, Dirty, TypeOK
  <2> QED BY <1>1, <2>1, <2>2, <2>3, <2>4 DEF ClientStep
<1>2. CASE Dispatch
  <2>1. PICK i \in {AuthCall} \cup Calls :
          toServer = <<i>> /\ (i = AuthCall \/ Answerable(i))
    BY <1>0, <1>2 DEF Dispatch, Clean, Unread
  <2>2. Head(toServer) = i
    BY <2>1, OneElement
  <2>3. i \in Calls /\ Answerable(i)
    BY <1>2, <2>1, <2>2 DEF Dispatch, AuthCall, Calls
  <2>4. RR!Execute(i)
    BY <1>2, <2>2, <2>3 DEF Dispatch, Answerable, RR!Execute
  <2> QED BY <1>0, <2>3, <2>4 DEF RR!Next
<1>3. ASSUME HandlerStep, ~Dispatch PROVE UNCHANGED RR!rrvars
  BY <1>3 DEF HandlerStep, HandleAuth, HandleUnauthorized, HandleBad, Reply, ReplyFails, HandlerLeaves
<1>4. ASSUME Connect \/ AuthReply \/ AuthFails \/ Close \/ Stop \/ Exit \/ Lose \/ UNCHANGED vars
      PROVE  UNCHANGED RR!rrvars
  BY <1>4 DEF Connect, AuthReply, AuthFails, Close, Stop, Exit, Lose, vars
<1> QED BY <1>1, <1>2, <1>3, <1>4 DEF Next

(* Until a call is interrupted, the session implements RequestReply (_call, _handle).      *)
THEOREM Refinement == Spec => ImplementsRequestReply
<1>1. Init => RR!Init
  BY SessionAssumption DEF Init, RR!Init, Calls, RR!Calls
<1>2. IInv /\ [Next]_vars => [Dirty' \/ RR!Next]_(RR!rrvars)
  BY StepRefines
<1> QED BY <1>1, <1>2, Invariant, PTL DEF Spec, ImplementsRequestReply

(* A client without the token has nothing dispatched (server.py, the auth branch of        *)
(* _handle).                                                                    *)
THEOREM Authorized == Spec => []NothingUnauthorized
<1> DEFINE Inv == (authed /\ secured => given = "right") /\ NothingUnauthorized
<1>1. Init => Inv
  <2> SUFFICES ASSUME Init PROVE Inv
    OBVIOUS
  <2>1. authed /\ secured => given = "right"
    BY Zenon DEF Init
  <2>2. done = {}
    BY DEF Init
  <2> QED BY <2>1, <2>2 DEF NothingUnauthorized
<1>2. Inv /\ [Next]_vars => Inv'
  <2> SUFFICES ASSUME Inv, [Next]_vars PROVE Inv'
    OBVIOUS
  <2>1. ASSUME NEW t \in Thread, ClientStep(t) PROVE Inv'
    BY <2>1 DEF ClientStep, Send, SendInterrupted, Receive, ReceiveEnds, ReceiveRaises, ReceiveInterrupted,
                NothingUnauthorized
  <2>2. CASE HandleAuth
    <3>1. UNCHANGED <<setup, done>> /\ (authed \/ given = "right" \/ ~authed')
      BY <2>2, Zenon DEF HandleAuth
    <3> QED BY <3>1 DEF NothingUnauthorized
  <2>3. CASE Dispatch
    BY <2>3 DEF Dispatch, NothingUnauthorized
  <2>4. ASSUME HandlerStep, ~HandleAuth, ~Dispatch PROVE Inv'
    BY <2>4 DEF HandlerStep, HandleUnauthorized, HandleBad, Reply, ReplyFails, HandlerLeaves,
                NothingUnauthorized
  <2>5. CASE Connect \/ AuthReply \/ AuthFails \/ Close \/ Stop \/ Exit \/ Lose \/ UNCHANGED vars
    BY <2>5 DEF Connect, AuthReply, AuthFails, Close, Stop, Exit, Lose, vars, NothingUnauthorized
  <2> QED BY <2>1, <2>2, <2>3, <2>4, <2>5 DEF Next
<1>3. Inv => NothingUnauthorized
  OBVIOUS
<1> QED BY <1>1, <1>2, <1>3, PTL DEF Spec

-----------------------------------------------------------------------------
(* The login.                                                                  *)


Late == {"install", "last"} \cup Ended

(* As long as commands do not overlap, one of them is under way.                     *)
OneCommand ==
  /\ \A s, t \in Active : s = t
  /\ reinstall # "idle" => Active = {}

(* A session writes the device id or key only where none can be read.                 *)
Deciding(s) ==
  half[s] # "no" => /\ pc[s] \in Files \cup {"last"}
                    /\ At(s) \in {"id", "device"} => ~Whole(At(s))

(* What a session is about to register is what is on disk.                            *)
Registering(s) ==
  /\ pc[s] \in {"device", "register", "license"} => Whole("id") /\ bound[s].id = file["id"]
  /\ pc[s] \in {"register", "license"} => Whole("device") /\ bound[s].device = file["device"]

Licensed ==
  Whole("license") =>
    /\ Whole("id") /\ Whole("device") /\ pc[file["license"]] \in Late
    /\ bound[file["license"]].id = file["id"] /\ bound[file["license"]].device = file["device"]

DeviceInv == ~overlapped => Licensed /\ \A s \in Session : Deciding(s) /\ Registering(s)

PCs == {"idle", "poll", "stale_key", "stale_license", "onboard", "register", "install", "last"}
         \cup Files \cup Ended
Halves == \A s \in Session : half[s] # "no" => pc[s] \in Files \cup {"last"}

TypeInv == LoginTypeOK /\ Halves

LEMMA AfterType == \A p \in PCs \ ({"idle", "poll"} \cup Ended) : After(p) \in PCs
  BY DEF PCs, After, Files, Secrets, Ended

USE DEF svars, rvars, history

(* The initial state.                                                          *)
LEMMA LoginInitType == LoginInit => TypeInv
<1> SUFFICES ASSUME LoginInit PROVE TypeInv
  OBVIOUS
<1>1. kills \in 0..MaxKills /\ reinstalls \in 0..MaxReinstalls
  BY LoginAssumption DEF LoginInit
<1>2. overlapped \in BOOLEAN /\ locked \in BOOLEAN /\ between \in BOOLEAN
  BY DEF LoginInit
<1> QED BY <1>1, <1>2 DEF LoginInit, TypeInv, LoginTypeOK, Halves

(* A step keeps the types.                                                     *)
LEMMA LoginNextType == TypeInv /\ [LoginNext]_loginVars => TypeInv'
<1> SUFFICES ASSUME TypeInv, [LoginNext]_loginVars PROVE TypeInv'
  OBVIOUS
<1> USE LoginAssumption DEF TypeInv, LoginTypeOK, Goto, Drop, Fail
<1>0. pc \in [Session -> PCs]
  BY DEF PCs
<1>1. ASSUME NEW s \in Session, Start(s) PROVE TypeInv'
  <2>1. pc' \in [Session -> PCs] /\ overlapped' \in BOOLEAN
    BY <1>0, <1>1 DEF Start, PCs, Files, Secrets
  <2>2. Halves'
    BY <1>1 DEF Start, Halves, Files, Secrets
  <2> QED BY <1>1, <2>1, <2>2 DEF Start, PCs
<1>2. ASSUME NEW s \in Session, Browse(s) PROVE TypeInv'
  BY <1>2 DEF Browse, Halves
<1>3. ASSUME NEW s \in Session, Fail(s) PROVE TypeInv'
  <2>1. pc' \in [Session -> PCs] /\ Halves'
    BY <1>0, <1>3 DEF PCs, Halves, Ended
  <2> QED BY <1>3, <2>1 DEF PCs
<1>4. ASSUME NEW s \in Session, Poll(s) PROVE TypeInv'
  <2>1. pc' \in [Session -> PCs] /\ Halves'
    BY <1>0, <1>4 DEF Poll, PCs, Halves, Files, Secrets
  <2>2. waited' \in [Session -> Nat]
    BY <1>4 DEF Poll
  <2> QED BY <1>4, <2>1, <2>2 DEF Poll, PCs
<1>5. ASSUME NEW s \in Session, Decide(s) PROVE TypeInv'
  BY <1>5 DEF Decide, Halves, At, Files
<1>6. ASSUME NEW s \in Session, Open(s) PROVE TypeInv'
  <2>1. file' \in [Files -> Session \cup {NoSession} \cup {Cut}]
    BY <1>6 DEF Open
  <2>2. Halves'
    BY <1>6 DEF Open, Halves, At
  <2> QED BY <1>6, <2>1, <2>2 DEF Open
<1>7. ASSUME NEW s \in Session, Write(s) PROVE TypeInv'
  <2>1. pc[s] \in Files \cup {"last"} /\ pc[s] \in PCs \ ({"idle", "poll"} \cup Ended)
    BY <1>0, <1>7 DEF Write, Halves, Files, Secrets, Ended
  <2>2. pc' \in [Session -> PCs]
    BY <1>0, <1>7, <2>1, AfterType DEF Write
  <2>3. file' \in [Files -> Session \cup {NoSession} \cup {Cut}]
    BY <1>7 DEF Write
  <2>4. bound' \in [Session -> [id : Session \cup {NoSession}, device : Session \cup {NoSession}]]
    BY <1>7 DEF Write, Binds
  <2>5. Halves'
    BY <1>7 DEF Write, Halves
  <2> QED BY <1>7, <2>2, <2>3, <2>4, <2>5 DEF Write, PCs
<1>8. ASSUME NEW s \in Session, Keep(s) PROVE TypeInv'
  <2>1. pc[s] \in {"id", "last", "device"} /\ pc[s] \in PCs \ ({"idle", "poll"} \cup Ended)
    BY <1>0, <1>8 DEF Keep, Keeps, At, Ended
  <2>2. pc' \in [Session -> PCs]
    BY <1>0, <1>8, <2>1, AfterType DEF Keep, PCs, Ended
  <2>3. bound' \in [Session -> [id : Session \cup {NoSession}, device : Session \cup {NoSession}]]
    BY <1>8 DEF Keep, Binds, Whole
  <2>4. Halves'
    BY <1>8 DEF Keep, Halves
  <2> QED BY <1>8, <2>2, <2>3, <2>4 DEF Keep, PCs
<1>9. ASSUME NEW s \in Session, Unlink(s) PROVE TypeInv'
  <2>1. pc[s] \in {"stale_key", "stale_license"}
    BY <1>9 DEF Unlink
  <2>2. pc' \in [Session -> PCs]
    BY <1>0, <1>9, <2>1, AfterType DEF Unlink, PCs, Ended, Files, Secrets
  <2>3. file' \in [Files -> Session \cup {NoSession} \cup {Cut}] /\ locked' \in BOOLEAN
    BY <1>9 DEF Unlink, Files, Secrets
  <2>4. Halves'
    BY <1>9, <2>1 DEF Unlink, Halves, Files, Secrets
  <2> QED BY <1>9, <2>2, <2>3, <2>4 DEF Unlink, PCs
<1>10. ASSUME NEW s \in Session, Answered(s) \/ Install(s) \/ SkipInstall(s) PROVE TypeInv'
  <2>1. pc[s] \in {"onboard", "register", "install"} /\ pc' = [pc EXCEPT ![s] = After(pc[s])]
        /\ UNCHANGED <<half, waited, grant, bound, file, reinstall, bearer, reinstalls, history>>
    BY <1>10 DEF Answered, Install, SkipInstall
  <2>2. pc' \in [Session -> PCs]
    BY <1>0, <2>1, AfterType DEF PCs, Ended, Files, Secrets
  <2>3. installed' \in [license : Session \cup {NoSession}, bearer : Session \cup {NoSession}]
    BY <1>10 DEF Answered, Install, SkipInstall, Whole
  <2>4. Halves'
    BY <2>1 DEF Halves, Files, Secrets
  <2> QED BY <2>1, <2>2, <2>3, <2>4 DEF PCs
<1>11. CASE Reinstall
  <2>1. bearer' \in Session \cup {NoSession}
    BY <1>11 DEF Reinstall, ReadToken, Whole
  <2>2. reinstalls' \in 0..MaxReinstalls /\ overlapped' \in BOOLEAN
    BY <1>11 DEF Reinstall
  <2> QED BY <1>11, <2>1, <2>2 DEF Reinstall, Halves
<1>12. CASE ReinstallEnds
  <2>1. installed' \in [license : Session \cup {NoSession}, bearer : Session \cup {NoSession}]
    BY <1>12 DEF ReinstallEnds, Whole
  <2> QED BY <1>12, <2>1 DEF ReinstallEnds, Halves
<1>13. ASSUME NEW s \in Session, Kill(s) PROVE TypeInv'
  <2>1. pc' \in [Session -> PCs] /\ Halves' /\ kills' \in 0..MaxKills /\ between' \in BOOLEAN
    BY <1>0, <1>13 DEF Kill, PCs, Ended, Halves
  <2> QED BY <1>13, <2>1 DEF Kill, PCs
<1>14. CASE UNCHANGED loginVars
  BY <1>14 DEF loginVars, Halves
<1> QED BY <1>1, <1>2, <1>3, <1>4, <1>5, <1>6, <1>7, <1>8, <1>9, <1>10, <1>11, <1>12, <1>13, <1>14
        DEF LoginNext, Step, TimeOut, Refused, WriteFails

(* The state of a login has its type (login).                                         *)
THEOREM LoginTypeCorrect == LoginSpec => []LoginTypeOK
<1>1. TypeInv => LoginTypeOK
  BY DEF TypeInv
<1> QED BY <1>1, LoginInitType, LoginNextType, PTL DEF LoginSpec

-----------------------------------------------------------------------------
(* Commands that do not overlap.                                                *)
Alone == ~overlapped => OneCommand

LEMMA InitAlone == LoginInit => Alone
  BY DEF LoginInit, Alone, OneCommand, Active

(* An active session may go on or end; only Start makes one active, only Reinstall an         *)
(* install.                                                                  *)
LEMMA NextAlone == TypeInv /\ Alone /\ [LoginNext]_loginVars => Alone'
<1> SUFFICES ASSUME TypeInv, Alone, [LoginNext]_loginVars, ~overlapped' PROVE OneCommand'
  BY DEF Alone
<1> USE DEF Alone, OneCommand, TypeInv, LoginTypeOK
<1>1. ASSUME NEW s \in Session, Start(s) PROVE OneCommand'
  <2>1. Active = {} /\ reinstall' = "idle" /\ ~overlapped
    BY <1>1 DEF Start
  <2>2. Active' \subseteq {s}
    BY <1>1, <2>1 DEF Start, Goto, Active
  <2> QED BY <2>1, <2>2
<1>2. CASE Reinstall
  <2>1. Active = {} /\ ~overlapped /\ Active' = Active
    BY <1>2 DEF Reinstall, Active
  <2> QED BY <2>1
<1>3. ASSUME ~overlapped, Active' \subseteq Active, reinstall' \in {reinstall, "idle"} PROVE OneCommand'
  BY <1>3
<1>4. ASSUME NEW s \in Session, NEW p, s \in Active, pc' = [pc EXCEPT ![s] = p] PROVE Active' \subseteq Active
  BY <1>4 DEF Active
<1>5. ASSUME NEW s \in Session, Browse(s) \/ Step(s) \/ Kill(s) PROVE OneCommand'
  <2>1. ~overlapped /\ reinstall' = reinstall
    BY <1>5 DEF Browse, Step, Kill, Poll, TimeOut, Refused, Decide, Open, Write, Keep, WriteFails, Unlink,
                Answered, Install, SkipInstall, Fail
  <2>2. s \in Active /\ (pc' = pc \/ \E p : pc' = [pc EXCEPT ![s] = p])
    BY <1>5 DEF Browse, Step, Kill, Poll, TimeOut, Refused, Decide, Open, Write, Keep, Keeps, At, WriteFails,
                Unlink, Answered, Install, SkipInstall, Fail, Goto, Active, Halves, Files, Secrets, Ended
  <2>3. Active' \subseteq Active
    BY <2>2, <1>4 DEF Active
  <2> QED BY <1>3, <2>1, <2>3
<1>6. CASE ReinstallEnds
  BY <1>3, <1>6 DEF ReinstallEnds, Active
<1>7. CASE UNCHANGED loginVars
  BY <1>3, <1>7 DEF loginVars, Active
<1> QED BY <1>1, <1>2, <1>5, <1>6, <1>7 DEF LoginNext

(* No other session is at a file, or about to register.                              *)
LEMMA OnlyOne ==
  ASSUME TypeInv, Alone, ~overlapped, NEW s \in Active, NEW t \in Session, t # s
  PROVE  pc[t] \in Ended \cup {"idle"}
  BY DEF Alone, OneCommand, Active

-----------------------------------------------------------------------------
(* The license and the device.                                                  *)
LEMMA InitDevice == LoginInit => DeviceInv
  BY LoginAssumption DEF LoginInit, DeviceInv, Licensed, Deciding, Registering, Whole, Files, Secrets

(* A step of s does not disturb what holds of the others.                             *)
LEMMA OthersKeep ==
  ASSUME TypeInv, Alone, ~overlapped, NEW s \in Active, NEW t \in Session, t # s,
         pc'[t] = pc[t], half'[t] = half[t]
  PROVE  Deciding(t)' /\ Registering(t)'
<1>1. pc[t] \in Ended \cup {"idle"}
  BY OnlyOne
<1>2. half[t] = "no"
  BY <1>1 DEF TypeInv, Halves, Files, Secrets, Ended
<1> QED BY <1>1, <1>2 DEF Deciding, Registering, Ended

LEMMA StepDevice ==
  ASSUME TypeInv, TypeInv', Alone, DeviceInv, ~overlapped, NEW s \in Session,
         Browse(s) \/ Step(s) \/ Kill(s)
  PROVE  Licensed' /\ Deciding(s)' /\ Registering(s)'
<1> USE LoginAssumption DEF TypeInv, LoginTypeOK
<1>0. Licensed /\ Deciding(s) /\ Registering(s)
  BY DEF DeviceInv
<1>1. CASE Browse(s)
  BY <1>0, <1>1 DEF Browse, Licensed, Deciding, Registering, Whole, At
<1>2. ASSUME NEW p \in {"failed", "killed"}, pc' = [pc EXCEPT ![s] = p], half' = [half EXCEPT ![s] = "no"],
             UNCHANGED <<file, bound>>
      PROVE  Licensed' /\ Deciding(s)' /\ Registering(s)'
  BY <1>0, <1>2 DEF Licensed, Deciding, Registering, Whole, Late, Ended
<1>3. CASE Fail(s) \/ Kill(s)
  BY <1>2, <1>3 DEF Fail, Kill, Goto, Drop
<1>4. CASE Poll(s)
  <2>1. UNCHANGED <<file, bound>> /\ pc[s] = "poll"
        /\ \/ pc' = [pc EXCEPT ![s] = "token"] /\ half' = [half EXCEPT ![s] = "no"]
           \/ UNCHANGED <<pc, half>>
    BY <1>4 DEF Poll, Goto, Drop
  <2>2. Licensed'
    BY <1>0, <2>1 DEF Licensed, Whole, Late, Ended
  <2>3. Deciding(s)' /\ Registering(s)'
    BY <1>0, <2>1 DEF Deciding, Registering, Whole, At
  <2> QED BY <2>2, <2>3
<1>5. CASE Answered(s) \/ Install(s) \/ SkipInstall(s)
  <2>1. pc[s] \in {"onboard", "register", "install"} /\ pc' = [pc EXCEPT ![s] = After(pc[s])]
        /\ UNCHANGED <<half, file, bound>>
    BY <1>5 DEF Answered, Install, SkipInstall, Goto
  <2>2. half[s] = "no"
    BY <2>1 DEF Halves, Files, Secrets
  <2>3. pc[s] \in Late => pc'[s] \in Late
    BY <2>1 DEF Late, Ended, After
  <2>4. Licensed'
    BY <1>0, <2>1, <2>3 DEF Licensed, Whole
  <2>5. Deciding(s)'
    BY <2>1, <2>2 DEF Deciding
  <2>6. Registering(s)'
    BY <1>0, <2>1 DEF Registering, Whole, After
  <2> QED BY <2>4, <2>5, <2>6
<1>6. CASE Decide(s)
  <2>1. UNCHANGED <<pc, file, bound>> /\ At(s) \in {"id", "device"} /\ ~Whole(At(s))
    BY <1>6 DEF Decide, Keeps, Whole, Files, Secrets
  <2>2. pc[s] \in Files \cup {"last"}
    BY <2>1 DEF At, Files, Secrets
  <2>3. Licensed' /\ Registering(s)'
    BY <1>0, <2>1 DEF Licensed, Registering, Whole
  <2>4. Deciding(s)'
    BY <2>1, <2>2 DEF Deciding, Whole, At
  <2> QED BY <2>3, <2>4
<1>7. CASE Open(s)
  <2>1. UNCHANGED <<pc, bound>> /\ At(s) \in Files /\ file' = [file EXCEPT ![At(s)] = Cut]
    BY <1>7 DEF Open
  <2>2. At(s) \in {"id", "device"} => half[s] # "no"
    BY <1>7 DEF Open, At, Secrets
  <2>3. At(s) \in {"id", "device"} => ~Whole("license") /\ ~Whole(At(s))
    BY <1>0, <2>2 DEF Licensed, Deciding
  <2>4. Licensed'
    BY <1>0, <2>1, <2>3 DEF Licensed, Whole, Files, Secrets
  <2>5. Deciding(s)'
    BY <1>7, <2>1 DEF Deciding, Whole, At
  <2>6. Registering(s)'
    BY <1>0, <2>1 DEF Registering, Whole, At, Files, Secrets
  <2> QED BY <2>4, <2>5, <2>6
<1>8. CASE Write(s)
  <2>1. half[s] # "no" /\ half'[s] = "no" /\ pc[s] \in Files \cup {"last"}
        /\ file' = [file EXCEPT ![At(s)] = s] /\ pc' = [pc EXCEPT ![s] = After(pc[s])]
    BY <1>0, <1>8 DEF Write, Deciding, Goto
  <2>2. Deciding(s)'
    BY <2>1 DEF Deciding
  <2>3. CASE pc[s] \in {"token", "key"}
    <3>1. bound' = bound /\ pc'[s] \in {"stale_key", "id"} /\ pc[s] \notin Late
      BY <1>8, <2>1, <2>3 DEF Write, Binds, After, Late, Ended
    <3>2. Licensed'
      BY <1>0, <2>1, <2>3, <3>1 DEF Licensed, Whole, At, Files, Secrets
    <3> QED BY <2>1, <2>2, <2>3, <3>1, <3>2 DEF Registering
  <2>4. CASE pc[s] \in {"id", "last"}
    <3>1. At(s) = "id" /\ ~Whole("license")
      BY <1>0, <2>1, <2>4 DEF At, Deciding, Licensed
    <3>2. file'["license"] = file["license"] /\ file'["id"] = s /\ pc'[s] \in {"device", "done"}
      BY <2>1, <2>4, <3>1 DEF After, Files, Secrets
    <3>3. pc[s] = "id" => bound'[s].id = s
      BY <1>8 DEF Write, Binds
    <3>4. pc'[s] = "device" => pc[s] = "id"
      BY <2>1, <2>4 DEF After
    <3>5. Registering(s)'
      BY <3>2, <3>3, <3>4 DEF Registering, Whole
    <3> QED BY <2>2, <3>1, <3>2, <3>5 DEF Licensed, Whole
  <2>5. CASE pc[s] = "device"
    <3>1. At(s) = "device" /\ ~Whole("license")
      BY <1>0, <2>1, <2>5 DEF At, Deciding, Licensed
    <3>2. /\ file'["license"] = file["license"] /\ file'["device"] = s /\ file'["id"] = file["id"]
          /\ pc'[s] = "register"
      BY <2>1, <2>5, <3>1 DEF After, Files, Secrets
    <3>3. bound'[s].device = s /\ bound'[s].id = bound[s].id
      BY <1>8, <2>5 DEF Write, Binds
    <3>4. Registering(s)'
      BY <1>0, <2>5, <3>2, <3>3 DEF Registering, Whole
    <3> QED BY <2>2, <3>1, <3>2, <3>4 DEF Licensed, Whole
  <2>6. CASE pc[s] = "license"
    <3>1. /\ file'["license"] = s /\ file'["device"] = file["device"] /\ file'["id"] = file["id"]
          /\ pc'[s] = "install" /\ bound' = bound
      BY <1>8, <2>1, <2>6 DEF Write, Binds, At, After, Files, Secrets
    <3>2. Licensed' /\ Registering(s)'
      BY <1>0, <2>6, <3>1 DEF Licensed, Registering, Whole, Late
    <3> QED BY <2>2, <3>2
  <2> QED BY <2>1, <2>3, <2>4, <2>5, <2>6 DEF Files, Secrets
<1>9. CASE Keep(s)
  <2>1. half' = half /\ half[s] = "no" /\ file' = file
    BY <1>9 DEF Keep
  <2>2. Deciding(s)'
    BY <2>1 DEF Deciding
  <2>3. CASE pc' = [pc EXCEPT ![s] = "failed"] /\ bound' = bound
    BY <1>0, <2>1, <2>2, <2>3 DEF Licensed, Registering, Whole, Late, Ended
  <2>4. CASE Whole(At(s)) /\ Binds(s, file[At(s)]) /\ Goto(s, After(pc[s]))
    <3>1. pc' = [pc EXCEPT ![s] = After(pc[s])]
      BY <2>4 DEF Goto
    <3>2. CASE pc[s] = "last"
      <4>1. bound' = bound /\ pc'[s] = "done"
        BY <2>4, <3>1, <3>2 DEF Binds, After
      <4> QED BY <1>0, <2>1, <2>2, <3>1, <4>1 DEF Licensed, Registering, Whole, Late, Ended
    <3>3. CASE pc[s] = "id"
      <4>1. /\ bound' = [bound EXCEPT ![s] = [id |-> file["id"], device |-> bound[s].device]]
            /\ pc'[s] = "device" /\ Whole("id") /\ pc[s] \notin Late
        BY <2>4, <3>1, <3>3 DEF Binds, After, At, Late, Ended
      <4>2. Licensed'
        BY <1>0, <2>1, <3>1, <4>1 DEF Licensed, Whole
      <4>3. Registering(s)'
        BY <2>1, <4>1 DEF Registering, Whole
      <4> QED BY <2>2, <4>2, <4>3
    <3>4. CASE pc[s] = "device"
      <4>1. /\ bound' = [bound EXCEPT ![s] = [id |-> bound[s].id, device |-> file["device"]]]
            /\ pc'[s] = "register" /\ Whole("device") /\ pc[s] \notin Late
        BY <2>4, <3>1, <3>4 DEF Binds, After, At, Late, Ended
      <4>2. Licensed'
        BY <1>0, <2>1, <3>1, <4>1 DEF Licensed, Whole
      <4>3. Registering(s)'
        BY <1>0, <2>1, <3>4, <4>1 DEF Registering, Whole
      <4> QED BY <2>2, <4>2, <4>3
    <3>5. pc[s] \in {"last", "id", "device"}
      BY <1>9 DEF Keep, Keeps, At
    <3> QED BY <3>2, <3>3, <3>4, <3>5
  <2> QED BY <1>9, <2>3, <2>4 DEF Keep, Goto
<1>10. CASE Unlink(s)
  <2>1. /\ pc[s] \in {"stale_key", "stale_license"} /\ pc' = [pc EXCEPT ![s] = After(pc[s])]
        /\ UNCHANGED <<half, bound>>
    BY <1>10 DEF Unlink, Goto
  <2>2. file' = file \/ file' = [file EXCEPT !["key"] = NoSession]
        \/ file' = [file EXCEPT !["license"] = NoSession]
    BY <1>10 DEF Unlink
  <2>3. pc'[s] \in {"stale_license", "onboard"} /\ half[s] = "no" /\ pc[s] \notin Late
    BY <2>1 DEF After, Halves, Files, Secrets, Late, Ended
  <2>4. Licensed'
    BY <1>0, <2>1, <2>2, <2>3 DEF Licensed, Whole, Files, Secrets
  <2>5. Deciding(s)' /\ Registering(s)'
    BY <2>1, <2>3 DEF Deciding, Registering
  <2> QED BY <2>4, <2>5
<1> QED BY <1>1, <1>3, <1>4, <1>5, <1>6, <1>7, <1>8, <1>9, <1>10 DEF Step, TimeOut, Refused, WriteFails

LEMMA NextDevice == TypeInv /\ Alone /\ DeviceInv /\ [LoginNext]_loginVars => DeviceInv'
<1> SUFFICES ASSUME TypeInv, Alone, DeviceInv, [LoginNext]_loginVars, ~overlapped'
             PROVE  Licensed' /\ \A s \in Session : Deciding(s)' /\ Registering(s)'
  BY DEF DeviceInv
<1>0. TypeInv'
  BY LoginNextType
<1>1. ASSUME NEW s \in Session, Start(s)
      PROVE  Licensed' /\ \A t \in Session : Deciding(t)' /\ Registering(t)'
  <2>1. /\ pc[s] = "idle" /\ UNCHANGED <<half, file, bound>> /\ ~overlapped
        /\ pc' = [pc EXCEPT ![s] = "token"] \/ pc' = [pc EXCEPT ![s] = "poll"]
    BY <1>1 DEF Start, Goto
  <2>2. Licensed /\ \A t \in Session : Deciding(t) /\ Registering(t)
    BY <2>1 DEF DeviceInv
  <2>3. half[s] = "no"
    BY <2>1 DEF TypeInv, Halves, Files, Secrets
  <2>4. Licensed'
    BY <2>1, <2>2 DEF Licensed, Whole, Late, Ended, TypeInv, LoginTypeOK
  <2>5. ASSUME NEW t \in Session PROVE Deciding(t)' /\ Registering(t)'
    BY <2>1, <2>2, <2>3 DEF Deciding, Registering, Whole, At, TypeInv, LoginTypeOK
  <2> QED BY <2>4, <2>5
<1>2. ASSUME NEW s \in Session, Browse(s) \/ Step(s) \/ Kill(s)
      PROVE  Licensed' /\ \A t \in Session : Deciding(t)' /\ Registering(t)'
  <2>1. ~overlapped
    BY <1>2 DEF Browse, Step, Kill, Poll, TimeOut, Refused, Decide, Open, Write, Keep, WriteFails, Unlink,
                Answered, Install, SkipInstall, Fail
  <2>2. s \in Active
    BY <1>2 DEF Browse, Step, Kill, Poll, TimeOut, Refused, Decide, Open, Write, Keep, Keeps, At, WriteFails,
                Unlink, Answered, Install, SkipInstall, Fail, Active, TypeInv, Halves, Files, Secrets, Ended
  <2>3. ASSUME NEW t \in Session, t # s PROVE pc'[t] = pc[t] /\ half'[t] = half[t]
    BY <1>2, <2>3 DEF Browse, Step, Kill, Poll, TimeOut, Refused, Decide, Open, Write, Keep, WriteFails, Unlink,
                Answered, Install, SkipInstall, Fail, Goto, Drop, TypeInv, LoginTypeOK
  <2>4. Licensed' /\ Deciding(s)' /\ Registering(s)'
    BY <1>0, <1>2, <2>1, StepDevice
  <2>5. ASSUME NEW t \in Session, t # s PROVE Deciding(t)' /\ Registering(t)'
    BY <2>1, <2>2, <2>3, <2>5, OthersKeep
  <2> QED BY <2>4, <2>5
<1>3. CASE Reinstall \/ ReinstallEnds \/ UNCHANGED loginVars
  <2>1. UNCHANGED <<pc, half, file, bound>>
    BY <1>3 DEF Reinstall, ReinstallEnds, loginVars
  <2>2. overlapped' = overlapped \/ overlapped' = (overlapped \/ Active # {})
    BY <1>3 DEF Reinstall, ReinstallEnds, loginVars
  <2>3. ~overlapped
    BY <2>2
  <2> QED BY <2>1, <2>3 DEF DeviceInv, Licensed, Deciding, Registering, Whole, At
<1> QED BY <1>1, <1>2, <1>3 DEF LoginNext

(* A license on disk belongs to the device on disk, unless logins overlap                     *)
(* (device_id, device_thumbprint, register_device).                                  *)
THEOREM LicenseOfDevice == LoginSpec => []BoundToDevice
<1>1. TypeInv /\ DeviceInv => BoundToDevice
  <2> SUFFICES ASSUME TypeInv, DeviceInv, ~overlapped, Whole("license")
               PROVE  bound[file.license] = [id |-> file.id, device |-> file.device]
    BY DEF BoundToDevice
  <2>1. bound[file["license"]].id = file["id"] /\ bound[file["license"]].device = file["device"]
    BY DEF DeviceInv, Licensed
  <2>2. bound[file["license"]] \in [id : Session \cup {NoSession}, device : Session \cup {NoSession}]
    BY DEF TypeInv, LoginTypeOK, Whole
  <2> QED BY <2>1, <2>2
<1> QED BY <1>1, LoginInitType, LoginNextType, InitAlone, NextAlone, InitDevice, NextDevice, PTL DEF LoginSpec

-----------------------------------------------------------------------------
(* The credentials. What session s has left of those before it, and made of its own, by        *)
(* where it is.                                                                *)
Has(s) ==
  /\ pc[s] \in {"poll", "token"} => OneLogin
  /\ pc[s] \in {"stale_key", "stale_license"} =>
       file["token"] = s /\ (Whole("key") /\ Whole("license") => file["key"] = file["license"])
  /\ pc[s] = "stale_license" => ~Whole("key")
  /\ pc[s] \in {"onboard", "key"} => file["token"] = s /\ ~Whole("key") /\ ~Whole("license")
  /\ pc[s] \in {"id", "device", "register", "license"} =>
       file["token"] = s /\ file["key"] = s /\ ~Whole("license")
  /\ pc[s] \in {"install", "last"} => file["token"] = s /\ file["key"] = s /\ file["license"] = s

Quiet == ~overlapped /\ ~locked /\ ~between

MixInv ==
  Quiet =>
    /\ installed.license = installed.bearer
    /\ reinstall = "download" => bearer = ReadToken
    /\ Active = {} => OneLogin
    /\ \A s \in Active : Has(s)

LEMMA OneLoginIs ==
  OneLogin <=> /\ Whole("token") /\ Whole("key") => file["token"] = file["key"]
               /\ Whole("token") /\ Whole("license") => file["token"] = file["license"]
               /\ Whole("key") /\ Whole("license") => file["key"] = file["license"]
  BY DEF OneLogin, Secrets

LEMMA InitMix == LoginInit => MixInv
  BY LoginAssumption DEF LoginInit, MixInv, OneLogin, Whole, Active, Secrets, Files

(* Wherever s ends, what it leaves is of one login.                                   *)
LEMMA HasOne ==
  ASSUME NEW s \in Active, TypeInv, Has(s), pc[s] \notin {"stale_key", "stale_license"}
  PROVE  OneLogin
<1>1. pc[s] \in PCs /\ pc[s] \notin Ended \cup {"idle"}
  BY DEF TypeInv, LoginTypeOK, PCs, Active
<1> QED BY <1>1, OneLoginIs DEF Has, PCs, Files, Secrets

LEMMA StepMix ==
  ASSUME TypeInv, NEW s \in Active, Has(s), Browse(s) \/ Step(s) \/ Kill(s), ~locked', ~between'
  PROVE  IF pc'[s] \in Ended THEN OneLogin' ELSE Has(s)'
<1> USE LoginAssumption DEF TypeInv, LoginTypeOK
<1>0. s \in Session
  BY DEF Active
<1>1. CASE Browse(s)
  BY <1>0, <1>1, HasOne DEF Browse, Has, OneLogin, Whole, ReadToken, Ended
<1>2. ASSUME file' = file, pc'[s] \in Ended, pc[s] \notin {"stale_key", "stale_license"}
      PROVE  OneLogin'
  BY <1>2, HasOne DEF OneLogin, Whole
<1>3. CASE TimeOut(s) \/ Refused(s) \/ WriteFails(s)
  <2>1. file' = file /\ pc'[s] = "failed"
    BY <1>0, <1>3 DEF TimeOut, Refused, WriteFails, Fail, Goto
  <2>2. pc[s] \notin {"stale_key", "stale_license"}
    BY <1>3 DEF TimeOut, Refused, WriteFails, At, Files, Secrets
  <2> QED BY <1>2, <2>1, <2>2 DEF Ended
<1>4. CASE Kill(s)
  <2>1. file' = file /\ pc'[s] = "killed"
    BY <1>0, <1>4 DEF Kill, Goto
  <2>2. pc[s] \notin {"stale_key", "stale_license"}
    BY <1>4 DEF Kill
  <2> QED BY <1>2, <2>1, <2>2 DEF Ended
<1>5. CASE Poll(s)
  <2>1. file' = file /\ pc[s] = "poll" /\ pc'[s] \in {"poll", "token"}
    BY <1>0, <1>5 DEF Poll, Goto
  <2>2. OneLogin'
    BY <2>1 DEF Has, OneLogin, Whole
  <2> QED BY <2>1, <2>2 DEF Has, Ended
<1>6. CASE Decide(s)
  BY <1>0, <1>6 DEF Decide, Has, OneLogin, Whole, At, Ended
<1>7. CASE Open(s)
  <2>1. pc' = pc /\ At(s) \in Files /\ file' = [file EXCEPT ![At(s)] = Cut]
    BY <1>7 DEF Open
  <2>2. CASE pc[s] = "token"
    <3>1. ~Whole("token")' /\ file'["key"] = file["key"] /\ file'["license"] = file["license"] /\ OneLogin
      BY <2>1, <2>2 DEF Whole, At, Files, Secrets, Has
    <3>2. OneLogin'
      BY <3>1, OneLoginIs DEF OneLogin, Whole, Secrets
    <3> QED BY <2>1, <2>2, <3>2 DEF Has, Ended
  <2>3. CASE pc[s] = "key"
    <3>1. ~Whole("key")' /\ file'["token"] = file["token"] /\ file'["license"] = file["license"]
      BY <2>1, <2>3 DEF Whole, At, Files, Secrets
    <3> QED BY <2>1, <2>3, <3>1 DEF Has, Whole, Ended
  <2>4. CASE pc[s] = "license"
    <3>1. ~Whole("license")' /\ file'["token"] = file["token"] /\ file'["key"] = file["key"]
      BY <2>1, <2>4 DEF Whole, At, Files, Secrets
    <3> QED BY <2>1, <2>4, <3>1 DEF Has, Whole, Ended
  <2>5. CASE pc[s] \in {"id", "device", "last"}
    <3>1. \A f \in Secrets : file'[f] = file[f]
      BY <2>1, <2>5 DEF At, Files, Secrets
    <3> QED BY <2>1, <2>5, <3>1 DEF Has, Whole, Ended, Secrets
  <2> QED BY <2>1, <2>2, <2>3, <2>4, <2>5 DEF At, Files, Secrets
<1>8. CASE Write(s)
  <2>1. pc[s] \in Files \cup {"last"} /\ At(s) \in Files
        /\ file' = [file EXCEPT ![At(s)] = s] /\ pc'[s] = After(pc[s])
    BY <1>0, <1>8 DEF Write, Halves, Goto, At, Files
  <2>2. CASE pc[s] = "token"
    <3>1. file'["token"] = s /\ file'["key"] = file["key"] /\ file'["license"] = file["license"]
          /\ pc'[s] = "stale_key" /\ OneLogin
      BY <2>1, <2>2 DEF At, Files, Secrets, Has, After
    <3> QED BY <3>1, OneLoginIs DEF Has, Whole, Ended
  <2>3. CASE pc[s] = "key"
    <3>1. file'["key"] = s /\ file'["token"] = file["token"] /\ file'["license"] = file["license"]
          /\ pc'[s] = "id"
      BY <2>1, <2>3 DEF At, Files, Secrets, After
    <3> QED BY <2>3, <3>1 DEF Has, Whole, Ended
  <2>4. CASE pc[s] = "license"
    <3>1. file'["license"] = s /\ file'["token"] = file["token"] /\ file'["key"] = file["key"]
          /\ pc'[s] = "install"
      BY <2>1, <2>4 DEF At, Files, Secrets, After
    <3> QED BY <2>4, <3>1 DEF Has, Whole, Ended
  <2>5. CASE pc[s] \in {"id", "device", "last"}
    <3>1. file'["token"] = file["token"] /\ file'["key"] = file["key"] /\ file'["license"] = file["license"]
      BY <2>1, <2>5 DEF At, Files, Secrets
    <3>2. CASE pc[s] = "last"
      <4>1. pc'[s] = "done"
        BY <2>1, <3>2 DEF After
      <4>2. OneLogin'
        BY <3>1, <3>2, HasOne DEF OneLogin, Whole, Secrets
      <4> QED BY <4>1, <4>2 DEF Ended
    <3>3. CASE pc[s] \in {"id", "device"}
      BY <2>1, <3>1, <3>3 DEF Has, Whole, Ended, After
    <3> QED BY <2>5, <3>2, <3>3
  <2> QED BY <2>1, <2>2, <2>3, <2>4, <2>5 DEF Files, Secrets
<1>9. CASE Keep(s)
  <2>1. file' = file /\ pc[s] \in {"id", "device", "last"}
        /\ (pc'[s] = "failed" \/ pc'[s] = After(pc[s]))
    BY <1>0, <1>9 DEF Keep, Keeps, At, Goto
  <2>2. CASE pc'[s] \in Ended
    BY <1>2, <2>1, <2>2
  <2>3. CASE pc'[s] \notin Ended
    BY <2>1, <2>3 DEF Has, Whole, After, Ended
  <2> QED BY <2>2, <2>3
<1>10. CASE Unlink(s)
  <2>1. PICK f \in {"key", "license"} :
          /\ pc[s] = IF f = "key" THEN "stale_key" ELSE "stale_license"
          /\ pc'[s] = After(pc[s])
          /\ file' = [file EXCEPT ![f] = NoSession]
    BY <1>0, <1>10 DEF Unlink, Goto
  <2>2. CASE f = "key"
    <3>1. file'["key"] = NoSession /\ file'["token"] = file["token"] /\ pc[s] = "stale_key"
          /\ pc'[s] = "stale_license"
      BY <2>1, <2>2 DEF After, Files, Secrets
    <3> QED BY <3>1 DEF Has, Whole, Ended
  <2>3. CASE f = "license"
    <3>1. file'["license"] = NoSession /\ file'["token"] = file["token"] /\ file'["key"] = file["key"]
          /\ pc[s] = "stale_license" /\ pc'[s] = "onboard"
      BY <2>1, <2>3 DEF After, Files, Secrets
    <3> QED BY <3>1 DEF Has, Whole, Ended
  <2> QED BY <2>2, <2>3
<1>11. CASE Answered(s) \/ Install(s) \/ SkipInstall(s)
  <2>1. file' = file /\ pc[s] \in {"onboard", "register", "install"} /\ pc'[s] = After(pc[s])
    BY <1>0, <1>11 DEF Answered, Install, SkipInstall, Goto
  <2> QED BY <2>1 DEF Has, Whole, After, Ended
<1> QED BY <1>1, <1>3, <1>4, <1>5, <1>6, <1>7, <1>8, <1>9, <1>10, <1>11 DEF Step

LEMMA NextMix == TypeInv /\ Alone /\ MixInv /\ [LoginNext]_loginVars => MixInv'
<1> SUFFICES ASSUME TypeInv, Alone, MixInv, [LoginNext]_loginVars, Quiet' PROVE MixInv'
  BY DEF MixInv
<1>0. TypeInv' /\ Alone'
  BY LoginNextType, NextAlone
<1>1. ASSUME NEW s \in Session, Start(s) PROVE MixInv'
  <2>1. /\ pc[s] = "idle" /\ UNCHANGED <<file, rvars>> /\ Active = {} /\ Quiet /\ reinstall = "idle"
        /\ pc' = [pc EXCEPT ![s] = "token"] \/ pc' = [pc EXCEPT ![s] = "poll"]
    BY <1>1 DEF Start, Goto, Quiet
  <2>2. OneLogin' /\ installed'.license = installed'.bearer /\ reinstall' = "idle"
    BY <2>1 DEF MixInv, OneLogin, Whole
  <2>3. \A t \in Active' : t = s
    <3>1. \A t \in Session : t # s => pc'[t] = pc[t]
      BY <2>1 DEF TypeInv, LoginTypeOK
    <3>2. \A t \in Session : pc[t] \in Ended \cup {"idle"}
      BY <2>1 DEF Active
    <3> QED BY <3>1, <3>2 DEF Active
  <2>4. Has(s)'
    BY <2>1, <2>2 DEF Has, TypeInv, LoginTypeOK
  <2> QED BY <2>2, <2>3, <2>4 DEF MixInv
<1>2. ASSUME NEW s \in Session, Browse(s) \/ Step(s) \/ Kill(s) PROVE MixInv'
  <2>1. Quiet
    <3>1. overlapped' = overlapped
      BY <1>2 DEF history, Browse, Step, Kill, Poll, TimeOut, Refused, Decide, Open, Write, Keep, WriteFails, Unlink,
                  Answered, Install, SkipInstall, Fail
    <3>2. locked' = locked \/ locked' = TRUE
      BY <1>2 DEF history, Browse, Step, Kill, Poll, TimeOut, Refused, Decide, Open, Write, Keep, WriteFails, Unlink,
                  Answered, Install, SkipInstall, Fail
    <3>3. between' = between \/ between' = (between \/ pc[s] \in {"stale_key", "stale_license"})
      BY <1>2 DEF history, Browse, Step, Kill, Poll, TimeOut, Refused, Decide, Open, Write, Keep, WriteFails, Unlink,
                  Answered, Install, SkipInstall, Fail
    <3> QED BY <3>1, <3>2, <3>3 DEF Quiet, TypeInv, LoginTypeOK
  <2>2. s \in Active
    BY <1>2 DEF Browse, Step, Kill, Poll, TimeOut, Refused, Decide, Open, Write, Keep, Keeps, At, WriteFails,
                Unlink, Answered, Install, SkipInstall, Fail, Active, TypeInv, Halves, Files, Secrets, Ended
  <2>3. ASSUME NEW t \in Session, t # s PROVE pc'[t] = pc[t]
    BY <1>2, <2>3 DEF Browse, Step, Kill, Poll, TimeOut, Refused, Decide, Open, Write, Keep, WriteFails, Unlink,
                Answered, Install, SkipInstall, Fail, Goto, TypeInv, LoginTypeOK
  <2>4. IF pc'[s] \in Ended THEN OneLogin' ELSE Has(s)'
    BY <1>2, <2>1, <2>2, StepMix DEF MixInv, Quiet
  <2>5. reinstall = "idle" /\ reinstall' = reinstall
    <3>1. reinstall = "idle"
      BY <2>1, <2>2 DEF Alone, OneCommand, Quiet, TypeInv, LoginTypeOK
    <3>2. reinstall' = reinstall
      BY <1>2 DEF Browse, Step, Kill, Poll, TimeOut, Refused, Decide, Open, Write, Keep, WriteFails, Unlink,
                  Answered, Install, SkipInstall, Fail
    <3> QED BY <3>1, <3>2
  <2>6. installed'.license = installed'.bearer
    <3>1. CASE Install(s)
      <4>1. file["license"] = s
        BY <2>1, <2>2, <3>1 DEF MixInv, Has, Install
      <4> QED BY <3>1, <4>1 DEF Install
    <3>2. CASE ~Install(s)
      <4>1. installed' = installed
        BY <1>2, <3>2 DEF Browse, Step, Kill, Poll, TimeOut, Refused, Decide, Open, Write, Keep, WriteFails,
                    Unlink, Answered, SkipInstall, Fail
      <4> QED BY <2>1, <4>1 DEF MixInv
    <3> QED BY <3>1, <3>2
  <2>7. \A t \in Session : t # s => t \notin Active'
    BY <2>1, <2>2, <2>3, OnlyOne DEF Active, Quiet
  <2>8. pc'[s] # "idle"
    BY <1>2, <2>2 DEF Browse, Step, Kill, Poll, TimeOut, Refused, Decide, Open, Write, Keep, Keeps, At, WriteFails,
                Unlink, Answered, Install, SkipInstall, Fail, Goto, After, Active, TypeInv, LoginTypeOK, Halves, Files,
                Secrets, Ended
  <2>9. (Active = {} => OneLogin)' /\ (\A t \in Active : Has(t))'
    BY <2>4, <2>7, <2>8 DEF Active
  <2> QED BY <2>5, <2>6, <2>9 DEF MixInv
<1>3. CASE Reinstall
  <2>1. Active = {} /\ Quiet /\ UNCHANGED <<pc, file, installed>> /\ bearer' = ReadToken
    BY <1>3 DEF Reinstall, Quiet
  <2> QED BY <2>1 DEF MixInv, Active, OneLogin, Whole, ReadToken
<1>4. CASE ReinstallEnds
  <2>1. Quiet /\ UNCHANGED <<pc, file>> /\ reinstall = "download" /\ reinstall' = "idle"
    BY <1>4 DEF ReinstallEnds, Quiet
  <2>2. Active = {} /\ OneLogin /\ bearer = ReadToken
    BY <2>1 DEF MixInv, Alone, OneCommand, Quiet
  <2>3. installed'.license = installed'.bearer
    <3>1. CASE installed' = installed
      BY <2>1, <3>1 DEF MixInv
    <3>2. CASE bearer \in Session /\ Whole("license")
               /\ installed' = [bearer |-> bearer, license |-> file["license"]]
      <4>1. bearer = file["license"]
        BY <2>2, <3>2, OneLoginIs, LoginAssumption DEF ReadToken
      <4> QED BY <3>2, <4>1
    <3>3. CASE installed' = [bearer |-> bearer, license |-> bearer]
      BY <3>3
    <3> QED BY <1>4, <3>1, <3>2, <3>3 DEF ReinstallEnds
  <2> QED BY <2>1, <2>2, <2>3 DEF MixInv, Active, OneLogin, Whole
<1>5. CASE UNCHANGED loginVars
  BY <1>5 DEF loginVars, MixInv, Quiet, Active, OneLogin, Whole, Has, ReadToken
<1> QED BY <1>1, <1>2, <1>3, <1>4, <1>5 DEF LoginNext

(* Token, API key, license and installed runtime are of one login, with the exceptions that     *)
(* NoMixture names (login, read_token, install_from_host).                               *)
THEOREM OneLoginAtATime == LoginSpec => []NoMixture
<1>1. TypeInv /\ MixInv => NoMixture
  <2> SUFFICES ASSUME TypeInv, MixInv, Quiet,
                      ~\E s \in Session : pc[s] \in {"stale_key", "stale_license"}
               PROVE  OneLogin /\ installed.license = installed.bearer
    BY DEF NoMixture, Quiet, MixInv
  <2>1. CASE Active = {}
    BY <2>1 DEF MixInv
  <2>2. ASSUME NEW s \in Active PROVE OneLogin
    BY <2>2, HasOne DEF MixInv, Active
  <2> QED BY <2>1, <2>2 DEF MixInv
<1> QED BY <1>1, LoginInitType, LoginNextType, InitAlone, NextAlone, InitMix, NextMix, PTL DEF LoginSpec
=============================================================================
