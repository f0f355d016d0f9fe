------------------------------- MODULE Session -------------------------------
(***************************************************************************)
(* One connection at the level of bytes: transfer_all (utils.c), the       *)
(* packets that client_loop and process_solutions build and take apart     *)
(* (server.c), and the timers around them.                                 *)
(*                                                                         *)
(* A byte is <<m, i>>, the i-th byte of the packet for message m.  The     *)
(* first two are its length.  Downstream m is the welcome packet or a      *)
(* solution; upstream the packet m is the checker's answer to m.  The ends *)
(* of a connection (reset, close) are in JudgeServer: no byte comes after  *)
(* them.                                                                   *)
(***************************************************************************)
EXTENDS Integers, Sequences, SequencesExt

CONSTANTS
  Solutions,
  Welcome,            (* welcome_pkt                                        *)
  NoMessage,          (* the null pointer, and no message                   *)
  Length,             (* Length[m]: bytes behind the length field           *)
  AnswerLength,       (* ... of the compilers list and of a result          *)
  LengthModulus,      (* 2^16, the range of the length field                *)
  SocketBuffer,       (* bytes the kernel keeps for each direction          *)
  RECV_TIMEOUT_SEC, RECV_MAX_TIMEOUT,
  SEND_TIMEOUT_SEC, SEND_MAX_TIMEOUT,
  MaxErrors           (* bound: calls that fail for another reason          *)

Messages == Solutions \cup {Welcome}

ASSUME MessagesAssumption == NoMessage \notin Messages /\ Welcome \notin Solutions
ASSUME LengthsAssumption ==
  /\ Length \in [Messages -> Nat \ {0}]
  /\ LengthModulus \in Nat
  /\ AnswerLength \in Nat \ {0} /\ AnswerLength < LengthModulus
  /\ Length[Welcome] < LengthModulus
ASSUME TimersAssumption ==
  /\ RECV_TIMEOUT_SEC \in Nat \ {0} /\ RECV_MAX_TIMEOUT \in Nat \ {0}
  /\ SEND_TIMEOUT_SEC \in Nat \ {0} /\ SEND_MAX_TIMEOUT \in Nat \ {0}

VARIABLES
  (* the thread of the client                                               *)
  pc,
  sln,                (* the message whose packet is in send_pkt            *)
  offset,             (* cur_data_ptr - data, in a send_all                 *)
  received,           (* the bytes a recv_all has so far                    *)
  res_len,
  checking_solution, last_recv_delay, last_send_delay,
  (* the connection: bytes under way                                        *)
  down, up,
  (* the checker                                                            *)
  got,                (* bytes of the packet it is reading                  *)
  answering, answered_bytes,
  astray,             (* it has taken something else for a packet           *)
  errors,
  (* history, read by the properties alone                                  *)
  sent, read,         (* packets sent and packets the checker has read      *)
  answered, posted,   (* answers sent, results posted                       *)
  cut_down, cut_up,   (* a failed call has cut a packet                     *)
  stalled, waited,    (* seconds of timeouts: sending, and waiting for the  *)
                      (* answer to, the present solution                    *)
  slow_send, slow_recv, (* ... and whether there were any before it         *)
  given_up            (* for which timeout the client was given up          *)

thread == <<sln, offset, received, res_len, checking_solution>>
timers == <<last_recv_delay, last_send_delay>>
checker == <<got, answering, answered_bytes, astray, read, answered>>
clocks == <<stalled, waited, slow_send, slow_recv, given_up>>
vars == <<pc, thread, timers, down, up, checker, errors, sent, posted, cut_down,
          cut_up, clocks>>

Goto(l) == pc' = l

Packet(m, first, last) == [i \in 1..(last - first + 1) |-> <<m, first + i - 1>>]

(* Seeded bug: the opcode is not counted.                                   *)
OpcodeForgotten(m) == Length[m] - 1

pkt_length(m) == Length[m]

(* What the length field says: htons(pkt_length) keeps 16 bits; that of the *)
(* welcome packet is a literal.                                             *)
Announced(m) == IF m = Welcome THEN Length[m] ELSE pkt_length(m) % LengthModulus
Total(m) == 2 + Length[m]
-----------------------------------------------------------------------------
(* transfer_all.                                                            *)

(* Seeded bug: one call of send or recv is taken to transfer everything.    *)
AnyProgress(transferred, data_len) == transferred > 0

Complete(transferred, data_len) == transferred = data_len

(* send takes what fits into the socket's buffer ...                        *)
SendSome(m) ==
  \E n \in 1..(Total(m) - offset) :
    /\ Len(down) + n <= SocketBuffer
    /\ down' = down \o Packet(m, offset + 1, offset + n)
    /\ offset' = offset + n

(* ... and fails with EAGAIN if that is nothing for SEND_TIMEOUT_SEC.       *)
NothingSent == Len(down) = SocketBuffer

(* recv gives what is there: the chunks it can add to a recv_all of len     *)
(* bytes, which makes no call at all for len = 0 ...                        *)
Chunks(len) ==
  {SubSeq(up, 1, n) : n \in IF len = 0 THEN {0}
                            ELSE {n \in 1..(len - Len(received)) : n <= Len(up)}}
Recv(chunk) == up' = SubSeq(up, Len(chunk) + 1, Len(up))

(* ... and fails with EAGAIN if that is nothing for RECV_TIMEOUT_SEC.       *)
NothingReceived == up = <<>>

(* recv_all fails: what it had received is lost.                            *)
RecvFails(lost) ==
  /\ received' = <<>>
  /\ cut_up' = (cut_up \/ lost)
  /\ UNCHANGED <<sln, offset, res_len, checking_solution, down, up, checker, sent,
                 posted, cut_down>>

(* Another error than EAGAIN and ECONNRESET.                                *)
OtherError == errors < MaxErrors /\ errors' = errors + 1
-----------------------------------------------------------------------------
(* client_loop up to the loop: the handshake.                               *)

(* What send_all returns is not looked at.                                  *)
SendWelcome ==
  /\ pc = "welcome"
  /\ \/ /\ SendSome(Welcome)
        /\ IF Complete(offset', Total(Welcome)) THEN Goto("hello_len") ELSE UNCHANGED pc
        /\ UNCHANGED <<cut_down, errors>>
     \/ /\ (NothingSent /\ UNCHANGED errors) \/ OtherError
        /\ Goto("hello_len")
        /\ cut_down' = TRUE
        /\ UNCHANGED <<down, offset>>
  /\ UNCHANGED <<sln, received, res_len, checking_solution, timers, up, checker,
                 sent, posted, cut_up, clocks>>

(* The length that two received bytes stand for; anything if they are not   *)
(* the length field of a packet.                                            *)
Lengths(bytes) ==
  IF \E m \in Messages : bytes = Packet(m, 1, 2) THEN {AnswerLength}
                                                 ELSE 0..(LengthModulus - 1)

RecvLength(from, to) ==
  /\ pc = from
  /\ \E chunk \in Chunks(2) :
       LET bytes == received \o chunk
       IN  /\ Recv(chunk)
           /\ IF Complete(Len(bytes), 2)
              THEN Goto(to) /\ received' = <<>> /\ res_len' \in Lengths(bytes)
              ELSE received' = bytes /\ UNCHANGED <<pc, res_len>>
  /\ UNCHANGED <<sln, offset, checking_solution, timers, down, checker, errors, sent,
                 posted, cut_down, cut_up, clocks>>

(* The compilers list; with another opcode the client is sent away.         *)
RecvHello ==
  /\ pc = "hello_pkt"
  /\ \E chunk \in Chunks(res_len) :
       /\ Recv(chunk)
       /\ IF Complete(Len(received \o chunk), res_len)
          THEN pc' \in {"loop", "gone"} /\ received' = <<>>
          ELSE received' = received \o chunk /\ UNCHANGED pc
  /\ UNCHANGED <<sln, offset, res_len, checking_solution, timers, down, checker,
                 errors, sent, posted, cut_down, cut_up, clocks>>

HelloFails ==
  /\ pc \in {"hello_len", "hello_pkt"}
  /\ (NothingReceived /\ UNCHANGED errors) \/ OtherError
  /\ Goto("gone")
  /\ RecvFails(FALSE)
  /\ UNCHANGED <<timers, clocks>>
-----------------------------------------------------------------------------
(* process_solutions.                                                       *)

(* server_running is 0.                                                     *)
LoopEnds ==
  /\ pc = "loop"
  /\ Goto("gone")
  /\ UNCHANGED <<thread, timers, down, up, checker, errors, sent, posted, cut_down,
                 cut_up, clocks>>

(* Nothing is queued, or a solution is taken and its packet built.          *)
ProcessSolutions ==
  /\ pc = "loop"
  /\ \/ /\ Goto("recv_len")
        /\ UNCHANGED <<thread, clocks>>
     \/ /\ \E s \in Solutions \ {sent[i] : i \in DOMAIN sent} :
             sln' = s /\ checking_solution' = s
        /\ offset' = 0
        /\ Goto("send")
        /\ slow_send' = (slow_send \/ stalled > 0) /\ stalled' = 0
        /\ slow_recv' = (slow_recv \/ waited > 0) /\ waited' = 0
        /\ UNCHANGED <<received, res_len, given_up>>
  /\ UNCHANGED <<timers, down, up, checker, errors, sent, posted, cut_down, cut_up>>

SendSolution ==
  /\ pc = "send"
  /\ SendSome(sln)
  /\ IF Complete(offset', Total(sln))
     THEN Goto("recv_len") /\ sent' = Append(sent, sln)
     ELSE UNCHANGED <<pc, sent>>
  /\ UNCHANGED <<sln, received, res_len, checking_solution, timers, up, checker,
                 errors, posted, cut_down, cut_up, clocks>>

(* Seeded bug: a timeout after some progress starts the count again.        *)
SinceProgress == IF offset > 0 THEN 0 ELSE last_send_delay + SEND_TIMEOUT_SEC

SendDelay == last_send_delay + SEND_TIMEOUT_SEC

(* The packet is sent again from its first byte.                            *)
SendAgain ==
  /\ offset' = 0
  /\ cut_down' = (cut_down \/ offset > 0)
  /\ UNCHANGED <<sln, received, res_len, checking_solution, down, up, checker, sent,
                 posted, cut_up>>

SendTimeout ==
  /\ pc = "send"
  /\ NothingSent
  /\ SendAgain
  /\ last_send_delay' = SendDelay
  /\ stalled' = Min({stalled + SEND_TIMEOUT_SEC, SEND_MAX_TIMEOUT})
  /\ IF last_send_delay' >= SEND_MAX_TIMEOUT
     THEN Goto("gone") /\ given_up' = "send"
     ELSE UNCHANGED <<pc, given_up>>
  /\ UNCHANGED <<last_recv_delay, errors, waited, slow_send, slow_recv>>

SendError ==
  /\ pc = "send"
  /\ OtherError
  /\ SendAgain
  /\ UNCHANGED <<pc, timers, clocks>>
-----------------------------------------------------------------------------
(* The rest of client_loop's loop.                                          *)

(* Seeded bug: the limit is compared before the delay is added.             *)
OneRoundEarly(delay) == delay + RECV_TIMEOUT_SEC >= RECV_MAX_TIMEOUT

Hung(delay) == delay >= RECV_MAX_TIMEOUT

(* The checker was silent for RECV_TIMEOUT_SEC.                             *)
RecvTimeout ==
  /\ pc = "recv_len"
  /\ NothingReceived
  /\ RecvFails(received # <<>>)
  /\ \/ /\ checking_solution # NoMessage
        /\ last_recv_delay' = last_recv_delay + RECV_TIMEOUT_SEC
        /\ waited' = waited + RECV_TIMEOUT_SEC
        /\ IF Hung(last_recv_delay') THEN Goto("gone") /\ given_up' = "recv"
                                     ELSE Goto("loop") /\ UNCHANGED given_up
        /\ UNCHANGED slow_recv
     \/ /\ checking_solution = NoMessage
        /\ last_recv_delay' = 0
        /\ waited' = 0 /\ slow_recv' = FALSE
        /\ Goto("loop")
        /\ UNCHANGED given_up
  /\ UNCHANGED <<last_send_delay, errors, stalled, slow_send>>

RecvError ==
  /\ pc = "recv_len"
  /\ OtherError
  /\ Goto("loop")
  /\ RecvFails(received # <<>>)
  /\ UNCHANGED <<timers, clocks>>

(* "Broken packet": also if the rest of it is only late.                    *)
BrokenPacket ==
  /\ pc = "recv_pkt"
  /\ res_len # 0
  /\ (NothingReceived /\ UNCHANGED errors) \/ OtherError
  /\ Goto("loop")
  /\ RecvFails(TRUE)
  /\ UNCHANGED <<timers, clocks>>

(* What a packet can be read as: OP_RESULT for a solution, or (NoMessage)   *)
(* another opcode.  Bytes that are no answer can be read as anything.       *)
Results(bytes) ==
  LET answer == {m \in Messages : bytes = Packet(m, 3, 2 + AnswerLength)}
  IN  IF answer = {} THEN Solutions \cup {NoMessage} ELSE answer

(* For a length of zero realloc frees the buffer the handshake has left and *)
(* gives back NULL; reading the first byte then ends the process.           *)
NoBuffer == res_len = 0

RecvResult ==
  /\ pc = "recv_pkt"
  /\ ~NoBuffer
  /\ \E chunk \in Chunks(res_len) :
       LET bytes == received \o chunk
       IN  /\ Recv(chunk)
           /\ IF Complete(Len(bytes), res_len)
              THEN /\ Goto("loop")
                   /\ received' = <<>>
                   /\ \E s \in Results(bytes) :
                        IF s = NoMessage
                        THEN UNCHANGED <<posted, checking_solution>>
                        ELSE posted' = Append(posted, s) /\ checking_solution' = NoMessage
              ELSE received' = bytes /\ UNCHANGED <<pc, posted, checking_solution>>
  /\ UNCHANGED <<sln, offset, res_len, timers, down, checker, errors, sent, cut_down,
                 cut_up, clocks>>

client_loop ==
  \/ SendWelcome \/ RecvLength("hello_len", "hello_pkt") \/ RecvHello \/ HelloFails
  \/ LoopEnds \/ ProcessSolutions \/ SendSolution \/ SendTimeout \/ SendError
  \/ RecvLength("recv_len", "recv_pkt") \/ RecvTimeout \/ RecvError
  \/ BrokenPacket \/ RecvResult
-----------------------------------------------------------------------------
(* The checker: it reads a packet as long as its length field says, and     *)
(* answers it.  One that has lost its way reads on and says nothing.        *)

CheckerReads ==
  /\ answering = NoMessage
  /\ down # <<>>
  /\ down' = Tail(down)
  /\ LET bytes == Append(got, Head(down))
         m == bytes[1][1]
     IN  \/ /\ astray
            /\ UNCHANGED <<got, answering, astray, read>>
         \/ /\ ~astray
            /\ \/ bytes # Packet(m, 1, Len(bytes))
               \/ Len(bytes) = 2 + Announced(m) /\ Len(bytes) # Total(m)
            /\ astray' = TRUE /\ got' = <<>>
            /\ UNCHANGED <<answering, read>>
         \/ /\ ~astray
            /\ bytes = Packet(m, 1, Len(bytes))
            /\ Len(bytes) # 2 + Announced(m)
            /\ got' = bytes
            /\ UNCHANGED <<answering, astray, read>>
         \/ /\ ~astray
            /\ bytes = Packet(m, 1, Total(m))
            /\ Len(bytes) = 2 + Announced(m)
            /\ got' = <<>> /\ answering' = m /\ read' = Append(read, m)
            /\ UNCHANGED astray
  /\ UNCHANGED <<pc, thread, timers, up, answered_bytes, answered, errors, sent,
                 posted, cut_down, cut_up, clocks>>

CheckerAnswers ==
  /\ answering # NoMessage
  /\ \E n \in 1..(2 + AnswerLength - answered_bytes) :
       /\ Len(up) + n <= SocketBuffer
       /\ up' = up \o Packet(answering, answered_bytes + 1, answered_bytes + n)
       /\ IF answered_bytes + n = 2 + AnswerLength
          THEN /\ answered' = Append(answered, answering)
               /\ answering' = NoMessage /\ answered_bytes' = 0
          ELSE /\ answered_bytes' = answered_bytes + n
               /\ UNCHANGED <<answered, answering>>
  /\ UNCHANGED <<pc, thread, timers, down, got, astray, read, errors, sent, posted,
                 cut_down, cut_up, clocks>>
-----------------------------------------------------------------------------
Init ==
  /\ pc = "welcome"
  /\ sln = NoMessage /\ offset = 0 /\ received = <<>> /\ res_len = 0
  /\ checking_solution = NoMessage
  /\ last_recv_delay = 0 /\ last_send_delay = 0
  /\ down = <<>> /\ up = <<>>
  /\ got = <<>> /\ answering = NoMessage /\ answered_bytes = 0 /\ astray = FALSE
  /\ errors = 0
  /\ sent = <<>> /\ read = <<>> /\ answered = <<>> /\ posted = <<>>
  /\ cut_down = FALSE /\ cut_up = FALSE
  /\ stalled = 0 /\ waited = 0 /\ slow_send = FALSE /\ slow_recv = FALSE
  /\ given_up = "no"

Next == client_loop \/ CheckerReads \/ CheckerAnswers

Spec == Init /\ [][Next]_vars

(* The thread runs; nothing is assumed about the checker.                   *)
FairSpec == Spec /\ WF_vars(client_loop)
-----------------------------------------------------------------------------
(* As long as no failed call has cut a packet and every solution's length   *)
(* fits its field, the checker reads whole packets, the ones that were      *)
(* sent, however send splits them (utils.c:11, server.c:255, 266).          *)
CheckerInStep ==
  /\ ~cut_down
  /\ \A s \in Solutions : sln = s \/ Contains(sent, s) => Length[s] < LengthModulus
  => ~astray /\ IsPrefix(read, <<Welcome>> \o sent)

(* As long as no timeout has cut an answer, the results that are posted are *)
(* the ones the checker has sent, in that order, however recv splits them   *)
(* (utils.c:11, server.c:176-229).                                          *)
ResultsAreAnswers ==
  ~cut_up => posted = <<>> \/ IsPrefix(<<Welcome>> \o posted, answered)

(* A checker is never waited for longer than the limits say, and one that   *)
(* made no earlier call time out gets all of that time.  last_send_delay    *)
(* adds up over solutions, last_recv_delay until a timeout with nothing to  *)
(* check (server.c:181, 188, 270).                                          *)
FullPatience ==
  /\ given_up = "no" => waited < RECV_MAX_TIMEOUT /\ stalled < SEND_MAX_TIMEOUT
  /\ given_up = "recv" /\ ~slow_recv => waited >= RECV_MAX_TIMEOUT
  /\ given_up = "send" /\ ~slow_send => stalled >= SEND_MAX_TIMEOUT

(* A checker that reads nothing, or a byte now and then, does not hold the  *)
(* thread in process_solutions for ever (server.c:266-278).                 *)
SendEnds == pc = "send" ~> pc # "send"

(* An answer that was not cut is posted, unless the client is given up or   *)
(* the server is stopped, however recv splits it (server.c:176-229).        *)
AnswerTaken ==
  \A s \in Solutions : Contains(answered, s) ~> Contains(posted, s) \/ cut_up \/ pc = "gone"
==============================================================================
