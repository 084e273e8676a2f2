----------------------------- MODULE TcpStream -----------------------------
(***************************************************************************)
(* One direction of a connection between CTcpServ (tcp_serv.cpp), whose    *)
(* sockets are non-blocking, and CTcpSock (tcp_sock.cpp, tcpsock.cpp),     *)
(* whose sockets block.  The sender calls send_all() for one message after *)
(* the other, the receiver calls recv_all() for as many bytes; the kernel  *)
(* moves any number of bytes per call of send() and recv().                *)
(*                                                                         *)
(* Bytes are numbered 1, 2, ... through the whole stream, so message m is  *)
(* made of the bytes (m-1)*MsgLen+1 .. m*MsgLen.                           *)
(***************************************************************************)
EXTENDS Integers, Sequences

CONSTANTS
    Senders,     \* directions to look at: who may be the sender
    MsgLen,      \* bytes in a message
    Msgs,        \* how many messages the sender has
    Window,      \* bytes the kernel holds between the two ends
    MaxSignals   \* bound: blocked calls that a signal interrupts

ASSUME StreamAssumption ==
    /\ Senders \subseteq {"server", "client"}
    /\ MsgLen \in Nat \ {0} /\ Msgs \in Nat /\ Window \in Nat \ {0}
    /\ MaxSignals \in Nat

VARIABLES
    sender,   \* who sends in this direction, "server" or "client"
    out,      \* what is left of the message in send_all(); <<>> outside it
    sent,     \* messages send_all() has returned len for
    wire,     \* bytes in the kernel
    closed,   \* "no", "done" (by the sender's choice or death), "error"
    calling,  \* the receiver is inside recv_all()
    in,       \* the bytes this recv_all() has stored into its buffer
    got,      \* all bytes of the buffers recv_all() returned len for
    eof,      \* recv_all() returned 0
    signals   \* interrupted calls so far

senderVars   == <<out, sent>>
receiverVars == <<calling, in, got, eof>>
vars == <<sender, senderVars, wire, closed, receiverVars, signals>>

Message(m) == [k \in 1 .. MsgLen |-> (m - 1) * MsgLen + k]
Room == Window - Len(wire)

Init ==
    /\ sender \in Senders
    /\ out = <<>> /\ sent = 0
    /\ wire = <<>> /\ closed = "no"
    /\ calling = FALSE /\ in = <<>> /\ got = <<>> /\ eof = FALSE
    /\ signals = 0

\* Why send() or recv() may return -1 on a socket that cannot go on: at once if
\* it is non-blocking, after a signal if it blocks.
Errno(nonBlocking, errno) ==
    \/ errno = "EAGAIN" /\ nonBlocking /\ UNCHANGED signals
    \/ errno = "EINTR" /\ ~nonBlocking /\ signals < MaxSignals
           /\ signals' = signals + 1

-----------------------------------------------------------------------------
(* send_all() *)
SendAll ==
    /\ out = <<>> /\ closed = "no" /\ sent < Msgs
    /\ out' = Message(sent + 1)
    /\ UNCHANGED <<sent, wire, closed, receiverVars, signals>>

\* send() takes cnt bytes;  data += cnt; size -= cnt;
M_RestAfter(cnt) == out                    \* without data += cnt
RestAfter(cnt) == SubSeq(out, cnt + 1, Len(out))

SendSome(cnt) ==
    /\ out # <<>> /\ closed = "no"
    /\ cnt <= Len(out) /\ cnt <= Room
    /\ wire' = wire \o SubSeq(out, 1, cnt)
    /\ out' = RestAfter(cnt)
    /\ sent' = IF cnt = Len(out) THEN sent + 1 ELSE sent
    /\ UNCHANGED <<closed, receiverVars, signals>>

\* send() returns -1: CTcpServ repeats it on EAGAIN; else send_all() returns
\* SOCKET_ERROR, and the application gives the connection up.
M_Repeats(errno) == FALSE                  \* EAGAIN is an error like others
Repeats(errno) == errno = "EAGAIN"

SendError(errno) ==
    /\ out # <<>> /\ closed = "no" /\ Room = 0
    /\ Errno(sender = "server", errno)
    /\ \/ Repeats(errno) /\ UNCHANGED <<out, closed>>
       \/ ~Repeats(errno) /\ out' = <<>> /\ closed' = "error"
    /\ UNCHANGED <<sent, wire, receiverVars>>

\* The sender closes after a message, or dies in the middle of one.
SenderClose ==
    /\ closed = "no"
    /\ closed' = "done" /\ out' = <<>>
    /\ UNCHANGED <<sent, wire, receiverVars, signals>>

-----------------------------------------------------------------------------
(* recv_all() *)
RecvAll ==
    /\ ~calling /\ ~eof
    /\ calling' = TRUE /\ in' = <<>>
    /\ UNCHANGED <<senderVars, wire, closed, got, eof, signals>>

\* recv() gives cnt bytes; when size reaches 0 recv_all() returns len.
RecvSome(cnt) ==
    LET data == in \o SubSeq(wire, 1, cnt) IN
    /\ calling
    /\ cnt <= Len(wire) /\ cnt <= MsgLen - Len(in)
    /\ wire' = SubSeq(wire, cnt + 1, Len(wire))
    /\ IF Len(data) = MsgLen
       THEN got' = got \o data /\ in' = <<>> /\ calling' = FALSE
       ELSE in' = data /\ UNCHANGED <<got, calling>>
    /\ UNCHANGED <<senderVars, closed, eof, signals>>

\* recv() returns -1: recv_all() returns SOCKET_ERROR, without a word about
\* the bytes it has; the application calls it again.
RecvError(errno) ==
    /\ calling /\ wire = <<>> /\ closed = "no"
    /\ Errno(sender = "client", errno)
    /\ calling' = FALSE /\ in' = <<>>
    /\ UNCHANGED <<senderVars, wire, closed, got, eof>>

\* recv() returns 0: recv_all() returns 0.
M_AtEof == TRUE                            \* 0 is taken for the end at once
AtEof == closed # "no"

RecvEof ==
    /\ calling /\ wire = <<>> /\ AtEof
    /\ calling' = FALSE /\ in' = <<>> /\ eof' = TRUE
    /\ UNCHANGED <<senderVars, wire, closed, got, signals>>

-----------------------------------------------------------------------------
Counts == 1 .. MsgLen
Errnos == {"EAGAIN", "EINTR"}

Send == SendAll \/ (\E cnt \in Counts : SendSome(cnt))
            \/ (\E errno \in Errnos : SendError(errno))
Recv == RecvAll \/ (\E cnt \in Counts : RecvSome(cnt))
            \/ (\E errno \in Errnos : RecvError(errno)) \/ RecvEof
Next == (Send \/ SenderClose \/ Recv) /\ UNCHANGED sender

Spec == Init /\ [][Next]_vars

\* Both applications go on calling and the kernel moves what it can.
FairSpec == Spec /\ WF_vars(Send /\ UNCHANGED sender)
                 /\ WF_vars(Recv /\ UNCHANGED sender)

-----------------------------------------------------------------------------
TypeOK ==
    /\ sender \in {"server", "client"}
    /\ out \in Seq(Nat) /\ Len(out) <= MsgLen
    /\ sent \in 0 .. Msgs
    /\ wire \in Seq(Nat) /\ Len(wire) <= Window
    /\ in \in Seq(Nat) /\ got \in Seq(Nat)
    /\ closed \in {"no", "done", "error"} /\ calling \in BOOLEAN /\ eof \in BOOLEAN
    /\ signals \in Nat

\* Nothing makes a call fail half-way: towards a blocking receiver, unless a
\* signal interrupts it.
Whole == sender = "server" /\ signals = 0

(* Every buffer for which recv_all() returns len is exactly the next        *)
(* message: no byte of the stream is lost, repeated or moved, however       *)
(* send() and recv() cut it into pieces.                                    *)
Framed == \A k \in 1 .. Len(got) : got[k] = k

(* From the server to a client that no signal interrupts this holds, in     *)
(* spite of the EAGAINs that send_all() meets.                              *)
FramedIfWhole == Whole => Framed

(* Even when calls fail half-way, in whichever direction, bytes may get     *)
(* lost but are never repeated or reordered.                                *)
InOrder ==
    LET stream == got \o in \o wire IN
    \A j, k \in 1 .. Len(stream) : j < k => stream[j] < stream[k]

(* recv_all() returns 0 only when every message that send_all() completed   *)
(* has been handed out.                                                     *)
EofAfterAll == Whole /\ eof => Len(got) = sent * MsgLen

(* Every message gets through unless the sender ends of its own accord: the *)
(* EAGAIN of a full window never makes send_all() fail or stop for good.    *)
AllDelivered == [](signals = 0) /\ sender = "server" =>
                    <>(closed = "done" \/ Len(got) = Msgs * MsgLen)
=============================================================================
