--------------------------- MODULE TcpStreamProofs ---------------------------
(***************************************************************************)
(* Proofs about send_all() and recv_all() for messages of any length, any  *)
(* number of them, any window and any number of interrupted calls.         *)
(***************************************************************************)
EXTENDS TcpStream, SequenceTheorems, TLAPS

(* A sequence of bytes that is cut in two.                                  *)
LEMMA Cut ==
  ASSUME NEW s \in Seq(Nat), NEW c \in 0 .. Len(s)
  PROVE  /\ SubSeq(s, 1, c) \in Seq(Nat) /\ SubSeq(s, c + 1, Len(s)) \in Seq(Nat)
         /\ Len(SubSeq(s, 1, c)) = c /\ Len(SubSeq(s, c + 1, Len(s))) = Len(s) - c
         /\ \A k \in 1 .. c : SubSeq(s, 1, c)[k] = s[k]
         /\ \A k \in 1 .. Len(s) - c : SubSeq(s, c + 1, Len(s))[k] = s[c + k]
         /\ SubSeq(s, 1, c) \o SubSeq(s, c + 1, Len(s)) = s
<1> DEFINE a == SubSeq(s, 1, c)
           b == SubSeq(s, c + 1, Len(s))
<1>1. Len(s) \in Nat /\ \A i \in 1 .. Len(s) : s[i] \in Nat
  BY ElementOfSeq, LenProperties
<1>2. /\ a \in Seq(Nat)
      /\ Len(a) = IF 1 <= c THEN c - 1 + 1 ELSE 0
      /\ \A i \in 1 .. c - 1 + 1 : a[i] = s[1 + i - 1]
  <2>1. \A i \in 1 .. c : s[i] \in Nat
    BY <1>1
  <2>2. 1 \in Int /\ c \in Int
    OBVIOUS
  <2> QED
    BY <2>1, <2>2, SubSeqProperties
<1>3. /\ b \in Seq(Nat)
      /\ Len(b) = IF c + 1 <= Len(s) THEN Len(s) - (c + 1) + 1 ELSE 0
      /\ \A i \in 1 .. Len(s) - (c + 1) + 1 : b[i] = s[c + 1 + i - 1]
  <2>1. \A i \in c + 1 .. Len(s) : s[i] \in Nat
    BY <1>1
  <2>2. c + 1 \in Int /\ Len(s) \in Int
    BY <1>1
  <2> QED
    BY <2>1, <2>2, SubSeqProperties
<1>4. a \o b = s
  <2>1. 1 \in 1 .. Len(s) + 1 /\ c \in 1 - 1 .. Len(s) /\ Len(s) \in c .. Len(s)
    BY <1>1
  <2>2. SubSeq(s, 1, c) \o SubSeq(s, c + 1, Len(s)) = SubSeq(s, 1, Len(s))
    BY <2>1, ConcatAdjacentSubSeq
  <2> QED
    BY <2>2, SubSeqFull
<1> HIDE DEF a, b
<1>5. Len(a) = c /\ Len(b) = Len(s) - c
  BY <1>1, <1>2, <1>3
<1>6. ASSUME NEW k \in 1 .. c PROVE a[k] = s[k]
  BY <1>2
<1>7. ASSUME NEW k \in 1 .. Len(s) - c PROVE b[k] = s[c + k]
  <2>1. k \in 1 .. Len(s) - (c + 1) + 1 /\ c + 1 + k - 1 = c + k
    BY <1>1
  <2> QED
    BY <1>3, <2>1
<1>8. /\ a \in Seq(Nat) /\ b \in Seq(Nat) /\ Len(a) = c /\ Len(b) = Len(s) - c
      /\ \A k \in 1 .. c : a[k] = s[k]
      /\ \A k \in 1 .. Len(s) - c : b[k] = s[c + k]
      /\ a \o b = s
  BY <1>2, <1>3, <1>4, <1>5, <1>6, <1>7
<1> QED
  BY <1>8 DEF a, b

LEMMA Join ==
  ASSUME NEW s \in Seq(Nat), NEW t \in Seq(Nat)
  PROVE  /\ s \o t \in Seq(Nat) /\ Len(s \o t) = Len(s) + Len(t)
         /\ \A k \in 1 .. Len(s) : (s \o t)[k] = s[k]
         /\ \A k \in 1 .. Len(t) : (s \o t)[Len(s) + k] = t[k]
<1>1. Len(s) \in Nat /\ Len(t) \in Nat
  BY LenProperties
<1>2. /\ s \o t \in Seq(Nat) /\ Len(s \o t) = Len(s) + Len(t)
      /\ \A i \in 1 .. Len(s) + Len(t) :
            (s \o t)[i] = IF i <= Len(s) THEN s[i] ELSE t[i - Len(s)]
  BY ConcatProperties
<1>3. ASSUME NEW k \in 1 .. Len(t) PROVE (s \o t)[Len(s) + k] = t[k]
  <2>1. /\ Len(s) + k \in 1 .. Len(s) + Len(t) /\ ~(Len(s) + k <= Len(s))
        /\ Len(s) + k - Len(s) = k
    BY <1>1
  <2> QED
    BY <1>2, <2>1
<1>4. ASSUME NEW k \in 1 .. Len(s) PROVE (s \o t)[k] = s[k]
  BY <1>1, <1>2
<1> QED
  BY <1>2, <1>3, <1>4

LEMMA Assoc ==
  ASSUME NEW s \in Seq(Nat), NEW t \in Seq(Nat), NEW u \in Seq(Nat)
  PROVE  (s \o t) \o u = s \o (t \o u)
<1> DEFINE st == s \o t
           tu == t \o u
           left == st \o u
           right == s \o tu
<1>1. Len(s) \in Nat /\ Len(t) \in Nat /\ Len(u) \in Nat
  BY LenProperties
<1>2. /\ st \in Seq(Nat) /\ Len(st) = Len(s) + Len(t)
      /\ \A k \in 1 .. Len(s) : st[k] = s[k]
      /\ \A k \in 1 .. Len(t) : st[Len(s) + k] = t[k]
  BY Join
<1>3. /\ tu \in Seq(Nat) /\ Len(tu) = Len(t) + Len(u)
      /\ \A k \in 1 .. Len(t) : tu[k] = t[k]
      /\ \A k \in 1 .. Len(u) : tu[Len(t) + k] = u[k]
  BY Join
<1> HIDE DEF st, tu
<1>4. /\ left \in Seq(Nat) /\ Len(left) = Len(st) + Len(u)
      /\ \A k \in 1 .. Len(st) : left[k] = st[k]
      /\ \A k \in 1 .. Len(u) : left[Len(st) + k] = u[k]
  BY <1>2, Join
<1>5. /\ right \in Seq(Nat) /\ Len(right) = Len(s) + Len(tu)
      /\ \A k \in 1 .. Len(s) : right[k] = s[k]
      /\ \A k \in 1 .. Len(tu) : right[Len(s) + k] = tu[k]
  BY <1>3, Join
<1> HIDE DEF left, right
<1>6. /\ Len(st) = Len(s) + Len(t) /\ Len(tu) = Len(t) + Len(u)
      /\ Len(left) = Len(s) + Len(t) + Len(u) /\ Len(right) = Len(left)
  BY <1>1, <1>2, <1>3, <1>4, <1>5
<1>7. ASSUME NEW k \in 1 .. Len(left) PROVE left[k] = right[k]
  <2>1. CASE k <= Len(s)
    <3>1. k \in 1 .. Len(s) /\ k \in 1 .. Len(st)
      BY <1>1, <1>6, <2>1
    <3>2. left[k] = st[k] /\ st[k] = s[k]
      BY <1>2, <1>4, <3>1, Zenon
    <3>3. right[k] = s[k]
      BY <1>5, <3>1, Zenon
    <3> QED
      BY <3>2, <3>3, Zenon
  <2>2. CASE Len(s) < k /\ k <= Len(st)
    <3>1. PICK i \in 1 .. Len(t) : k = Len(s) + i
      <4>1. k - Len(s) \in 1 .. Len(t) /\ k = Len(s) + (k - Len(s))
        BY <1>1, <1>6, <2>2
      <4> QED
        BY <4>1
    <3>2. i \in 1 .. Len(tu) /\ k \in 1 .. Len(st)
      BY <1>1, <1>6, <2>2
    <3>3. left[k] = st[k] /\ st[k] = t[i]
      BY <1>2, <1>4, <3>1, <3>2, Zenon
    <3>4. right[k] = tu[i] /\ tu[i] = t[i]
      BY <1>3, <1>5, <3>1, <3>2, Zenon
    <3> QED
      BY <3>3, <3>4, Zenon
  <2>3. CASE Len(st) < k
    <3>1. PICK i \in 1 .. Len(u) : k = Len(st) + i
      <4>1. k - Len(st) \in 1 .. Len(u) /\ k = Len(st) + (k - Len(st))
        BY <1>1, <1>6, <2>3
      <4> QED
        BY <4>1
    <3>2. Len(t) + i \in 1 .. Len(tu) /\ k = Len(s) + (Len(t) + i)
      BY <1>1, <1>6, <3>1
    <3>3. left[k] = u[i]
      BY <1>4, <3>1, Zenon
    <3>4. right[k] = tu[Len(t) + i] /\ tu[Len(t) + i] = u[i]
      BY <1>3, <1>5, <3>2, Zenon
    <3> QED
      BY <3>3, <3>4, Zenon
  <2> QED
    BY <1>1, <1>6, <2>1, <2>2, <2>3
<1>8. left = right
  BY <1>4, <1>5, <1>6, <1>7, SeqEqual
<1> QED
  BY <1>8 DEF st, tu, left, right

LEMMA NoBytes == <<>> \in Seq(Nat) /\ Len(<<>>) = 0
                 /\ \A s \in Seq(Nat) : s # <<>> => Len(s) \in Nat \ {0}
BY EmptySeq

-----------------------------------------------------------------------------
(* TypeOK in two parts, and what a call that runs or not says about its     *)
(* locals.                                                                  *)
Bytes ==
    /\ out \in Seq(Nat) /\ Len(out) <= MsgLen
    /\ sent \in 0 .. Msgs /\ signals \in Nat
    /\ wire \in Seq(Nat) /\ Len(wire) <= Window
    /\ in \in Seq(Nat) /\ Len(in) < MsgLen /\ got \in Seq(Nat)
Flags ==
    /\ sender \in {"server", "client"} /\ closed \in {"no", "done", "error"}
    /\ calling \in BOOLEAN /\ eof \in BOOLEAN
Calls ==
    /\ ~calling => in = <<>>
    /\ out # <<>> => sent < Msgs /\ closed = "no"
    /\ eof => ~calling /\ closed # "no"
Shape == Bytes /\ Flags /\ Calls

LEMMA ShapeStarts == Init => Shape
<1> SUFFICES ASSUME Init PROVE Shape
  OBVIOUS
<1>1. Bytes
  BY StreamAssumption, NoBytes DEF Init, Bytes
<1>2. Flags
  BY StreamAssumption DEF Init, Flags
<1>3. Calls
  BY DEF Init, Calls
<1> QED
  BY <1>1, <1>2, <1>3 DEF Shape

LEMMA MessageIs ==
  ASSUME NEW m \in Nat \ {0}
  PROVE  /\ Message(m) \in Seq(Nat) /\ Len(Message(m)) = MsgLen
         /\ Message(m) # <<>>
         /\ \A k \in 1 .. MsgLen : Message(m)[k] = (m - 1) * MsgLen + k
<1>1. (m - 1) * MsgLen \in Nat
  BY StreamAssumption
<1> DEFINE base == (m - 1) * MsgLen
<1> HIDE DEF base
<1>2. Message(m) = [k \in 1 .. MsgLen |-> base + k]
  BY DEF Message, base
<1>3. Message(m) \in Seq(Nat) /\ Len(Message(m)) = MsgLen
  BY <1>1, <1>2, StreamAssumption DEF base
<1>4. Message(m) # <<>>
  BY <1>3, NoBytes, StreamAssumption
<1> QED
  BY <1>2, <1>3, <1>4 DEF base

(* What send() leaves of the message, and recv() of the wire.               *)
LEMMA SendMoves ==
  ASSUME Shape, NEW cnt \in Counts, SendSome(cnt)
  PROVE  /\ cnt \in Nat \ {0} /\ cnt \in 0 .. Len(out)
         /\ Len(out) \in Nat /\ Len(wire) \in Nat
         /\ wire' \in Seq(Nat) /\ Len(wire') = Len(wire) + cnt
         /\ out' \in Seq(Nat) /\ Len(out') = Len(out) - cnt
<1>1. cnt \in 0 .. Len(out) /\ cnt \in Nat \ {0} /\ Len(out) \in Nat
      /\ Len(wire) \in Nat
  BY LenProperties DEF SendSome, Counts, Shape, Bytes
<1>2. /\ wire' \in Seq(Nat) /\ Len(wire') = Len(wire) + cnt
      /\ out' \in Seq(Nat) /\ Len(out') = Len(out) - cnt
  <2>1. out \in Seq(Nat) /\ wire \in Seq(Nat)
    BY DEF Shape, Bytes
  <2>2. /\ SubSeq(out, 1, cnt) \in Seq(Nat) /\ Len(SubSeq(out, 1, cnt)) = cnt
        /\ SubSeq(out, cnt + 1, Len(out)) \in Seq(Nat)
        /\ Len(SubSeq(out, cnt + 1, Len(out))) = Len(out) - cnt
    BY <1>1, <2>1, Cut
  <2>3. /\ wire' = wire \o SubSeq(out, 1, cnt)
        /\ out' = SubSeq(out, cnt + 1, Len(out))
    BY DEF SendSome, RestAfter
  <2> QED
    BY <2>1, <2>2, <2>3, Join
<1> QED
  BY <1>1, <1>2

Data(cnt) == in \o SubSeq(wire, 1, cnt)

LEMMA RecvMoves ==
  ASSUME Shape, NEW cnt \in Counts, RecvSome(cnt)
  PROVE  /\ cnt \in Nat \ {0} /\ cnt \in 0 .. Len(wire)
         /\ Len(wire) \in Nat /\ Len(in) \in Nat
         /\ wire' \in Seq(Nat) /\ Len(wire') = Len(wire) - cnt
         /\ Data(cnt) \in Seq(Nat) /\ Len(Data(cnt)) = Len(in) + cnt
         /\ Len(Data(cnt)) <= MsgLen
<1>1. cnt \in 0 .. Len(wire) /\ cnt \in Nat \ {0} /\ Len(wire) \in Nat
      /\ Len(in) \in Nat /\ cnt <= MsgLen - Len(in)
  BY LenProperties DEF RecvSome, Counts, Shape, Bytes
<1>2. /\ wire' \in Seq(Nat) /\ Len(wire') = Len(wire) - cnt
      /\ Data(cnt) \in Seq(Nat) /\ Len(Data(cnt)) = Len(in) + cnt
  <2> DEFINE a == SubSeq(wire, 1, cnt)
             b == SubSeq(wire, cnt + 1, Len(wire))
  <2>1. in \in Seq(Nat) /\ wire \in Seq(Nat)
    BY DEF Shape, Bytes
  <2>2. /\ a \in Seq(Nat) /\ b \in Seq(Nat)
        /\ Len(a) = cnt /\ Len(b) = Len(wire) - cnt
    BY <1>1, <2>1, Cut
  <2>3. wire' = b /\ Data(cnt) = in \o a
    BY DEF RecvSome, Data
  <2> HIDE DEF a, b
  <2>4. in \o a \in Seq(Nat) /\ Len(in \o a) = Len(in) + Len(a)
    BY <2>1, <2>2, Join
  <2> QED
    BY <2>2, <2>3, <2>4
<1> QED
  BY <1>1, <1>2, StreamAssumption

LEMMA RecvStores ==
  ASSUME Shape, NEW cnt \in Counts, RecvSome(cnt)
  PROVE  /\ calling /\ UNCHANGED <<senderVars, closed, eof, signals>>
         /\ \/ /\ Len(Data(cnt)) = MsgLen
               /\ got' = got \o Data(cnt) /\ in' = <<>> /\ ~calling'
            \/ /\ Len(Data(cnt)) < MsgLen
               /\ in' = Data(cnt) /\ UNCHANGED got /\ calling'
<1>1. calling /\ UNCHANGED <<senderVars, closed, eof, signals>>
  BY DEF RecvSome
<1>2. CASE Len(Data(cnt)) = MsgLen
  BY <1>1, <1>2 DEF RecvSome, Data
<1>3. CASE Len(Data(cnt)) # MsgLen
  <2>1. Len(Data(cnt)) < MsgLen
    BY <1>3, RecvMoves, StreamAssumption
  <2>2. in' = Data(cnt) /\ UNCHANGED <<got, calling>>
    BY <1>3 DEF RecvSome, Data
  <2> QED
    BY <1>1, <2>1, <2>2
<1> QED
  BY <1>2, <1>3

LEMMA ShapeStep == Shape /\ [Next]_vars => Shape'
<1> SUFFICES ASSUME Shape, [Next]_vars PROVE Shape'
  OBVIOUS
<1>0. Bytes /\ Flags /\ Calls
  BY DEF Shape
<1>1. CASE UNCHANGED vars
  BY <1>0, <1>1 DEF vars, senderVars, receiverVars, Shape, Bytes, Flags, Calls
<1>2. CASE SendAll /\ UNCHANGED sender
  <2>1. sent + 1 \in Nat \ {0}
    BY <1>0, <1>2 DEF Bytes
  <2>2. Bytes'
    BY <1>0, <1>2, <2>1, MessageIs, StreamAssumption DEF SendAll, Bytes, receiverVars
  <2>3. Flags' /\ Calls'
    BY <1>0, <1>2 DEF SendAll, Flags, Calls, receiverVars
  <2> QED
    BY <2>2, <2>3 DEF Shape
<1>3. ASSUME NEW cnt \in Counts, SendSome(cnt), UNCHANGED sender
      PROVE  Shape'
  <2>1. sent' \in 0 .. Msgs /\ (out' # <<>> => sent' < Msgs)
    <3>1. sent \in 0 .. Msgs /\ sent < Msgs
      BY <1>0, <1>3 DEF SendSome, Bytes, Calls
    <3>2. sent' = IF cnt = Len(out) THEN sent + 1 ELSE sent
      BY <1>3 DEF SendSome
    <3>3. out' # <<>> => Len(out') # 0
      BY <1>3, SendMoves, NoBytes
    <3>4. Len(out') = Len(out) - cnt /\ cnt \in Nat /\ Len(out) \in Nat
      BY <1>3, SendMoves
    <3>5. out' # <<>> => cnt # Len(out)
      BY <3>3, <3>4
    <3> QED
      BY <3>1, <3>2, <3>5, StreamAssumption
  <2>2. Bytes'
    <3>1. /\ cnt <= Len(out) /\ cnt <= Window - Len(wire)
          /\ UNCHANGED <<in, got, signals>>
      BY <1>3 DEF SendSome, Room, receiverVars
    <3>2. Len(out') <= MsgLen /\ Len(wire') <= Window
      BY <1>0, <1>3, <3>1, SendMoves, StreamAssumption DEF Bytes
    <3> QED
      BY <1>0, <1>3, <2>1, <3>1, <3>2, SendMoves DEF Bytes
  <2>3. Flags'
    BY <1>0, <1>3 DEF SendSome, Flags, receiverVars
  <2>4. Calls'
    BY <1>0, <1>3, <2>1 DEF SendSome, Calls, receiverVars
  <2> QED
    BY <2>2, <2>3, <2>4 DEF Shape
<1>4. ASSUME NEW errno \in Errnos, SendError(errno), UNCHANGED sender
      PROVE  Shape'
  <2>1. signals' \in Nat
    BY <1>0, <1>4 DEF SendError, Errno, Bytes
  <2>2. Bytes'
    <3>1. (out' = out \/ out' = <<>>) /\ UNCHANGED <<sent, wire, in, got>>
      BY <1>4 DEF SendError, receiverVars
    <3>2. out' \in Seq(Nat) /\ Len(out') <= MsgLen
      <4>1. CASE out' = out
        BY <1>0, <4>1 DEF Bytes
      <4>2. CASE out' = <<>>
        BY <4>2, NoBytes, StreamAssumption
      <4> QED
        BY <3>1, <4>1, <4>2
    <3> QED
      BY <1>0, <2>1, <3>1, <3>2 DEF Bytes
  <2>3. Flags' /\ Calls'
    BY <1>0, <1>4 DEF SendError, Flags, Calls, receiverVars
  <2> QED
    BY <2>2, <2>3 DEF Shape
<1>5. CASE SenderClose /\ UNCHANGED sender
  <2>1. Bytes'
    BY <1>0, <1>5, NoBytes, StreamAssumption DEF SenderClose, Bytes, receiverVars
  <2>2. Flags' /\ Calls'
    BY <1>0, <1>5 DEF SenderClose, Flags, Calls, receiverVars
  <2> QED
    BY <2>1, <2>2 DEF Shape
<1>6. CASE RecvAll /\ UNCHANGED sender
  <2>1. Bytes'
    BY <1>0, <1>6, NoBytes, StreamAssumption DEF RecvAll, Bytes, senderVars
  <2>2. Flags' /\ Calls'
    BY <1>0, <1>6 DEF RecvAll, Flags, Calls, senderVars
  <2> QED
    BY <2>1, <2>2 DEF Shape
<1>7. ASSUME NEW cnt \in Counts, RecvSome(cnt), UNCHANGED sender
      PROVE  Shape'
  <2>1. got' \in Seq(Nat) /\ in' \in Seq(Nat) /\ Len(in') < MsgLen
    <3>1. got \in Seq(Nat) /\ in \in Seq(Nat) /\ Data(cnt) \in Seq(Nat)
      BY <1>0, <1>7, RecvMoves DEF Bytes
    <3>2. CASE got' = got \o Data(cnt) /\ in' = <<>>
      BY <3>1, <3>2, Join, NoBytes, StreamAssumption
    <3>3. CASE Len(Data(cnt)) < MsgLen /\ in' = Data(cnt) /\ UNCHANGED got
      BY <3>1, <3>3
    <3> QED
      BY <1>7, <3>2, <3>3, RecvStores
  <2>2. UNCHANGED <<out, sent, signals>>
    BY <1>7, RecvStores DEF senderVars
  <2>3. Bytes'
    <3>1. wire' \in Seq(Nat) /\ Len(wire') <= Window
      <4>1. /\ wire' \in Seq(Nat) /\ Len(wire') = Len(wire) - cnt
            /\ Len(wire) \in Nat /\ cnt \in Nat /\ Len(wire) <= Window
        BY <1>0, <1>7, RecvMoves DEF Bytes
      <4> QED
        BY <4>1, StreamAssumption
    <3> QED
      BY <1>0, <2>1, <2>2, <3>1 DEF Bytes
  <2>4. Flags'
    BY <1>0, <1>7 DEF RecvSome, Flags
  <2>5. Calls'
    BY <1>0, <1>7, RecvStores DEF Calls, senderVars
  <2> QED
    BY <2>3, <2>4, <2>5 DEF Shape
<1>8. ASSUME NEW errno \in Errnos, RecvError(errno), UNCHANGED sender
      PROVE  Shape'
  <2>1. signals' \in Nat
    BY <1>0, <1>8 DEF RecvError, Errno, Bytes
  <2>2. Bytes'
    BY <1>0, <1>8, <2>1, NoBytes, StreamAssumption DEF RecvError, Bytes, senderVars
  <2>3. Flags' /\ Calls'
    BY <1>0, <1>8 DEF RecvError, Flags, Calls, senderVars
  <2> QED
    BY <2>2, <2>3 DEF Shape
<1>9. CASE RecvEof /\ UNCHANGED sender
  <2>1. Bytes'
    BY <1>0, <1>9, NoBytes, StreamAssumption DEF RecvEof, Bytes, senderVars
  <2>2. Flags' /\ Calls'
    BY <1>0, <1>9 DEF RecvEof, AtEof, Flags, Calls, senderVars
  <2> QED
    BY <2>1, <2>2 DEF Shape
<1> QED
  BY <1>1, <1>2, <1>3, <1>4, <1>5, <1>6, <1>7, <1>8, <1>9 DEF Next, Send, Recv

(* Every variable keeps its type.                                           *)
THEOREM StreamTypeCorrect == Spec => []TypeOK
<1>1. Shape => TypeOK
  BY DEF Shape, Bytes, Flags, TypeOK
<1> QED
  BY <1>1, ShapeStarts, ShapeStep, PTL DEF Spec

-----------------------------------------------------------------------------
(* The bytes on their way, and how many bytes were given to the kernel if   *)
(* no message was given up.                                                 *)
Stream == got \o in \o wire
Sent == IF out = <<>> THEN sent * MsgLen ELSE (sent + 1) * MsgLen - Len(out)

LEMMA StreamIs ==
  ASSUME Shape
  PROVE  /\ Stream \in Seq(Nat) /\ got \in Seq(Nat) /\ got \o in \in Seq(Nat)
         /\ Len(got) \in Nat /\ Len(in) \in Nat /\ Len(wire) \in Nat
         /\ Len(got \o in) = Len(got) + Len(in)
         /\ Len(Stream) = Len(got) + Len(in) + Len(wire)
         /\ \A k \in 1 .. Len(got) : Stream[k] = got[k]
<1>1. got \in Seq(Nat) /\ in \in Seq(Nat) /\ wire \in Seq(Nat)
  BY DEF Shape, Bytes
<1>2. Len(got) \in Nat /\ Len(in) \in Nat /\ Len(wire) \in Nat
  BY <1>1, LenProperties
<1>3. /\ got \o in \in Seq(Nat) /\ Len(got \o in) = Len(got) + Len(in)
      /\ \A k \in 1 .. Len(got) : (got \o in)[k] = got[k]
  BY <1>1, Join
<1>4. /\ Stream \in Seq(Nat) /\ Len(Stream) = Len(got \o in) + Len(wire)
      /\ \A k \in 1 .. Len(got \o in) : Stream[k] = (got \o in)[k]
  BY <1>1, <1>3, Join DEF Stream
<1>5. ASSUME NEW k \in 1 .. Len(got) PROVE Stream[k] = got[k]
  <2>1. k \in 1 .. Len(got \o in)
    BY <1>2, <1>3
  <2> QED
    BY <1>3, <1>4, <2>1
<1> QED
  BY <1>1, <1>2, <1>3, <1>4, <1>5

LEMMA SentIs ==
  ASSUME Shape
  PROVE  /\ sent * MsgLen \in Nat /\ (sent + 1) * MsgLen = sent * MsgLen + MsgLen
         /\ Sent \in Nat /\ sent * MsgLen <= Sent /\ Sent < sent * MsgLen + MsgLen
<1>1. sent \in Nat /\ MsgLen \in Nat \ {0}
  BY StreamAssumption DEF Shape, Bytes
<1>2. sent * MsgLen \in Nat /\ (sent + 1) * MsgLen = sent * MsgLen + MsgLen
  BY <1>1
<1>3. out # <<>> => Len(out) \in Nat \ {0} /\ Len(out) <= MsgLen
  BY NoBytes DEF Shape, Bytes
<1> DEFINE base == sent * MsgLen
           next == (sent + 1) * MsgLen
<1>4. base \in Nat /\ next = base + MsgLen
  BY <1>2
<1>5. Sent = IF out = <<>> THEN base ELSE next - Len(out)
  BY DEF Sent
<1> HIDE DEF base, next
<1>6. Sent \in Nat /\ base <= Sent /\ Sent < base + MsgLen
  BY <1>1, <1>3, <1>4, <1>5
<1> QED
  BY <1>2, <1>6 DEF base

(* What each step does to them.                                             *)
Idle == \/ UNCHANGED vars
        \/ SendAll /\ UNCHANGED sender
        \/ \E errno \in Errnos : SendError(errno) /\ UNCHANGED sender
        \/ SenderClose /\ UNCHANGED sender
        \/ RecvAll /\ UNCHANGED sender

LEMMA Idles == Shape /\ Idle => UNCHANGED Stream
<1> SUFFICES ASSUME Shape, Idle PROVE UNCHANGED <<got, in, wire>>
  BY DEF Stream
<1>1. CASE RecvAll
  BY <1>1 DEF RecvAll, Shape, Calls
<1>2. CASE ~RecvAll
  BY <1>2 DEF Idle, vars, senderVars, receiverVars, SendAll, SendError, SenderClose
<1> QED
  BY <1>1, <1>2

LEMMA Sends ==
  ASSUME Shape, NEW cnt \in Counts, SendSome(cnt)
  PROVE  /\ Stream' \in Seq(Nat) /\ Len(Stream') = Len(Stream) + cnt
         /\ \A k \in 1 .. Len(Stream) : Stream'[k] = Stream[k]
         /\ \A k \in 1 .. cnt : Stream'[Len(Stream) + k] = out[k]
         /\ \A k \in 1 .. Len(out') : out'[k] = out[cnt + k]
         /\ Sent' = Sent + cnt
<1>1. cnt \in Nat \ {0} /\ cnt \in 0 .. Len(out) /\ Len(out) \in Nat
  BY SendMoves
<1>2. out \in Seq(Nat) /\ wire \in Seq(Nat) /\ got \o in \in Seq(Nat)
  BY StreamIs DEF Shape, Bytes
<1> DEFINE a == SubSeq(out, 1, cnt)
           b == SubSeq(out, cnt + 1, Len(out))
<1>3. /\ a \in Seq(Nat) /\ Len(a) = cnt /\ \A k \in 1 .. cnt : a[k] = out[k]
      /\ Len(b) = Len(out) - cnt
      /\ \A k \in 1 .. Len(out) - cnt : b[k] = out[cnt + k]
  BY <1>1, <1>2, Cut
<1>4. /\ wire' = wire \o a /\ out' = b /\ UNCHANGED <<got, in>>
      /\ sent' = IF cnt = Len(out) THEN sent + 1 ELSE sent
  BY DEF SendSome, RestAfter, receiverVars
<1> HIDE DEF a, b
<1>5. Stream' = Stream \o a
  <2>1. Stream' = (got \o in) \o (wire \o a)
    BY <1>4 DEF Stream
  <2> QED
    <3>1. ((got \o in) \o wire) \o a = (got \o in) \o (wire \o a)
      BY <1>2, <1>3, Assoc
    <3> QED
      BY <2>1, <3>1 DEF Stream
<1>6. /\ Stream' \in Seq(Nat) /\ Len(Stream') = Len(Stream) + cnt
      /\ \A k \in 1 .. Len(Stream) : Stream'[k] = Stream[k]
      /\ \A k \in 1 .. cnt : Stream'[Len(Stream) + k] = a[k]
  <2>1. Stream \in Seq(Nat)
    BY StreamIs
  <2>2. /\ Stream \o a \in Seq(Nat) /\ Len(Stream \o a) = Len(Stream) + Len(a)
        /\ \A k \in 1 .. Len(Stream) : (Stream \o a)[k] = Stream[k]
        /\ \A k \in 1 .. Len(a) : (Stream \o a)[Len(Stream) + k] = a[k]
    BY <1>3, <2>1, Join
  <2> QED
    BY <1>3, <1>5, <2>2
<1>7. Sent' = Sent + cnt
  <2>1. sent * MsgLen \in Nat /\ (sent + 1) * MsgLen = sent * MsgLen + MsgLen
    BY SentIs
  <2>2. out # <<>>
    BY DEF SendSome
  <2>3. CASE cnt = Len(out)
    <3>1. b = <<>> /\ sent' = sent + 1
      BY <1>1, <1>2, <1>4, <2>3, SubSeqEmpty DEF b
    <3> QED
      BY <1>1, <1>4, <2>1, <2>2, <2>3, <3>1, StreamAssumption DEF Sent
  <2>4. CASE cnt # Len(out)
    <3>1. b # <<>> /\ sent' = sent
      BY <1>1, <1>3, <1>4, <2>4, NoBytes
    <3> DEFINE next == (sent + 1) * MsgLen
    <3>2. Sent = next - Len(out) /\ Sent' = next - (Len(out) - cnt)
      BY <1>3, <1>4, <2>2, <3>1 DEF Sent
    <3>3. next \in Nat
      BY <2>1, StreamAssumption
    <3> HIDE DEF next
    <3> QED
      BY <1>1, <3>2, <3>3
  <2> QED
    BY <2>3, <2>4
<1>8. \A k \in 1 .. Len(out') : out'[k] = out[cnt + k]
  BY <1>3, <1>4
<1> QED
  BY <1>3, <1>6, <1>7, <1>8

LEMMA Receives ==
  ASSUME Shape, NEW cnt \in Counts, RecvSome(cnt)
  PROVE  Stream' = Stream
<1>1. cnt \in 0 .. Len(wire) /\ Data(cnt) \in Seq(Nat)
  BY RecvMoves
<1>2. in \in Seq(Nat) /\ wire \in Seq(Nat) /\ got \in Seq(Nat)
  BY DEF Shape, Bytes
<1> DEFINE a == SubSeq(wire, 1, cnt)
           b == SubSeq(wire, cnt + 1, Len(wire))
<1>3. a \in Seq(Nat) /\ b \in Seq(Nat) /\ a \o b = wire
  BY <1>1, <1>2, Cut
<1>4. wire' = b /\ Data(cnt) = in \o a
  BY DEF RecvSome, Data
<1> HIDE DEF a, b
<1>5. a \in Seq(Nat) /\ b \in Seq(Nat) /\ in \in Seq(Nat) /\ got \in Seq(Nat)
  BY <1>2, <1>3
<1>6. got' \o in' = got \o Data(cnt)
  <2>1. got \o Data(cnt) \in Seq(Nat)
    BY <1>1, <1>2, Join
  <2>2. (got \o Data(cnt)) \o <<>> = got \o Data(cnt)
    BY <2>1, ConcatEmptySeq
  <2>3. \/ got' = got \o Data(cnt) /\ in' = <<>>
        \/ got' = got /\ in' = Data(cnt)
    BY RecvStores
  <2> QED
    BY <2>2, <2>3
<1>7. Data(cnt) \o b = in \o wire
  <2>1. (in \o a) \o b = in \o (a \o b)
    BY <1>5, Assoc
  <2> QED
    BY <1>3, <1>4, <2>1
<1>8. (got \o Data(cnt)) \o b = got \o (Data(cnt) \o b)
  <2> DEFINE d == Data(cnt)
  <2>1. d \in Seq(Nat) /\ b \in Seq(Nat) /\ got \in Seq(Nat)
    BY <1>1, <1>2, <1>3
  <2> HIDE DEF d
  <2>2. (got \o d) \o b = got \o (d \o b)
    BY <2>1, Assoc
  <2> QED
    BY <2>2 DEF d
<1>9. got \o (in \o wire) = (got \o in) \o wire
  BY <1>2, Assoc
<1> QED
  BY <1>4, <1>6, <1>7, <1>8, <1>9 DEF Stream

Fails == \/ \E errno \in Errnos : RecvError(errno) /\ UNCHANGED sender
         \/ RecvEof /\ UNCHANGED sender

LEMMA Drops ==
  ASSUME Shape, Fails
  PROVE  /\ Stream' = got /\ Stream = got \o in
         /\ UNCHANGED <<out, sent, closed, got>>
<1>1. /\ wire = <<>> /\ wire' = <<>> /\ in' = <<>>
      /\ UNCHANGED <<out, sent, closed, got>>
  BY DEF Fails, RecvError, RecvEof, senderVars
<1>2. got \in Seq(Nat) /\ got \o in \in Seq(Nat)
  BY StreamIs
<1> QED
  BY <1>1, <1>2, ConcatEmptySeq DEF Stream

LEMMA Steps ==
  ASSUME [Next]_vars
  PROVE  \/ Idle
         \/ Fails
         \/ \E cnt \in Counts : SendSome(cnt) /\ UNCHANGED sender
         \/ \E cnt \in Counts : RecvSome(cnt) /\ UNCHANGED sender
BY DEF Next, Send, Recv, Idle, Fails

-----------------------------------------------------------------------------
(* The inductive invariant for the order: no byte of the stream is younger  *)
(* than what was given to the kernel, and the rest of the message follows.  *)
Ordered(s) == \A j, k \in 1 .. Len(s) : j < k => s[j] < s[k]
Behind == closed = "no" => \A k \in 1 .. Len(Stream) : Stream[k] <= Sent
Ahead == \A k \in 1 .. Len(out) : out[k] = Sent + k
OrderInv == Ordered(Stream) /\ Behind /\ Ahead

LEMMA OrderStarts == Init => OrderInv
<1> SUFFICES ASSUME Init PROVE OrderInv
  OBVIOUS
<1>1. Stream = <<>> /\ out = <<>>
  BY ConcatEmptySeq, NoBytes DEF Init, Stream
<1> QED
  BY <1>1, NoBytes DEF OrderInv, Ordered, Behind, Ahead

(* Sent is what it was, whatever happens to the message.                    *)
LEMMA SentStays ==
  ASSUME Shape, Idle
  PROVE  \/ Sent' = Sent /\ closed' = closed /\ out' = out
         \/ Sent' = Sent /\ closed' = closed /\ out = <<>> /\ out' = Message(sent + 1)
         \/ closed' # "no" /\ out' = <<>>
<1>1. CASE SendAll
  <2>1. out = <<>> /\ out' = Message(sent + 1) /\ UNCHANGED <<sent, closed>>
    BY <1>1 DEF SendAll
  <2>2. sent + 1 \in Nat \ {0}
    BY DEF Shape, Bytes
  <2>3. Len(out') = MsgLen /\ out' # <<>>
    BY <2>1, <2>2, MessageIs
  <2>4. Sent = sent * MsgLen /\ Sent' = (sent + 1) * MsgLen - MsgLen
    BY <2>1, <2>3 DEF Sent
  <2>5. sent * MsgLen \in Nat /\ (sent + 1) * MsgLen = sent * MsgLen + MsgLen
    BY SentIs
  <2> QED
    BY <2>1, <2>4, <2>5, StreamAssumption
<1>2. CASE RecvAll \/ UNCHANGED vars
  <2>1. UNCHANGED <<out, sent, closed>>
    BY <1>2 DEF RecvAll, senderVars, vars
  <2> QED
    BY <2>1 DEF Sent
<1>3. CASE SenderClose
  BY <1>3 DEF SenderClose
<1>4. ASSUME NEW errno \in Errnos, SendError(errno)
      PROVE  \/ UNCHANGED <<out, sent, closed>>
             \/ closed' # "no" /\ out' = <<>>
  BY <1>4 DEF SendError
<1>5. UNCHANGED <<out, sent, closed>> => Sent' = Sent
  BY DEF Sent
<1> QED
  BY <1>1, <1>2, <1>3, <1>4, <1>5 DEF Idle

LEMMA OrderStep == Shape /\ OrderInv /\ [Next]_vars => OrderInv'
<1> SUFFICES ASSUME Shape, OrderInv, [Next]_vars PROVE OrderInv'
  OBVIOUS
<1>0. Ordered(Stream) /\ Behind /\ Ahead
  BY DEF OrderInv
<1>1. CASE Idle
  <2>1. Stream' = Stream
    BY <1>1, Idles
  <2>2. CASE closed' # "no" /\ out' = <<>>
    BY <1>0, <2>1, <2>2, NoBytes DEF OrderInv, Ordered, Behind, Ahead
  <2>3. CASE Sent' = Sent /\ closed' = closed /\ out' = out
    BY <1>0, <2>1, <2>3 DEF OrderInv, Ordered, Behind, Ahead
  <2>4. CASE Sent' = Sent /\ closed' = closed /\ out' = Message(sent + 1) /\ out = <<>>
    <3>1. sent + 1 \in Nat \ {0} /\ (sent + 1) - 1 = sent
      BY DEF Shape, Bytes
    <3>2. /\ Len(Message(sent + 1)) = MsgLen
          /\ \A k \in 1 .. MsgLen : Message(sent + 1)[k] = sent * MsgLen + k
      BY <3>1, MessageIs
    <3>3. Sent' = sent * MsgLen
      BY <2>4 DEF Sent
    <3>4. Ahead'
      BY <2>4, <3>2, <3>3 DEF Ahead
    <3>5. Ordered(Stream)' /\ Behind'
      BY <1>0, <2>1, <2>4 DEF Ordered, Behind
    <3> QED
      BY <3>4, <3>5 DEF OrderInv
  <2> QED
    BY <1>1, <2>2, <2>3, <2>4, SentStays
<1>2. CASE Fails
  <2>1. /\ Stream' = got /\ Sent' = Sent /\ closed' = closed /\ out' = out
    BY <1>2, Drops DEF Sent
  <2>2. /\ Len(got) \in Nat /\ Len(Stream) \in Nat /\ Len(got) <= Len(Stream)
        /\ \A k \in 1 .. Len(got) : Stream[k] = got[k]
    BY StreamIs
  <2>3. \A k \in 1 .. Len(got) : k \in 1 .. Len(Stream) /\ Stream[k] = got[k]
    BY <2>2
  <2> QED
    BY <1>0, <2>1, <2>3 DEF OrderInv, Ordered, Behind, Ahead
<1>3. ASSUME NEW cnt \in Counts, SendSome(cnt) PROVE OrderInv'
  <2> DEFINE n == Len(Stream)
  <2>1. /\ Stream' \in Seq(Nat) /\ Len(Stream') = n + cnt
        /\ \A k \in 1 .. n : Stream'[k] = Stream[k]
        /\ \A k \in 1 .. cnt : Stream'[n + k] = out[k]
        /\ \A k \in 1 .. Len(out') : out'[k] = out[cnt + k]
        /\ Sent' = Sent + cnt
    BY <1>3, Sends
  <2>2. /\ cnt \in Nat \ {0} /\ cnt <= Len(out) /\ Len(out) \in Nat
        /\ Len(out') = Len(out) - cnt
    BY <1>3, SendMoves
  <2>3. n \in Nat /\ Stream \in Seq(Nat)
    BY StreamIs
  <2>4. Sent \in Nat
    BY SentIs
  <2>5. closed = "no" /\ closed' = "no"
    BY <1>3 DEF SendSome
  <2>6. \A k \in 1 .. n : Stream[k] \in Nat /\ Stream[k] <= Sent
    BY <1>0, <2>3, <2>5, ElementOfSeq DEF Behind
  <2>7. \A k \in 1 .. cnt : out[k] = Sent + k
    BY <1>0, <2>2 DEF Ahead
  <2>8. \A k \in n + 1 .. n + cnt : Stream'[k] = Sent + (k - n)
    <3>1. TAKE k \in n + 1 .. n + cnt
    <3>2. k - n \in 1 .. cnt /\ n + (k - n) = k
      BY <2>2, <2>3
    <3> QED
      BY <2>1, <2>7, <3>2
  <2>9. \A j, k \in 1 .. n : j < k => Stream[j] < Stream[k]
    BY <1>0 DEF Ordered
  <2> HIDE DEF n
  <2>10. Ordered(Stream')
    <3> SUFFICES ASSUME NEW j \in 1 .. n + cnt, NEW k \in 1 .. n + cnt, j < k
                 PROVE  Stream'[j] < Stream'[k]
      BY <2>1 DEF Ordered
    <3>1. CASE k <= n
      <4>1. j \in 1 .. n /\ k \in 1 .. n
        BY <2>2, <2>3, <3>1
      <4> QED
        BY <2>1, <2>9, <4>1
    <3>2. CASE j <= n /\ n < k
      <4>1. j \in 1 .. n /\ k \in n + 1 .. n + cnt
        BY <2>2, <2>3, <3>2
      <4>2. Stream'[j] = Stream[j] /\ Stream'[k] = Sent + (k - n)
        BY <2>1, <2>8, <4>1
      <4> QED
        BY <2>3, <2>4, <2>6, <4>1, <4>2
    <3>3. CASE n < j
      <4>1. j \in n + 1 .. n + cnt /\ k \in n + 1 .. n + cnt
        BY <2>2, <2>3, <3>3
      <4>2. Stream'[j] = Sent + (j - n) /\ Stream'[k] = Sent + (k - n)
        BY <2>8, <4>1
      <4> QED
        BY <2>3, <2>4, <4>1, <4>2
    <3> QED
      BY <2>2, <2>3, <3>1, <3>2, <3>3
  <2>11. Behind'
    <3> SUFFICES ASSUME NEW k \in 1 .. n + cnt PROVE Stream'[k] <= Sent'
      BY <2>1 DEF Behind
    <3>1. CASE k <= n
      <4>1. k \in 1 .. n
        BY <2>2, <2>3, <3>1
      <4>2. Stream'[k] = Stream[k] /\ Stream[k] \in Nat /\ Stream[k] <= Sent
        BY <2>1, <2>6, <4>1
      <4>3. Sent' = Sent + cnt
        BY <2>1
      <4> QED
        BY <2>2, <2>4, <4>2, <4>3
    <3>2. CASE n < k
      <4>1. k \in n + 1 .. n + cnt
        BY <2>2, <2>3, <3>2
      <4> QED
        BY <2>1, <2>2, <2>3, <2>4, <2>8, <4>1
    <3> QED
      BY <2>2, <2>3, <3>1, <3>2
  <2>12. Ahead'
    <3> SUFFICES ASSUME NEW k \in 1 .. Len(out') PROVE out'[k] = Sent' + k
      BY DEF Ahead
    <3>1. cnt + k \in 1 .. Len(out)
      BY <2>2
    <3>2. out'[k] = Sent + (cnt + k)
      BY <1>0, <2>1, <3>1 DEF Ahead
    <3> QED
      BY <2>1, <2>2, <2>4, <3>2
  <2> QED
    BY <2>10, <2>11, <2>12 DEF OrderInv, Ordered
<1>4. ASSUME NEW cnt \in Counts, RecvSome(cnt) PROVE OrderInv'
  <2>1. Stream' = Stream
    BY <1>4, Receives
  <2>2. UNCHANGED <<out, sent, closed>>
    BY <1>4, RecvStores DEF senderVars
  <2> QED
    BY <1>0, <2>1, <2>2 DEF OrderInv, Ordered, Behind, Ahead, Sent
<1> QED
  BY <1>1, <1>2, <1>3, <1>4, Steps

(* Bytes may get lost when calls fail half-way, but they are never repeated *)
(* or reordered, in either direction.                                       *)
THEOREM BytesInOrder == Spec => []InOrder
<1>1. OrderInv => InOrder
  BY DEF OrderInv, Ordered, Stream, InOrder
<1> QED
  BY <1>1, ShapeStarts, ShapeStep, OrderStarts, OrderStep, PTL DEF Spec

-----------------------------------------------------------------------------
(* The inductive invariant for the framing.  While no call fails half-way   *)
(* the stream is 1, 2, 3, ..., all that was given to the kernel; once the   *)
(* sender has ended, it is no shorter than the messages send_all() returned *)
(* len for and lacks the end of the next; and the receiver's buffers are    *)
(* whole messages.                                                          *)
Counted == \A k \in 1 .. Len(Stream) : Stream[k] = k
Lengths == IF closed = "no" THEN Len(Stream) = Sent
           ELSE sent * MsgLen <= Len(Stream) /\ Len(Stream) < sent * MsgLen + MsgLen
Buffers == \E h \in Nat : Len(got) = h * MsgLen
AtTheEnd == eof => Len(got) = sent * MsgLen
Frames == Counted /\ Lengths /\ Buffers /\ AtTheEnd
FrameInv == OrderInv /\ (Whole => Frames)

LEMMA FrameStarts == Init => FrameInv
<1> SUFFICES ASSUME Init PROVE Frames
  BY OrderStarts DEF FrameInv
<1>1. Stream = <<>> /\ out = <<>> /\ got = <<>> /\ Len(<<>>) = 0 /\ sent = 0
      /\ closed = "no" /\ ~eof
  BY ConcatEmptySeq, NoBytes DEF Init, Stream
<1>2. 0 * MsgLen = 0
  BY StreamAssumption
<1>3. Counted
  BY <1>1 DEF Counted
<1>4. Lengths
  BY <1>1, <1>2 DEF Lengths, Sent
<1>5. Buffers
  BY <1>1, <1>2 DEF Buffers
<1> QED
  BY <1>1, <1>3, <1>4, <1>5 DEF Frames, AtTheEnd

(* A multiple of the message length that is less than a message away.       *)
LEMMA SameMultiple ==
  ASSUME NEW h \in Nat, NEW s \in Nat, NEW i \in Nat, i < MsgLen,
         s * MsgLen <= h * MsgLen + i, h * MsgLen + i < s * MsgLen + MsgLen
  PROVE  h * MsgLen = s * MsgLen
<1>1. MsgLen \in Nat \ {0}
  BY StreamAssumption
<1>2. CASE h <= s - 1
  <2>1. h * MsgLen <= (s - 1) * MsgLen
    <3> DEFINE d == (s - 1) - h
    <3>1. d \in Nat /\ s - 1 = h + d
      BY <1>2
    <3>2. d * MsgLen \in Nat /\ (h + d) * MsgLen = h * MsgLen + d * MsgLen
      BY <1>1, <3>1
    <3> QED
      BY <1>1, <3>1, <3>2
  <2>2. (s - 1) * MsgLen = s * MsgLen - MsgLen
    BY <1>1
  <2>3. h * MsgLen \in Nat /\ s * MsgLen \in Nat
    BY <1>1
  <2> QED
    BY <1>1, <2>1, <2>2, <2>3
<1>3. CASE h >= s + 1
  <2>1. (s + 1) * MsgLen <= h * MsgLen
    <3> DEFINE d == h - (s + 1)
    <3>1. d \in Nat /\ h = (s + 1) + d
      BY <1>3
    <3>2. d * MsgLen \in Nat /\ ((s + 1) + d) * MsgLen = (s + 1) * MsgLen + d * MsgLen
      BY <1>1, <3>1
    <3>3. (s + 1) * MsgLen \in Nat
      BY <1>1
    <3> QED
      BY <3>1, <3>2, <3>3
  <2>2. (s + 1) * MsgLen = s * MsgLen + MsgLen
    BY <1>1
  <2>3. h * MsgLen \in Nat /\ s * MsgLen \in Nat
    BY <1>1
  <2> QED
    BY <1>1, <2>1, <2>2, <2>3
<1>4. h <= s - 1 \/ h = s \/ h >= s + 1
  OBVIOUS
<1> QED
  BY <1>2, <1>3, <1>4

LEMMA FrameStep == Shape /\ FrameInv /\ [Next]_vars => FrameInv'
<1> SUFFICES ASSUME Shape, OrderInv, Whole => Frames, [Next]_vars, Whole' PROVE Frames'
  BY OrderStep DEF FrameInv
<1>0. sender' = sender /\ signals' = 0 /\ sender = "server"
  BY DEF Whole, Next, vars
<1>1. signals = 0
  <2>1. signals \in Nat
    BY DEF Shape, Bytes
  <2>2. ASSUME NEW errno \in Errnos, SendError(errno) \/ RecvError(errno)
        PROVE  signals' = signals \/ signals' = signals + 1
    BY <2>2 DEF SendError, RecvError, Errno
  <2>3. ASSUME NEW cnt \in Counts, SendSome(cnt) \/ RecvSome(cnt)
        PROVE  signals' = signals
    BY <2>3 DEF SendSome, RecvSome
  <2>4. SendAll \/ SenderClose \/ RecvAll \/ RecvEof \/ UNCHANGED vars
          => signals' = signals
    BY DEF SendAll, SenderClose, RecvAll, RecvEof, vars
  <2>5. signals' = signals \/ signals' = signals + 1
    BY <2>2, <2>3, <2>4 DEF Next, Send, Recv
  <2> QED
    BY <1>0, <2>1, <2>5
<1>2. Counted /\ Lengths /\ Buffers /\ AtTheEnd
  BY <1>0, <1>1 DEF Whole, Frames
<1>3. /\ sent * MsgLen \in Nat /\ Sent \in Nat /\ sent * MsgLen <= Sent
      /\ Sent < sent * MsgLen + MsgLen
  BY SentIs
<1>4. CASE Idle
  <2>1. Stream' = Stream
    BY <1>4, Idles
  <2>2. UNCHANGED <<got, eof, sent>>
    BY <1>4 DEF Idle, SendAll, SendError, SenderClose, RecvAll, vars,
                senderVars, receiverVars
  <2>3. Counted' /\ Buffers' /\ AtTheEnd'
    BY <1>2, <2>1, <2>2 DEF Counted, Buffers, AtTheEnd
  <2>4. Lengths'
    <3>1. CASE closed' = closed /\ (closed = "no" => Sent' = Sent)
      BY <1>2, <2>1, <2>2, <3>1 DEF Lengths
    <3>2. CASE closed = "no" /\ closed' # "no"
      BY <1>2, <1>3, <2>1, <2>2, <3>2 DEF Lengths
    <3>3. SenderClose \/ (\E errno \in Errnos : SendError(errno)) => closed = "no"
      BY DEF SenderClose, SendError
    <3>4. SendAll \/ RecvAll \/ UNCHANGED vars => closed' = closed
      BY DEF SendAll, RecvAll, vars
    <3>5. closed' = closed \/ closed = "no"
      BY <1>4, <3>3, <3>4 DEF Idle
    <3>6. closed' # "no" \/ Sent' = Sent
      BY <1>4, SentStays
    <3> QED
      BY <3>1, <3>2, <3>5, <3>6
  <2> QED
    BY <2>3, <2>4 DEF Frames
<1>5. CASE Fails
  <2>1. RecvEof
    <3>1. ASSUME NEW errno \in Errnos, RecvError(errno) PROVE FALSE
      BY <1>0, <1>1, <3>1 DEF RecvError, Errno
    <3> QED
      BY <1>5, <3>1 DEF Fails
  <2>2. /\ Stream' = got /\ Stream = got \o in
        /\ UNCHANGED <<out, sent, closed, got>>
    BY <1>5, Drops
  <2>3. closed # "no"
    BY <2>1 DEF RecvEof, AtEof
  <2>4. /\ Len(got) \in Nat /\ Len(in) \in Nat /\ Len(Stream) = Len(got) + Len(in)
        /\ Len(in) < MsgLen /\ sent \in Nat
        /\ \A k \in 1 .. Len(got) : Stream[k] = got[k]
    BY <2>2, StreamIs DEF Shape, Bytes
  <2>5. PICK h \in Nat : Len(got) = h * MsgLen
    BY <1>2 DEF Buffers
  <2>6. sent * MsgLen <= Len(Stream) /\ Len(Stream) < sent * MsgLen + MsgLen
    BY <1>2, <2>3 DEF Lengths
  <2>7. h * MsgLen = sent * MsgLen
    <3>1. /\ sent * MsgLen <= h * MsgLen + Len(in)
          /\ h * MsgLen + Len(in) < sent * MsgLen + MsgLen
      BY <2>4, <2>5, <2>6
    <3> QED
      BY <2>4, <3>1, SameMultiple
  <2>8. Counted'
    <3> SUFFICES ASSUME NEW k \in 1 .. Len(got) PROVE got[k] = k
      BY <2>2 DEF Counted
    <3>1. k \in 1 .. Len(Stream)
      BY <2>4
    <3> QED
      BY <1>2, <2>4, <3>1 DEF Counted
  <2>9. Len(got') = sent' * MsgLen /\ Len(Stream') = sent' * MsgLen
    BY <2>2, <2>5, <2>7
  <2>10. Lengths' /\ AtTheEnd'
    BY <1>3, <2>2, <2>3, <2>9, StreamAssumption DEF Lengths, AtTheEnd
  <2>11. Buffers'
    BY <2>4, <2>2, <2>9 DEF Buffers
  <2> QED
    BY <2>8, <2>10, <2>11 DEF Frames
<1>6. ASSUME NEW cnt \in Counts, SendSome(cnt) PROVE Frames'
  <2> DEFINE n == Len(Stream)
  <2>1. /\ Len(Stream') = n + cnt
        /\ \A k \in 1 .. n : Stream'[k] = Stream[k]
        /\ \A k \in 1 .. cnt : Stream'[n + k] = out[k]
        /\ Sent' = Sent + cnt
    BY <1>6, Sends
  <2>2. closed = "no" /\ closed' = "no" /\ UNCHANGED <<got, eof>>
    BY <1>6 DEF SendSome, receiverVars
  <2>3. n = Sent /\ n \in Nat
    BY <1>2, <2>2, StreamIs DEF Lengths
  <2>4. cnt \in Nat /\ cnt <= Len(out) /\ Len(out) \in Nat
    BY <1>6, SendMoves
  <2>5. \A k \in 1 .. cnt : out[k] = Sent + k
    BY <2>4 DEF OrderInv, Ahead
  <2>6. \A k \in 1 .. n : Stream[k] = k
    BY <1>2 DEF Counted
  <2> HIDE DEF n
  <2>7. Counted'
    <3> SUFFICES ASSUME NEW k \in 1 .. n + cnt PROVE Stream'[k] = k
      BY <2>1 DEF Counted
    <3>1. CASE k <= n
      <4>1. k \in 1 .. n
        BY <2>3, <2>4, <3>1
      <4> QED
        BY <2>1, <2>6, <4>1
    <3>2. CASE n < k
      <4>1. k - n \in 1 .. cnt /\ n + (k - n) = k
        BY <2>3, <2>4, <3>2
      <4> QED
        BY <2>1, <2>3, <2>5, <4>1
    <3> QED
      BY <2>3, <2>4, <3>1, <3>2
  <2>8. Lengths'
    BY <2>1, <2>2, <2>3 DEF Lengths
  <2>9. ~eof
    BY <2>2 DEF Shape, Calls
  <2>10. Buffers' /\ AtTheEnd'
    BY <1>2, <2>2, <2>9 DEF Buffers, AtTheEnd
  <2> QED
    BY <2>7, <2>8, <2>10 DEF Frames
<1>7. ASSUME NEW cnt \in Counts, RecvSome(cnt) PROVE Frames'
  <2>1. Stream' = Stream
    BY <1>7, Receives
  <2>2. UNCHANGED <<out, sent, closed, eof>> /\ calling
    BY <1>7, RecvStores DEF senderVars
  <2>3. Counted'
    BY <1>2, <2>1 DEF Counted
  <2>4. Lengths'
    BY <1>2, <2>1, <2>2 DEF Lengths, Sent
  <2>5. AtTheEnd'
    BY <2>2 DEF Shape, Calls, AtTheEnd
  <2>6. Buffers'
    <3>1. CASE UNCHANGED got
      BY <1>2, <3>1 DEF Buffers
    <3>2. CASE Len(Data(cnt)) = MsgLen /\ got' = got \o Data(cnt)
      <4>1. PICK h \in Nat : Len(got) = h * MsgLen
        BY <1>2 DEF Buffers
      <4>2. got \in Seq(Nat) /\ Data(cnt) \in Seq(Nat)
        BY <1>7, RecvMoves, StreamIs
      <4>3. Len(got') = h * MsgLen + MsgLen
        BY <3>2, <4>1, <4>2, Join
      <4>4. h + 1 \in Nat /\ (h + 1) * MsgLen = h * MsgLen + MsgLen
        BY StreamAssumption
      <4> QED
        BY <4>3, <4>4 DEF Buffers
    <3> QED
      BY <1>7, <3>1, <3>2, RecvStores
  <2> QED
    BY <2>3, <2>4, <2>5, <2>6 DEF Frames
<1> QED
  BY <1>4, <1>5, <1>6, <1>7, Steps

(* From the server to a client that no signal interrupts, every buffer      *)
(* recv_all() fills is the next message, however the kernel cuts the stream.*)
THEOREM FramesAreWhole == Spec => []FramedIfWhole
<1>1. Shape /\ FrameInv => FramedIfWhole
  <2> SUFFICES ASSUME Shape, FrameInv, Whole PROVE Framed
    BY DEF FramedIfWhole
  <2>1. Counted
    BY DEF FrameInv, Frames
  <2>2. Len(got) \in Nat /\ Len(Stream) \in Nat /\ Len(got) <= Len(Stream)
        /\ \A k \in 1 .. Len(got) : Stream[k] = got[k]
    BY StreamIs
  <2> SUFFICES ASSUME NEW k \in 1 .. Len(got) PROVE got[k] = k
    BY DEF Framed
  <2>3. k \in 1 .. Len(Stream)
    BY <2>2
  <2> QED
    BY <2>1, <2>2, <2>3 DEF Counted
<1> QED
  BY <1>1, ShapeStarts, ShapeStep, FrameStarts, FrameStep, PTL DEF Spec

(* recv_all() returns 0 only when every message that send_all() completed   *)
(* has been handed out.                                                     *)
THEOREM EofIsTheEnd == Spec => []EofAfterAll
<1>1. FrameInv => EofAfterAll
  BY DEF FrameInv, Frames, AtTheEnd, EofAfterAll
<1> QED
  BY <1>1, ShapeStarts, ShapeStep, FrameStarts, FrameStep, PTL DEF Spec
=============================================================================
