-------------------------- MODULE ByteStreamProofs ---------------------------
(***************************************************************************)
(* Proofs about the byte streams between the server and its peers, for any *)
(* number and length of messages: what a connection puts into its socket,  *)
(* how the clients cut it into messages, and how the server does what it   *)
(* receives. Each part is about the specification of one side:             *)
(* OutputPath's, ClientFraming's as Reader and Deframer's as Input.        *)
(***************************************************************************)
EXTENDS MCStreams, SequenceTheorems, Recursion

-----------------------------------------------------------------------------
(***************************************************************************)
(* What leaves a connection                                                *)
(*                                                                         *)
(* Proofs about OutputPath for any number and length of messages and any   *)
(* room in the socket.                                                     *)
(*                                                                         *)
(* BytesInOrder is not inductive: what is appended must also be later than *)
(* everything that has left. So the invariant follows the messages: those  *)
(* in the queue are the last ones queued, in order, and the bytes that     *)
(* have left are of earlier ones.                                          *)
(***************************************************************************)

Increasing(s) == \A i, j \in DOMAIN s : i < j => s[i] < s[j]

\* The number of messages that have left the queue.
Popped == queued - Len(output_queue_)

IInv ==
  /\ TypeOK
  /\ Increasing(Left)
  /\ Popped \in Nat
  /\ \A k \in DOMAIN output_queue_ : output_queue_[k] = Popped + k
  /\ \A i \in DOMAIN Left : Left[i] <= Popped * FrameLen

-----------------------------------------------------------------------------
(* Sequences of bytes *)

\* What comes later and is later keeps the order.
LEMMA ConcatIncreasing ==
  ASSUME NEW s \in Seq(Nat), NEW t \in Seq(Nat), Increasing(s), Increasing(t),
         NEW b \in Nat, \A i \in DOMAIN s : s[i] <= b, \A j \in DOMAIN t : b < t[j]
  PROVE  Increasing(s \o t)
<1>1. /\ Len(s \o t) = Len(s) + Len(t)
      /\ \A i \in 1..Len(s) + Len(t) : (s \o t)[i] = IF i <= Len(s) THEN s[i] ELSE t[i - Len(s)]
      /\ DOMAIN (s \o t) = 1..Len(s) + Len(t)
  BY ConcatProperties
<1>2. DOMAIN s = 1..Len(s) /\ DOMAIN t = 1..Len(t) /\ Len(s) \in Nat /\ Len(t) \in Nat
  OBVIOUS
<1>3. /\ \A i \in 1..Len(s) : s[i] \in Nat /\ s[i] <= b
      /\ \A i \in 1..Len(t) : t[i] \in Nat /\ b < t[i]
  <2>1. /\ \A i \in 1..Len(s) : s[i] \in Nat
        /\ \A i \in 1..Len(t) : t[i] \in Nat
    BY <1>2
  <2>2. \A i \in 1..Len(s) : s[i] <= b
    BY <1>2, Zenon
  <2>3. \A i \in 1..Len(t) : b < t[i]
    BY <1>2, Zenon
  <2> QED
    BY <2>1, <2>2, <2>3
<1>4. /\ \A i, j \in 1..Len(s) : i < j => s[i] < s[j]
      /\ \A i, j \in 1..Len(t) : i < j => t[i] < t[j]
  BY <1>2 DEF Increasing
<1> SUFFICES ASSUME NEW i \in 1..Len(s) + Len(t), NEW j \in 1..Len(s) + Len(t), i < j
             PROVE  (s \o t)[i] < (s \o t)[j]
  BY <1>1 DEF Increasing
<1>5. i \in Nat /\ j \in Nat
  BY <1>2
<1>6. CASE j <= Len(s)
  <2>1. i \in 1..Len(s) /\ j \in 1..Len(s) /\ i <= Len(s)
    BY <1>2, <1>5, <1>6
  <2>2. (s \o t)[i] = s[i] /\ (s \o t)[j] = s[j]
    BY <1>1, <2>1, <1>6
  <2> QED
    BY <1>4, <2>1, <2>2
<1>7. CASE i <= Len(s) /\ ~(j <= Len(s))
  <2> DEFINE k == j - Len(s)
  <2>1. i \in 1..Len(s) /\ k \in 1..Len(t)
    BY <1>2, <1>5, <1>7
  <2>2. (s \o t)[i] = s[i] /\ (s \o t)[j] = t[k]
    BY <1>1, <1>7
  <2>3. s[i] \in Nat /\ s[i] <= b /\ t[k] \in Nat /\ b < t[k]
    BY <1>3, <2>1
  <2> QED
    BY <2>2, <2>3
<1>8. CASE ~(i <= Len(s))
  <2> DEFINE h == i - Len(s)
             k == j - Len(s)
  <2>1. h \in 1..Len(t) /\ k \in 1..Len(t) /\ h < k /\ ~(j <= Len(s))
    BY <1>2, <1>5, <1>8
  <2>2. (s \o t)[i] = t[h] /\ (s \o t)[j] = t[k]
    BY <1>1, <1>8, <2>1
  <2>3. t[h] < t[k]
    BY <1>4, <2>1
  <2> QED
    BY <2>2, <2>3
<1> QED
  BY <1>2, <1>5, <1>6, <1>7, <1>8

\* A start of what is in order is in order, whatever stands before it.
LEMMA PrefixOfConcat ==
  ASSUME NEW s \in Seq(Nat), NEW t \in Seq(Nat), NEW n \in 0..Len(t)
  PROVE  /\ SubSeq(t, 1, n) \in Seq(Nat) /\ s \o SubSeq(t, 1, n) \in Seq(Nat)
         /\ DOMAIN (s \o SubSeq(t, 1, n)) \subseteq DOMAIN (s \o t)
         /\ \A i \in DOMAIN (s \o SubSeq(t, 1, n)) : (s \o SubSeq(t, 1, n))[i] = (s \o t)[i]
<1> DEFINE u == SubSeq(t, 1, n)
<1>1. u \in Seq(Nat) /\ Len(u) = n /\ \A i \in 1..n : u[i] = t[i]
  OBVIOUS
<1>2. /\ s \o u \in Seq(Nat) /\ Len(s \o u) = Len(s) + n
      /\ \A i \in 1..Len(s) + n : (s \o u)[i] = IF i <= Len(s) THEN s[i] ELSE u[i - Len(s)]
  BY <1>1, ConcatProperties
<1>3. /\ s \o t \in Seq(Nat) /\ Len(s \o t) = Len(s) + Len(t)
      /\ \A i \in 1..Len(s) + Len(t) : (s \o t)[i] = IF i <= Len(s) THEN s[i] ELSE t[i - Len(s)]
  BY ConcatProperties
<1>4. DOMAIN (s \o u) = 1..Len(s) + n /\ DOMAIN (s \o t) = 1..Len(s) + Len(t)
  BY <1>2, <1>3
<1>5. Len(s) \in Nat /\ Len(t) \in Nat /\ n \in Nat /\ n <= Len(t)
  OBVIOUS
<1>6. ASSUME NEW i \in 1..Len(s) + n
      PROVE  i \in 1..Len(s) + Len(t) /\ (s \o u)[i] = (s \o t)[i]
  <2>1. i \in 1..Len(s) + Len(t)
    BY <1>5
  <2>2. CASE i <= Len(s)
    BY <1>2, <1>3, <2>1, <2>2
  <2>3. CASE ~(i <= Len(s))
    <3>1. i - Len(s) \in 1..n
      BY <1>5, <2>3
    <3>2. u[i - Len(s)] = t[i - Len(s)]
      BY <1>1, <3>1
    <3> QED
      BY <1>2, <1>3, <2>1, <2>3, <3>2
  <2> QED
    BY <2>1, <2>2, <2>3
<1> QED
  BY <1>1, <1>2, <1>4, <1>6

\* The bytes of a frame: after those of the frame before it.
LEMMA FrameBytes ==
  ASSUME NEW m \in Nat
  PROVE  /\ Frame(m + 1) \in Seq(Nat) /\ Len(Frame(m + 1)) = FrameLen
         /\ Increasing(Frame(m + 1))
         /\ \A k \in 1..FrameLen : m * FrameLen < Frame(m + 1)[k] /\ Frame(m + 1)[k] <= (m + 1) * FrameLen
         /\ m * FrameLen \in Nat /\ (m + 1) * FrameLen \in Nat /\ m * FrameLen <= (m + 1) * FrameLen
<1>1. FrameLen \in Nat
  BY OutputAssumption
<1> DEFINE base == m * FrameLen
<1>2. base \in Nat /\ (m + 1) * FrameLen = base + FrameLen /\ (m + 1) - 1 = m
  BY <1>1
<1>3. Frame(m + 1) = [k \in 1..FrameLen |-> base + k]
  BY <1>2 DEF Frame
<1> HIDE DEF base
<1>4. /\ Frame(m + 1) \in Seq(Nat) /\ Len(Frame(m + 1)) = FrameLen /\ DOMAIN Frame(m + 1) = 1..FrameLen
      /\ \A k \in 1..FrameLen : Frame(m + 1)[k] = base + k
  BY <1>1, <1>2, <1>3
<1>5. Increasing(Frame(m + 1))
  BY <1>1, <1>2, <1>4 DEF Increasing
<1> QED
  BY <1>1, <1>2, <1>4, <1>5 DEF base

\* It does not matter in which order three pieces are put together.
LEMMA Associative ==
  ASSUME NEW r \in Seq(Nat), NEW w \in Seq(Nat), NEW p \in Seq(Nat)
  PROVE  r \o (w \o p) = r \o w \o p
BY ConcatAssociative

\* The peer takes the first byte of the wire; nothing else changes.
LEMMA TakeFromWire ==
  ASSUME NEW r \in Seq(Nat), NEW w \in Seq(Nat), w # <<>>
  PROVE  Append(r, Head(w)) \o Tail(w) = r \o w
<1>1. w = << Head(w) >> \o Tail(w) /\ << Head(w) >> \in Seq(Nat) /\ Tail(w) \in Seq(Nat)
  OBVIOUS
<1>2. Append(r, Head(w)) = r \o << Head(w) >>
  OBVIOUS
<1>3. r \o (<< Head(w) >> \o Tail(w)) = (r \o << Head(w) >>) \o Tail(w)
  BY <1>1, ConcatAssociative
<1> QED
  BY <1>1, <1>2, <1>3

-----------------------------------------------------------------------------
(* The steps *)

\* The parts of the invariant about what has left, for a bound on its bytes.
LeftUpTo(s, popped) == Increasing(s) /\ \A i \in DOMAIN s : s[i] <= popped * FrameLen

LEMMA InitIInv == Init => IInv
<1> SUFFICES ASSUME Init PROVE IInv
  OBVIOUS
<1>1. TypeOK
  <2>1. flushing \in BOOLEAN /\ choked \in BOOLEAN
    BY DEF Init
  <2>2. output_queue_ \in Seq(1..MaxMessages) /\ buffer_ \in Seq(Nat) /\ wire \in Seq(Nat) /\ received \in Seq(Nat)
    BY DEF Init
  <2>3. queued \in 0..MaxMessages
    BY OutputAssumption DEF Init
  <2> QED
    BY <2>1, <2>2, <2>3 DEF TypeOK
<1>2. Left = <<>> /\ Popped = 0
  <2>1. <<>> \o <<>> = <<>>
    OBVIOUS
  <2>2. Left = <<>>
    BY <2>1, Zenon DEF Init, Left
  <2>3. Popped = 0
    <3>1. queued = 0 /\ Len(output_queue_) = 0
      BY DEF Init
    <3> QED
      BY <3>1 DEF Popped
  <2> QED
    BY <2>2, <2>3
<1>3. DOMAIN output_queue_ = {}
  BY DEF Init
<1> QED
  BY <1>1, <1>2, <1>3 DEF IInv, Increasing

\* A message is queued.
LEMMA AddOutputIInv ==
  ASSUME IInv, AddOutput
  PROVE  IInv'
<1>1. /\ queued \in Nat /\ queued < MaxMessages /\ queued' = queued + 1 /\ MaxMessages \in Nat
      /\ output_queue_ \in Seq(1..MaxMessages) /\ output_queue_' = Append(output_queue_, queued + 1)
  BY OutputAssumption DEF IInv, TypeOK, AddOutput
<1>2. /\ output_queue_' \in Seq(1..MaxMessages) /\ Len(output_queue_') = Len(output_queue_) + 1
      /\ \A k \in 1..Len(output_queue_) : output_queue_'[k] = output_queue_[k]
      /\ output_queue_'[Len(output_queue_) + 1] = queued + 1
  BY <1>1
<1>3. Popped' = Popped /\ Left' = Left
  BY <1>1, <1>2 DEF AddOutput, Popped, Left
<1>4. TypeOK'
  BY <1>1, <1>2 DEF IInv, TypeOK, AddOutput
<1>5. \A k \in DOMAIN output_queue_' : output_queue_'[k] = Popped' + k
  <2> SUFFICES ASSUME NEW k \in 1..Len(output_queue_) + 1
               PROVE  output_queue_'[k] = Popped + k
    BY <1>2, <1>3
  <2>1. CASE k \in 1..Len(output_queue_)
    BY <1>2, <2>1 DEF IInv
  <2>2. CASE k = Len(output_queue_) + 1
    BY <1>1, <1>2, <2>2 DEF Popped
  <2> QED
    BY <1>1, <2>1, <2>2
<1> QED
  BY <1>3, <1>4, <1>5 DEF IInv

\* What onOutput takes from the queue: the next message, whatever write does with it.
LEMMA PopMessage ==
  ASSUME IInv, output_queue_ # <<>>, output_queue_' = AfterWrite, queued' = queued
  PROVE  /\ output_queue_' \in Seq(1..MaxMessages)
         /\ Popped' = Popped + 1
         /\ \A k \in DOMAIN output_queue_' : output_queue_'[k] = Popped' + k
         /\ Head(output_queue_) = Popped + 1
<1>1. /\ output_queue_ \in Seq(1..MaxMessages) /\ Len(output_queue_) \in Nat \ {0}
      /\ queued \in Nat /\ Popped \in Nat
      /\ \A k \in 1..Len(output_queue_) : output_queue_[k] = Popped + k
  BY OutputAssumption DEF IInv, TypeOK
<1>2. /\ output_queue_' \in Seq(1..MaxMessages) /\ Len(output_queue_') = Len(output_queue_) - 1
      /\ \A k \in 1..Len(output_queue_) - 1 : output_queue_'[k] = output_queue_[k + 1]
      /\ Head(output_queue_) = output_queue_[1]
  BY <1>1 DEF AfterWrite
<1>3. Popped' = Popped + 1
  BY <1>1, <1>2 DEF Popped
<1>4. ASSUME NEW k \in 1..Len(output_queue_) - 1
      PROVE  output_queue_'[k] = Popped' + k
  <2>1. k + 1 \in 1..Len(output_queue_) /\ k \in Nat
    BY <1>1
  <2> QED
    BY <1>1, <1>2, <1>3, <2>1
<1> QED
  BY <1>1, <1>2, <1>3, <1>4

\* What is written or remembered, whole or cut short, keeps the order.
LEMMA PieceInOrder ==
  ASSUME IInv, output_queue_ # <<>>, Head(output_queue_) = Popped + 1,
         NEW n \in 0..Len(ToWrite)
  PROVE  /\ ToWrite \in Seq(Nat) /\ SubSeq(ToWrite, 1, n) \in Seq(Nat)
         /\ LeftUpTo(received \o wire \o SubSeq(ToWrite, 1, n), Popped + 1)
<1> DEFINE before == received \o wire
           piece  == SubSeq(ToWrite, 1, n)
<1>1. /\ received \in Seq(Nat) /\ wire \in Seq(Nat) /\ buffer_ \in Seq(Nat) /\ Popped \in Nat
      /\ before \in Seq(Nat)
  BY DEF IInv, TypeOK
<1>2. Increasing(before \o buffer_) /\ \A i \in DOMAIN (before \o buffer_) : (before \o buffer_)[i] <= Popped * FrameLen
  BY DEF IInv, Left
<1>3. Popped * FrameLen \in Nat /\ (Popped + 1) * FrameLen \in Nat /\ Popped * FrameLen <= (Popped + 1) * FrameLen
  BY <1>1, FrameBytes
<1>4. CASE buffer_ = <<>>
  <2>1. ToWrite = Frame(Popped + 1) /\ before \o buffer_ = before
    BY <1>1, <1>4 DEF ToWrite
  <2>2. /\ ToWrite \in Seq(Nat) /\ Len(ToWrite) = FrameLen /\ Increasing(ToWrite)
        /\ \A k \in 1..FrameLen : Popped * FrameLen < ToWrite[k] /\ ToWrite[k] <= (Popped + 1) * FrameLen
    BY <1>1, <2>1, FrameBytes
  <2>3. /\ piece \in Seq(Nat) /\ DOMAIN piece = 1..n
        /\ \A i \in 1..n : piece[i] = ToWrite[i] /\ i \in 1..FrameLen /\ i \in DOMAIN ToWrite
    BY <2>2
  <2>4. Increasing(piece) /\ \A k \in DOMAIN piece : Popped * FrameLen < piece[k] /\ piece[k] <= (Popped + 1) * FrameLen
    BY <2>2, <2>3 DEF Increasing
  <2> HIDE DEF piece, before
  <2>5. Increasing(before \o piece)
    <3>1. Increasing(before) /\ \A i \in DOMAIN before : before[i] <= Popped * FrameLen
      BY <1>2, <2>1
    <3> QED
      BY <1>1, <1>3, <2>3, <2>4, <3>1, ConcatIncreasing
  <2>6. \A i \in DOMAIN (before \o piece) : (before \o piece)[i] <= (Popped + 1) * FrameLen
    <3>1. /\ Len(before \o piece) = Len(before) + Len(piece) /\ before \o piece \in Seq(Nat)
          /\ \A i \in 1..Len(before) + Len(piece) :
               (before \o piece)[i] = IF i <= Len(before) THEN before[i] ELSE piece[i - Len(before)]
      BY <1>1, <2>3, ConcatProperties
    <3> SUFFICES ASSUME NEW i \in 1..Len(before) + Len(piece)
                 PROVE  (before \o piece)[i] <= (Popped + 1) * FrameLen
      BY <3>1
    <3>2. Len(before) \in Nat /\ Len(piece) \in Nat /\ DOMAIN piece = 1..Len(piece) /\ DOMAIN before = 1..Len(before)
      BY <1>1, <2>3
    <3>3. CASE i <= Len(before)
      <4>1. i \in DOMAIN before /\ before[i] \in Nat
        BY <1>1, <3>2, <3>3
      <4>2. before[i] <= Popped * FrameLen
        BY <1>2, <2>1, <4>1
      <4> QED
        BY <1>3, <3>1, <3>3, <4>1, <4>2
    <3>4. CASE ~(i <= Len(before))
      <4>1. i - Len(before) \in DOMAIN piece
        BY <3>2, <3>4
      <4>2. piece[i - Len(before)] <= (Popped + 1) * FrameLen
        BY <2>4, <4>1
      <4> QED
        BY <3>1, <3>4, <4>2
    <3> QED
      BY <3>3, <3>4
  <2> QED
    BY <2>2, <2>3, <2>5, <2>6 DEF LeftUpTo, before, piece
<1>5. CASE buffer_ # <<>>
  <2>1. ToWrite = buffer_
    BY <1>5 DEF ToWrite
  <2>2. n \in 0..Len(buffer_)
    BY <2>1
  <2> HIDE DEF before
  <2> DEFINE u == before \o SubSeq(buffer_, 1, n)
             v == before \o buffer_
  <2>3. /\ SubSeq(buffer_, 1, n) \in Seq(Nat) /\ u \in Seq(Nat) /\ v \in Seq(Nat)
        /\ DOMAIN u \subseteq DOMAIN v /\ \A i \in DOMAIN u : u[i] = v[i]
    <3>1. v \in Seq(Nat)
      BY <1>1, ConcatProperties
    <3> QED
      BY <1>1, <2>2, <3>1, PrefixOfConcat
  <2>4. \A i, j \in DOMAIN u : i < j => u[i] < u[j]
    <3>1. \A i, j \in DOMAIN v : i < j => v[i] < v[j]
      BY <1>2 DEF Increasing
    <3> HIDE DEF u, v
    <3> QED
      BY <2>3, <3>1
  <2>5. \A i \in DOMAIN u : u[i] <= (Popped + 1) * FrameLen
    <3> SUFFICES ASSUME NEW i \in DOMAIN u PROVE u[i] <= (Popped + 1) * FrameLen
      OBVIOUS
    <3> DEFINE low  == Popped * FrameLen
               high == (Popped + 1) * FrameLen
    <3>0. DOMAIN u = 1..Len(u) /\ i \in DOMAIN v
      BY <2>3
    <3> HIDE DEF u, v
    <3>1. u[i] \in Nat /\ u[i] = v[i]
      BY <2>3, <3>0
    <3>2. v[i] <= low
      BY <1>2, <3>0 DEF v
    <3>3. low \in Nat /\ high \in Nat /\ low <= high
      BY <1>3
    <3> HIDE DEF low, high
    <3>4. u[i] <= high
      BY <3>1, <3>2, <3>3
    <3> QED
      BY <3>4 DEF high
  <2> QED
    BY <1>1, <2>1, <2>3, <2>4, <2>5 DEF LeftUpTo, Increasing, before
<1> QED
  BY <1>4, <1>5

\* onOutput hands a message to write: it goes to the wire as far as there is room.
LEMMA WriteIInv ==
  ASSUME IInv, Write
  PROVE  IInv'
<1>1. /\ output_queue_ # <<>> /\ output_queue_' = AfterWrite /\ buffer_' = <<>>
      /\ flushing' = flushing /\ received' = received /\ queued' = queued
  BY DEF Write, Remembered
<1>2. /\ output_queue_' \in Seq(1..MaxMessages) /\ Popped' = Popped + 1
      /\ \A k \in DOMAIN output_queue_' : output_queue_'[k] = Popped' + k
      /\ Head(output_queue_) = Popped + 1
  BY <1>1, PopMessage
<1>3. /\ received \in Seq(Nat) /\ wire \in Seq(Nat) /\ buffer_ \in Seq(Nat) /\ Popped \in Nat
      /\ queued \in 0..MaxMessages /\ flushing \in BOOLEAN
  BY DEF IInv, TypeOK
<1>4. ToWrite \in Seq(Nat)
  <2>1. 0 \in 0..Len(ToWrite)
    <3>1. CASE buffer_ = <<>>
      <4>1. ToWrite = Frame(Popped + 1)
        BY <1>2, <3>1 DEF ToWrite
      <4> QED
        BY <1>3, <4>1, FrameBytes
    <3>2. CASE buffer_ # <<>>
      BY <1>3, <3>2 DEF ToWrite
    <3> QED
      BY <3>1, <3>2
  <2> QED
    BY <1>1, <1>2, <2>1, PieceInOrder
<1>5. PICK n \in 0..Len(ToWrite) :
        /\ wire' = wire \o SubSeq(ToWrite, 1, n)
        /\ choked' = (choked \/ n < Len(ToWrite))
  <2>1. Room \in Nat \ {0} /\ Len(ToWrite) \in Nat
    BY <1>3, <1>4, OutputAssumption DEF Write, Room
  <2> DEFINE k == IF Len(ToWrite) <= Room THEN Len(ToWrite) ELSE Room
  <2>2. k \in 0..Len(ToWrite)
    BY <2>1
  <2>3. wire' = wire \o SubSeq(ToWrite, 1, k) /\ choked' = (choked \/ k < Len(ToWrite))
    BY DEF Write
  <2> QED
    BY <2>2, <2>3
<1> DEFINE piece == SubSeq(ToWrite, 1, n)
<1>6. piece \in Seq(Nat) /\ LeftUpTo(received \o wire \o piece, Popped + 1)
  BY <1>1, <1>2, PieceInOrder
<1> HIDE DEF piece
<1>7. Left' = received \o wire \o piece
  <2>1. wire' = wire \o piece /\ wire' \in Seq(Nat)
    BY <1>3, <1>5, <1>6 DEF piece
  <2>2. received \o (wire \o piece) = received \o wire \o piece
    BY <1>3, <1>6, Associative
  <2>3. received \o wire' \in Seq(Nat)
    BY <1>3, <2>1, ConcatProperties
  <2>4. (received \o wire') \o <<>> = received \o wire'
    BY <2>3
  <2> QED
    BY <1>1, <2>1, <2>2, <2>4 DEF Left
<1>8. TypeOK'
  <2>1. wire' \in Seq(Nat) /\ buffer_' \in Seq(Nat)
    BY <1>1, <1>3, <1>5, <1>6 DEF piece
  <2>2. choked' \in BOOLEAN
    BY <1>5
  <2> QED
    BY <1>1, <1>2, <1>3, <2>1, <2>2 DEF TypeOK
<1>9. Popped' \in Nat
  BY <1>2, <1>3
<1> QED
  BY <1>2, <1>6, <1>7, <1>8, <1>9 DEF IInv, LeftUpTo

\* The socket is full: the message is remembered, or lost to the one that already is.
LEMMA BlockedIInv ==
  ASSUME IInv, WriteBlocked
  PROVE  IInv'
<1>1. /\ output_queue_ # <<>> /\ output_queue_' = AfterWrite /\ buffer_' = ToWrite
      /\ flushing' = flushing /\ received' = received /\ queued' = queued /\ wire' = wire
      /\ choked' = TRUE
  BY DEF WriteBlocked
<1>2. /\ output_queue_' \in Seq(1..MaxMessages) /\ Popped' = Popped + 1
      /\ \A k \in DOMAIN output_queue_' : output_queue_'[k] = Popped' + k
      /\ Head(output_queue_) = Popped + 1
  BY <1>1, PopMessage
<1>3. /\ buffer_ \in Seq(Nat) /\ Popped \in Nat /\ received \in Seq(Nat) /\ wire \in Seq(Nat)
      /\ queued \in 0..MaxMessages /\ flushing \in BOOLEAN
  BY DEF IInv, TypeOK
<1>4. Len(ToWrite) \in Nat
  <2>1. CASE buffer_ = <<>>
    <3>1. ToWrite = Frame(Popped + 1)
      BY <1>2, <2>1 DEF ToWrite
    <3> QED
      BY <1>3, <3>1, FrameBytes
  <2>2. CASE buffer_ # <<>>
    BY <1>3, <2>2 DEF ToWrite
  <2> QED
    BY <2>1, <2>2
<1> DEFINE whole == SubSeq(ToWrite, 1, Len(ToWrite))
<1>5. ToWrite \in Seq(Nat) /\ LeftUpTo(received \o wire \o whole, Popped + 1)
  <2>1. Len(ToWrite) \in 0..Len(ToWrite)
    BY <1>4
  <2> QED
    BY <1>1, <1>2, <2>1, PieceInOrder
<1>6. whole = ToWrite
  BY <1>5
<1>7. Left' = received \o wire \o ToWrite
  BY <1>1 DEF Left
<1>8. TypeOK'
  BY <1>1, <1>2, <1>3, <1>5 DEF TypeOK
<1>9. Popped' \in Nat
  BY <1>2, <1>3
<1> QED
  BY <1>2, <1>5, <1>6, <1>7, <1>8, <1>9 DEF IInv, LeftUpTo

\* The rest leaves the messages where they are.
LEMMA OtherIInv ==
  ASSUME IInv, OnOutput \/ EndOutput \/ PeerReads \/ UNCHANGED vars
  PROVE  IInv'
<1>1. /\ received \in Seq(Nat) /\ wire \in Seq(Nat) /\ buffer_ \in Seq(Nat)
      /\ flushing \in BOOLEAN
  BY DEF IInv, TypeOK
<1>2. /\ output_queue_' = output_queue_ /\ queued' = queued /\ buffer_' = buffer_ /\ choked' = choked
      /\ flushing' \in BOOLEAN
  BY <1>1 DEF OnOutput, EndOutput, PeerReads, vars
<1>3. /\ received' \in Seq(Nat) /\ wire' \in Seq(Nat)
      /\ received' \o wire' = received \o wire
  <2>1. CASE PeerReads
    <3>1. wire # <<>> /\ received' = Append(received, Head(wire)) /\ wire' = Tail(wire)
      BY <2>1 DEF PeerReads
    <3>2. Head(wire) \in Nat /\ Tail(wire) \in Seq(Nat)
      BY <1>1, <3>1
    <3>3. Append(received, Head(wire)) \o Tail(wire) = received \o wire
      BY <1>1, <3>1, TakeFromWire
    <3>4. received' \in Seq(Nat) /\ wire' \in Seq(Nat)
      BY <1>1, <3>1, <3>2
    <3> QED
      BY <3>1, <3>3, <3>4
  <2>2. CASE OnOutput \/ EndOutput \/ UNCHANGED vars
    <3>1. received' = received /\ wire' = wire
      BY <2>2 DEF OnOutput, EndOutput, vars
    <3> QED
      BY <1>1, <3>1
  <2> QED
    BY <2>1, <2>2
<1>4. Left' = Left /\ Popped' = Popped
  BY <1>2, <1>3 DEF Left, Popped
<1>5. TypeOK'
  BY <1>2, <1>3 DEF IInv, TypeOK
<1> QED
  BY <1>2, <1>4, <1>5 DEF IInv

-----------------------------------------------------------------------------
(* The theorems *)

\* Every step of the connection's output keeps the invariant.
LEMMA NextIInv == IInv /\ [Next]_vars => IInv'
BY AddOutputIInv, WriteIInv, BlockedIInv, OtherIInv DEF Next, IoThread

\* The queue, what has left it and the bytes' order belong together in every
\* reachable state of onOutput and AsyncWriter::write.
THEOREM Invariance == Spec => []IInv
BY InitIInv, NextIInv, PTL DEF Spec

\* The types of a connection's output queue, remembered buffer and socket.
THEOREM TypeCorrect == Spec => []TypeOK
<1>1. IInv => TypeOK
  BY DEF IInv
<1> QED
  BY <1>1, Invariance, PTL

\* Whatever the socket takes of each frame and however often it takes nothing, bytes
\* leave onOutput in the order of their messages, and none of them twice.
THEOREM BytesStayInOrder == Spec => []BytesInOrder
<1>1. IInv => BytesInOrder
  BY DEF IInv, Increasing, BytesInOrder
<1> QED
  BY <1>1, Invariance, PTL

-----------------------------------------------------------------------------
(***************************************************************************)
(* What a client reads                                                     *)
(*                                                                         *)
(* A client is in step with the stream when it waits for a length exactly  *)
(* where a frame begins. The Gamer takes any piece of a message for the    *)
(* whole of it, so it stays in step only if what has arrived ends within   *)
(* the frame it is in, and behind its length: FInv says so of the arrivals *)
(* a client can read.                                                      *)
(***************************************************************************)

\* Where the k-th frame ends.
E(k) == Reader!Ends[k]
FrameNos == 0..FrameCount

ReaderTypeOK ==
  /\ lengths \in [Reader!Frames -> FrameLengths]
  /\ client \in {"gamer", "viewer"} /\ arrival \in {"any", "paced", "whole"}
  /\ arrived \in Nat /\ pos \in Nat /\ got \in Nat /\ length \in Nat /\ first \in Nat
  /\ delivered \in Nat

-----------------------------------------------------------------------------
(* The frames in the stream *)

\* Ends is the function its recursive definition describes.
LEMMA EndsAdvance ==
  ASSUME lengths \in [Reader!Frames -> FrameLengths]
  PROVE  /\ \A k \in FrameNos : E(k) \in Nat
         /\ E(0) = 0
         /\ \A k \in 1..FrameCount : E(k) = E(k - 1) + HeaderLength + lengths[k]
<1> DEFINE n == FrameCount
           step == [k \in 1..n |-> [v \in Nat |-> v + HeaderLength + lengths[k]]]
           e == Reader!Ends
<1>1. n \in Nat /\ HeaderLength \in Nat /\ \A k \in 1..n : lengths[k] \in Nat
  BY ReaderAssumption DEF Reader!FramingAssumption, Reader!Frames
<1>2. step \in [1..n -> [Nat -> Nat]]
  BY <1>1
<1>3. \A k \in 1..n, v \in Nat : step[k][v] = v + HeaderLength + lengths[k]
  OBVIOUS
<1> HIDE DEF step
<1>4. PICK f \in [0..n -> Nat] : Walks(f, n, 0, step)
  <2>1. 0 \in Nat
    OBVIOUS
  <2> QED
    BY <1>1, <1>2, <2>1, StepByStep
<1>5. ASSUME NEW i \in 1..n
      PROVE  f[i] = f[i - 1] + HeaderLength + lengths[i]
  <2>1. i - 1 \in 0..n
    BY <1>1
  <2>2. f[i - 1] \in Nat
    BY <2>1
  <2> QED
    BY <1>3, <1>4, <2>2 DEF Walks
<1>6. f = [k \in 0..n |-> IF k = 0 THEN 0 ELSE f[k - 1] + HeaderLength + lengths[k]]
  <2>1. \A k \in 0..n : f[k] = IF k = 0 THEN 0 ELSE f[k - 1] + HeaderLength + lengths[k]
    BY <1>1, <1>4, <1>5 DEF Walks
  <2> QED
    BY <2>1
<1>7. e = [k \in 0..n |-> IF k = 0 THEN 0 ELSE e[k - 1] + HeaderLength + lengths[k]]
  BY <1>6 DEF Reader!Ends
<1> HIDE DEF e
<1>8. \A k \in 0..n : e[k] = IF k = 0 THEN 0 ELSE e[k - 1] + HeaderLength + lengths[k]
  BY <1>7
<1>9. e[0] = 0 /\ \A k \in 1..n : e[k] = e[k - 1] + HeaderLength + lengths[k]
  BY <1>1, <1>8
<1> DEFINE Good == {k \in 0..n : e[k] \in Nat}
<1>10. 0..n \subseteq Good
  <2>1. 0 \in Good
    BY <1>1, <1>9
  <2>2. ASSUME NEW k \in 1..n, k - 1 \in Good
        PROVE  k \in Good
    <3>1. e[k] = e[k - 1] + HeaderLength + lengths[k] /\ k \in 0..n
      BY <1>1, <1>9
    <3> QED
      BY <1>1, <2>2, <3>1
  <2> HIDE DEF Good
  <2> QED
    BY <1>1, <2>1, <2>2, Upwards
<1> QED
  BY <1>9, <1>10 DEF E, FrameNos, e

\* The constants, and the lengths of the frames.
LEMMA Sizes ==
  ASSUME lengths \in [Reader!Frames -> FrameLengths]
  PROVE  /\ FrameCount \in Nat /\ FrameCount > 0 /\ HeaderLength \in Nat /\ HeaderLength > 0
         /\ BufferSize \in Nat /\ BufferSize > 0
         /\ \A k \in 1..FrameCount : lengths[k] \in Nat /\ lengths[k] > 0
         /\ Reader!StreamLength = E(FrameCount)
<1>1. /\ FrameCount \in Nat \ {0} /\ HeaderLength \in Nat \ {0} /\ BufferSize \in Nat \ {0}
      /\ FrameLengths \subseteq Nat \ {0}
  BY ReaderAssumption DEF Reader!FramingAssumption
<1>2. ASSUME NEW k \in 1..FrameCount
      PROVE  lengths[k] \in Nat /\ lengths[k] > 0
  <2>1. lengths[k] \in FrameLengths
    BY DEF Reader!Frames
  <2>2. \A n \in Nat \ {0} : n \in Nat /\ n > 0
    OBVIOUS
  <2> QED
    BY <1>1, <2>1, <2>2
<1>3. Reader!StreamLength = E(FrameCount)
  BY <1>1 DEF Reader!StreamLength, Reader!Start, E
<1> QED
  BY <1>1, <1>2, <1>3

\* Frames do not overlap: what ends before a later frame ends before all of it.
LEMMA EndsIncrease ==
  ASSUME lengths \in [Reader!Frames -> FrameLengths]
  PROVE  \A i, j \in FrameNos : i < j => E(i) + HeaderLength < E(j) /\ E(i + 1) <= E(j)
<1>1. /\ FrameCount \in Nat /\ HeaderLength \in Nat
      /\ \A k \in 1..FrameCount : lengths[k] \in Nat /\ lengths[k] > 0
  BY Sizes
<1>2. /\ \A k \in FrameNos : E(k) \in Nat
      /\ \A k \in 1..FrameCount : E(k) = E(k - 1) + HeaderLength + lengths[k]
  BY EndsAdvance
<1> DEFINE Good == {j \in FrameNos : \A i \in FrameNos :
                      i < j => E(i) + HeaderLength < E(j) /\ E(i + 1) <= E(j)}
<1>3. 0 \in Good
  <2>1. 0 \in FrameNos /\ \A i \in FrameNos : ~(i < 0)
    BY <1>1 DEF FrameNos
  <2> QED
    BY <2>1
<1>4. ASSUME NEW j \in 1..FrameCount, j - 1 \in Good
      PROVE  j \in Good
  <2>1. j \in FrameNos /\ j - 1 \in FrameNos /\ E(j) \in Nat /\ E(j - 1) \in Nat
        /\ E(j) = E(j - 1) + HeaderLength + lengths[j] /\ lengths[j] \in Nat /\ lengths[j] > 0
    BY <1>1, <1>2 DEF FrameNos
  <2>2. ASSUME NEW i \in FrameNos, i < j
        PROVE  E(i) + HeaderLength < E(j) /\ E(i + 1) <= E(j)
    <3>1. CASE i = j - 1
      <4>1. i + 1 = j
        BY <1>1, <3>1 DEF FrameNos
      <4> QED
        BY <1>1, <2>1, <3>1, <4>1
    <3>2. CASE i # j - 1
      <4>1. i < j - 1 /\ i + 1 \in FrameNos
        BY <1>1, <2>2, <3>2 DEF FrameNos
      <4>2. E(i) + HeaderLength < E(j - 1) /\ E(i + 1) <= E(j - 1)
        BY <1>4, <4>1
      <4>3. E(i) \in Nat /\ E(i + 1) \in Nat
        BY <1>2, <4>1
      <4> QED
        BY <1>1, <2>1, <4>2, <4>3
    <3> QED
      BY <3>1, <3>2
  <2> QED
    BY <2>1, <2>2
<1>5. 0..FrameCount \subseteq Good
  <2> HIDE DEF Good
  <2> QED
    BY <1>1, <1>3, <1>4, Upwards
<1> QED
  BY <1>5 DEF FrameNos

-----------------------------------------------------------------------------
(* The invariant *)

\* The arrivals a client can read.
Readable ==
  \/ client = "gamer" /\ arrival = "paced" /\ ended = "no"
  \/ client = "viewer" /\ arrival \in {"paced", "whole"}

\* How many frames the client has taken from the socket.
Taken == IF pc = "body" /\ got = length THEN delivered + 1 ELSE delivered

\* What is in the socket: whole frames, or at most a part of the frame after those taken,
\* with its length.
ArrivedOK ==
  /\ arrival = "whole" => \E k \in FrameNos : arrived = E(k)
  /\ arrival = "paced" =>
       /\ E(Taken) <= arrived
       /\ Taken < FrameCount =>
            \/ arrived = E(Taken)
            \/ E(Taken) + HeaderLength <= arrived /\ arrived <= E(Taken + 1)

\* A length is in one piece, a message need not be.
HeaderOK == first = E(delivered) /\ length = HeaderLength /\ got \in {0, HeaderLength}
BodyOK ==
  /\ first = E(delivered) + HeaderLength /\ length = lengths[delivered + 1] /\ got <= length
  /\ arrival = "whole" => got \in {0, length}

InStep ==
  /\ Reader!OneFrameEach
  /\ pc = "header" => HeaderOK
  /\ pc = "body" => BodyOK
  /\ pc \in {"header", "body"} =>
       delivered < FrameCount /\ pos = first + got /\ pos <= arrived /\ ArrivedOK

FInv ==
  /\ ReaderTypeOK
  /\ Readable => delivered \in FrameNos /\ InStep

-----------------------------------------------------------------------------
(* What the steps need *)

\* A step of the client and the network leaves the frames alone.
LEMMA EndsKeep ==
  ASSUME lengths' = lengths
  PROVE  Reader!Ends' = Reader!Ends
BY DEF Reader!Ends

\* No two frames begin in the same place, or end there.
LEMMA EndsDiffer ==
  ASSUME ReaderTypeOK, NEW i \in FrameNos, NEW j \in FrameNos, E(i) = E(j)
  PROVE  i = j
<1>1. /\ E(i) \in Nat /\ HeaderLength \in Nat /\ i \in Int /\ j \in Int
      /\ i < j => E(i) + HeaderLength < E(j)
      /\ j < i => E(j) + HeaderLength < E(i)
  BY EndsAdvance, EndsIncrease, Sizes DEF ReaderTypeOK, FrameNos
<1> QED
  BY <1>1

\* The client is in the frame after those it has taken.
LEMMA Within ==
  ASSUME ReaderTypeOK, delivered \in FrameNos, InStep, pc \in {"header", "body"}
  PROVE  /\ Taken \in FrameNos /\ E(Taken) <= pos
         /\ Taken < FrameCount => pos < E(Taken + 1)
<1>1. /\ delivered \in 0..FrameCount /\ delivered < FrameCount /\ pos = first + got
      /\ pc = "header" => HeaderOK
      /\ pc = "body" => BodyOK
  BY DEF InStep, FrameNos
<1>2. /\ delivered + 1 \in 1..FrameCount /\ delivered \in FrameNos /\ delivered + 1 \in FrameNos
      /\ (delivered + 1) - 1 = delivered
  BY <1>1, Sizes DEF FrameNos, ReaderTypeOK
<1>3. /\ E(delivered) \in Nat /\ E(delivered + 1) \in Nat
      /\ E(delivered + 1) = E(delivered) + HeaderLength + lengths[delivered + 1]
      /\ lengths[delivered + 1] \in Nat /\ lengths[delivered + 1] > 0
      /\ HeaderLength \in Nat /\ HeaderLength > 0
  BY <1>2, EndsAdvance, Sizes DEF ReaderTypeOK
<1>4. CASE pc = "header"
  BY <1>1, <1>2, <1>3, <1>4 DEF HeaderOK, Taken
<1>5. CASE pc = "body" /\ got # length
  BY <1>1, <1>2, <1>3, <1>5 DEF BodyOK, Taken, ReaderTypeOK
<1>6. CASE pc = "body" /\ got = length
  <2>1. Taken = delivered + 1 /\ pos = E(Taken)
    BY <1>1, <1>3, <1>6 DEF BodyOK, Taken, ReaderTypeOK
  <2>2. ASSUME Taken < FrameCount
        PROVE  pos < E(Taken + 1)
    <3>1. Taken + 1 \in FrameNos /\ Taken \in FrameNos /\ Taken < Taken + 1
      BY <1>2, <2>1, <2>2, Sizes DEF FrameNos, ReaderTypeOK
    <3>2. E(Taken) + HeaderLength < E(Taken + 1) /\ E(Taken + 1) \in Nat
      BY <3>1, EndsAdvance, EndsIncrease DEF ReaderTypeOK
    <3> QED
      BY <1>3, <2>1, <3>2
  <2> QED
    BY <1>2, <1>3, <2>1, <2>2
<1> QED
  BY <1>4, <1>5, <1>6

-----------------------------------------------------------------------------
(* The steps *)

\* Nothing has arrived, and the client waits for the first length.
LEMMA FramingInit ==
  ASSUME Reader!Init
  PROVE  FInv
<1>1. lengths \in [Reader!Frames -> FrameLengths] /\ FrameCount \in Nat /\ FrameCount > 0
      /\ HeaderLength \in Nat
  BY Sizes DEF Reader!Init
<1>2. ReaderTypeOK
  BY <1>1 DEF Reader!Init, ReaderTypeOK
<1>3. 0 \in FrameNos /\ E(0) = 0 /\ E(1) = E(0) + HeaderLength + lengths[1] /\ E(1) \in Nat
  BY <1>1, EndsAdvance DEF FrameNos
<1>4. delivered = 0 /\ pc = "header" /\ pos = 0 /\ got = 0 /\ arrived = 0
      /\ first = 0 /\ length = HeaderLength
  BY DEF Reader!Init
<1>5. HeaderOK /\ Taken = 0 /\ Reader!OneFrameEach
  BY <1>3, <1>4 DEF HeaderOK, Taken, Reader!OneFrameEach
<1>6. ArrivedOK
  BY <1>3, <1>4, <1>5 DEF ArrivedOK
<1> QED
  BY <1>1, <1>2, <1>3, <1>4, <1>5, <1>6 DEF FInv, InStep

\* More bytes arrive: in paced arrival a part of the frame the client is in, and never
\* of the one after it.
LEMMA ArriveFrames ==
  ASSUME FInv, Reader!Arrive
  PROVE  FInv'
<1> USE DEF FInv
<1>1. /\ UNCHANGED <<client, arrival, lengths, ended, pc, pos, got, length, first, delivered, message>>
      /\ Reader!Ends' = Reader!Ends
  BY EndsKeep DEF Reader!Arrive, Reader!streamVars
<1>2. PICK n \in arrived + 1..Reader!StreamLength :
        /\ arrival = "paced" =>
             /\ \A b \in Reader!Boundaries : ~(arrived < b /\ b < n)
             /\ arrived \in Reader!Boundaries => arrived = pos /\ n >= arrived + HeaderLength
        /\ arrival = "whole" => n \in Reader!Boundaries
        /\ arrived' = n
  BY DEF Reader!Arrive
<1>3. /\ FrameCount \in Nat /\ FrameCount > 0 /\ HeaderLength \in Nat /\ HeaderLength > 0
      /\ Reader!StreamLength = E(FrameCount)
      /\ \A k \in FrameNos : E(k) \in Nat
  BY Sizes, EndsAdvance DEF ReaderTypeOK
<1>4. n \in Nat /\ arrived < n
  <2>1. FrameCount \in FrameNos
    BY <1>3 DEF FrameNos
  <2> QED
    BY <1>3, <2>1 DEF ReaderTypeOK
<1>5. ReaderTypeOK'
  BY <1>1, <1>2, <1>4 DEF ReaderTypeOK, Reader!Frames
<1>6. \A k \in FrameNos : E(k) \in Reader!Boundaries
  <2>1. ASSUME NEW k \in FrameNos
        PROVE  E(k) \in Reader!Boundaries
    <3>1. k + 1 \in 1..FrameCount + 1 /\ (k + 1) - 1 = k
      BY <1>3 DEF FrameNos
    <3> QED
      BY <3>1 DEF Reader!Boundaries, Reader!Start, E
  <2> QED
    BY <2>1
<1>7. ASSUME NEW b \in Reader!Boundaries
      PROVE  \E k \in FrameNos : b = E(k)
  <2>1. PICK k \in 1..FrameCount + 1 : b = Reader!Start(k)
    BY DEF Reader!Boundaries
  <2>2. k - 1 \in FrameNos
    BY <1>3 DEF FrameNos
  <2> QED
    BY <2>1, <2>2 DEF Reader!Start, E
<1>8. ASSUME Readable, pc \in {"header", "body"}
      PROVE  pos <= arrived' /\ ArrivedOK'
  <2>1. delivered \in FrameNos /\ InStep /\ pos <= arrived /\ ArrivedOK
    BY <1>8 DEF InStep
  <2>2. pos <= arrived'
    BY <1>2, <1>4, <2>1 DEF ReaderTypeOK
  <2>3. ASSUME arrival = "whole"
        PROVE  \E k \in FrameNos : arrived' = E(k)
    BY <1>2, <1>7, <2>3
  <2>4. ASSUME arrival = "paced"
        PROVE  /\ E(Taken) <= arrived'
               /\ Taken < FrameCount =>
                    E(Taken) + HeaderLength <= arrived' /\ arrived' <= E(Taken + 1)
    <3>1. Taken \in FrameNos /\ E(Taken) <= pos /\ (Taken < FrameCount => pos < E(Taken + 1))
      BY <1>8, <2>1, Within
    <3>2. /\ E(Taken) <= arrived
          /\ Taken < FrameCount =>
               \/ arrived = E(Taken)
               \/ E(Taken) + HeaderLength <= arrived /\ arrived <= E(Taken + 1)
      BY <2>1, <2>4 DEF ArrivedOK
    <3>3. E(Taken) \in Nat /\ arrived \in Nat /\ pos \in Nat
      BY <1>3, <3>1 DEF ReaderTypeOK
    <3>4. ASSUME Taken < FrameCount
          PROVE  E(Taken) + HeaderLength <= n /\ n <= E(Taken + 1)
      <4>1. Taken + 1 \in FrameNos /\ Taken < Taken + 1
        BY <1>3, <3>1, <3>4 DEF FrameNos
      <4>2. E(Taken + 1) \in Nat /\ E(Taken) < E(Taken + 1) /\ E(Taken + 1) \in Reader!Boundaries
        BY <1>3, <1>6, <3>1, <3>3, <4>1, EndsIncrease DEF ReaderTypeOK
      <4>3. arrived < E(Taken + 1)
        <5>1. arrived = E(Taken + 1) => arrived = pos
          BY <1>2, <2>4, <4>2
        <5> QED
          BY <1>3, <3>1, <3>2, <3>3, <3>4, <4>2, <5>1
      <4>4. n <= E(Taken + 1)
        BY <1>2, <1>4, <2>4, <4>2, <4>3
      <4>5. E(Taken) + HeaderLength <= n
        BY <1>2, <1>3, <1>4, <1>6, <2>4, <3>1, <3>2, <3>3, <3>4
      <4> QED
        BY <4>4, <4>5
    <3> QED
      BY <1>2, <1>4, <3>2, <3>3, <3>4
  <2>5. Taken' = Taken
    BY <1>1 DEF Taken
  <2> QED
    BY <1>1, <2>2, <2>3, <2>4, <2>5 DEF ArrivedOK, E
<1>9. Readable' => Readable
  BY <1>1 DEF Readable
<1>10. ASSUME Readable
       PROVE  InStep'
  BY <1>1, <1>8, <1>10 DEF InStep, HeaderOK, BodyOK, E, Reader!OneFrameEach, Reader!Frames,
    Reader!Body, Reader!Start
<1> QED
  BY <1>1, <1>5, <1>9, <1>10

\* The connection ends: it is no longer one a Gamer can read, the viewer does not know yet.
LEMMA DisconnectFrames ==
  ASSUME FInv, Reader!Disconnect
  PROVE  FInv'
<1>1. /\ UNCHANGED <<client, arrival, lengths, arrived, pc, pos, got, length, first, delivered, message>>
      /\ Reader!Ends' = Reader!Ends /\ ended = "no"
  BY EndsKeep DEF Reader!Disconnect, Reader!streamVars
<1>2. Readable' => Readable
  BY <1>1 DEF Readable
<1>3. ReaderTypeOK'
  BY <1>1 DEF FInv, ReaderTypeOK, Reader!Frames
<1>4. InStep => InStep'
  BY <1>1 DEF InStep, HeaderOK, BodyOK, ArrivedOK, Taken, E, Reader!OneFrameEach, Reader!Frames,
    Reader!Body, Reader!Start
<1> QED
  BY <1>1, <1>2, <1>3, <1>4 DEF FInv

\* The client waits no more.
LEMMA StopsWaiting ==
  ASSUME FInv, Reader!EndOfStream \/ Reader!RecvFails
  PROVE  FInv'
<1>1. /\ UNCHANGED <<client, arrival, lengths, arrived, ended, pos, got, length, first, delivered, message>>
      /\ Reader!Ends' = Reader!Ends /\ pc' \notin {"header", "body"}
  BY EndsKeep DEF Reader!EndOfStream, Reader!RecvFails, Reader!streamVars, Reader!netVars
<1>2. Readable' => Readable
  BY <1>1 DEF Readable
<1>3. ReaderTypeOK'
  BY <1>1 DEF FInv, ReaderTypeOK, Reader!Frames
<1>4. InStep => InStep'
  BY <1>1 DEF InStep, Reader!OneFrameEach, Reader!Frames, Reader!Body, Reader!Start
<1> QED
  BY <1>1, <1>2, <1>3, <1>4 DEF FInv

\* A piece: of a length all of it, of a message no more than is left of it.
LEMMA RecvFrames ==
  ASSUME FInv, Reader!Recv
  PROVE  FInv'
<1> USE DEF FInv
<1>1. /\ UNCHANGED <<client, arrival, lengths, arrived, ended, length, first, delivered, message>>
      /\ Reader!Ends' = Reader!Ends
      /\ Reader!More /\ pos < arrived /\ pc \in {"header", "body"}
      /\ got' = got + Reader!Taken /\ pos' = pos + Reader!Taken
      /\ pc' = pc \/ Reader!Overrun(got')
  BY EndsKeep DEF Reader!Recv, Reader!streamVars, Reader!netVars, Reader!More
<1>2. /\ FrameCount \in Nat /\ HeaderLength \in Nat /\ HeaderLength > 0
      /\ BufferSize \in Nat /\ BufferSize > 0
  BY Sizes DEF ReaderTypeOK
<1>3. /\ pos \in Nat /\ arrived \in Nat /\ got \in Nat /\ length \in Nat /\ first \in Nat
      /\ delivered \in Nat
  BY DEF ReaderTypeOK
<1>4. Reader!Taken \in Nat
  BY <1>1, <1>2, <1>3 DEF Reader!Taken, Reader!Wanted
<1>5. Reader!Taken <= arrived - pos /\ (arrived - pos >= Reader!Wanted => Reader!Taken = Reader!Wanted)
  BY <1>1, <1>2, <1>3 DEF Reader!Taken, Reader!Wanted
<1>6. Readable' => Readable
  BY <1>1 DEF Readable
<1>7. got' \in Nat /\ pos' \in Nat
  BY <1>1, <1>3, <1>4
<1>8. ReaderTypeOK'
  BY <1>1, <1>7 DEF ReaderTypeOK, Reader!Frames
<1>9. ASSUME Readable
      PROVE  InStep'
  <2>1. /\ InStep /\ delivered \in FrameNos /\ delivered < FrameCount
        /\ pos = first + got /\ ArrivedOK
        /\ client = "viewer" => arrival \in {"paced", "whole"}
        /\ client # "viewer" => client = "gamer" /\ arrival = "paced"
    BY <1>1, <1>9 DEF InStep, Readable
  <2>2. /\ delivered + 1 \in 1..FrameCount /\ delivered + 1 \in FrameNos
        /\ (delivered + 1) - 1 = delivered
    BY <1>2, <1>3, <2>1 DEF FrameNos
  <2>3. /\ E(delivered) \in Nat /\ E(delivered + 1) \in Nat
        /\ E(delivered + 1) = E(delivered) + HeaderLength + lengths[delivered + 1]
        /\ lengths[delivered + 1] \in Nat /\ lengths[delivered + 1] > 0
    BY <2>1, <2>2, EndsAdvance, Sizes DEF ReaderTypeOK
  \* What has arrived whole and begins before a place has arrived to the end.
  <2>4. ASSUME arrival = "whole", E(delivered) < arrived
        PROVE  E(delivered + 1) <= arrived
    <3>1. PICK k \in FrameNos : arrived = E(k)
      BY <2>1, <2>4 DEF ArrivedOK
    <3>2. delivered < k
      <4>1. SUFFICES ASSUME ~(delivered < k) PROVE FALSE
        OBVIOUS
      <4>2. k = delivered \/ k < delivered
        BY <1>3, <4>1 DEF FrameNos
      <4>3. E(k) \in Nat /\ (k < delivered => E(k) + HeaderLength < E(delivered))
        BY <2>1, EndsAdvance, EndsIncrease DEF ReaderTypeOK
      <4> QED
        BY <1>2, <2>3, <2>4, <3>1, <4>2, <4>3
    <3> QED
      BY <2>1, <3>1, <3>2, EndsIncrease DEF ReaderTypeOK
  <2>5. CASE pc = "header"
    <3>1. first = E(delivered) /\ length = HeaderLength /\ got = 0 /\ Taken = delivered
      BY <1>1, <1>2, <2>1, <2>5 DEF InStep, HeaderOK, Reader!More, Taken
    <3>2. E(delivered) + HeaderLength <= arrived
      <4>1. CASE arrival = "paced"
        BY <1>1, <1>3, <2>1, <2>3, <3>1, <4>1 DEF ArrivedOK
      <4>2. CASE arrival = "whole"
        BY <1>1, <1>2, <1>3, <2>1, <2>3, <2>4, <3>1, <4>2
      <4> QED
        BY <2>1, <4>1, <4>2
    <3>3. Reader!Wanted = HeaderLength
      BY <2>5, <3>1 DEF Reader!Wanted
    <3>4. Reader!Taken = HeaderLength
      BY <1>2, <1>3, <1>5, <2>1, <2>3, <3>1, <3>2, <3>3
    <3>5. got' = HeaderLength /\ pos' = first + got' /\ pos' <= arrived
      BY <1>1, <1>2, <1>3, <2>1, <2>3, <3>1, <3>2, <3>4
    <3>6. pc' = "header"
      BY <1>1, <1>2, <2>5, <3>1, <3>5 DEF Reader!Overrun
    <3>7. Taken' = Taken
      BY <1>1, <2>5, <3>6 DEF Taken
    <3>8. ArrivedOK'
      BY <1>1, <2>1, <3>7 DEF ArrivedOK, E
    <3>9. HeaderOK' /\ Reader!OneFrameEach'
      BY <1>1, <2>1, <3>1, <3>5 DEF InStep, HeaderOK, E, Reader!OneFrameEach, Reader!Frames,
        Reader!Body, Reader!Start
    <3> QED
      BY <1>1, <2>1, <3>5, <3>6, <3>8, <3>9 DEF InStep
  <2>6. CASE pc = "body"
    <3>1. /\ first = E(delivered) + HeaderLength /\ length = lengths[delivered + 1]
          /\ got < length /\ (arrival = "whole" => got = 0) /\ Taken = delivered
      BY <1>1, <1>3, <2>1, <2>6 DEF InStep, BodyOK, Reader!More, Taken
    <3>2. Reader!Taken + got <= length /\ (arrival = "whole" => Reader!Taken = length)
      <4>1. CASE arrival = "paced"
        <5>1. arrived <= E(delivered + 1)
          BY <1>1, <1>2, <1>3, <2>1, <2>3, <3>1, <4>1 DEF ArrivedOK
        <5> QED
          BY <1>2, <1>3, <1>4, <1>5, <2>1, <2>3, <3>1, <4>1, <5>1
      <4>2. CASE arrival = "whole"
        <5>1. E(delivered + 1) <= arrived
          BY <1>1, <1>2, <1>3, <2>1, <2>3, <2>4, <3>1, <4>2
        <5>2. Reader!Wanted = length
          BY <2>1, <4>2 DEF Reader!Wanted
        <5> QED
          BY <1>2, <1>3, <1>5, <2>1, <2>3, <3>1, <4>2, <5>1, <5>2
      <4> QED
        BY <2>1, <4>1, <4>2
    <3>3. got' <= length /\ pos' = first + got' /\ pos' <= arrived
      BY <1>1, <1>3, <1>4, <1>5, <2>1, <3>2
    <3>4. pc' = "body"
      BY <1>1, <1>3, <1>7, <2>6, <3>3 DEF Reader!Overrun
    <3>5. BodyOK' /\ Reader!OneFrameEach'
      <4>1. arrival = "whole" => got' = length
        BY <1>1, <1>3, <3>1, <3>2
      <4> QED
        BY <1>1, <2>1, <3>1, <3>3, <4>1 DEF InStep, BodyOK, E, Reader!OneFrameEach, Reader!Frames,
          Reader!Body, Reader!Start
    <3>6. ArrivedOK'
      <4>1. CASE got' = length
        <5>1. Taken' = delivered + 1
          BY <1>1, <3>4, <4>1 DEF Taken
        <5>2. pos' = E(delivered + 1)
          BY <1>2, <2>3, <3>1, <3>3, <4>1
        <5>3. arrival = "paced" => arrived = E(delivered + 1)
          BY <1>1, <1>2, <1>3, <1>7, <2>1, <2>3, <3>1, <3>3, <5>2 DEF ArrivedOK
        <5> QED
          BY <1>1, <2>1, <2>3, <5>1, <5>3 DEF ArrivedOK, E
      <4>2. CASE got' # length
        <5>1. Taken' = Taken
          BY <1>1, <3>1, <3>4, <4>2 DEF Taken
        <5> QED
          BY <1>1, <2>1, <5>1 DEF ArrivedOK, E
      <4> QED
        BY <4>1, <4>2
    <3> QED
      BY <1>1, <2>1, <3>3, <3>4, <3>5, <3>6 DEF InStep
  <2> QED
    BY <1>1, <2>5, <2>6
<1> QED
  BY <1>1, <1>6, <1>8, <1>9

\* The length is that of the frame, and of no other.
LEMMA ReadLengthFrames ==
  ASSUME FInv, Reader!ReadLength
  PROVE  FInv'
<1> USE DEF FInv
<1>1. /\ UNCHANGED <<client, arrival, lengths, arrived, ended, pos, delivered, message>>
      /\ Reader!Ends' = Reader!Ends
      /\ pc = "header" /\ ~Reader!More
      /\ \/ \E k \in Reader!Frames : Reader!TookLength(k) /\ length' = lengths[k]
         \/ /\ ~ \E k \in Reader!Frames : Reader!TookLength(k)
            /\ length' \in Reader!SomeLength
      /\ pc' = "body" /\ got' = 0 /\ first' = pos
  BY EndsKeep DEF Reader!ReadLength, Reader!streamVars, Reader!netVars
<1>2. /\ FrameCount \in Nat /\ HeaderLength \in Nat /\ HeaderLength > 0
      /\ \A k \in 1..FrameCount : lengths[k] \in Nat
      /\ Reader!StreamLength \in Nat
  <2>1. FrameCount \in FrameNos
    BY Sizes DEF ReaderTypeOK, FrameNos
  <2> QED
    BY <2>1, Sizes, EndsAdvance DEF ReaderTypeOK
<1>3. /\ pos \in Nat /\ arrived \in Nat /\ got \in Nat /\ length \in Nat /\ first \in Nat
      /\ delivered \in Nat
  BY DEF ReaderTypeOK
<1>4. length' \in Nat
  BY <1>1, <1>2 DEF Reader!Frames, Reader!SomeLength
<1>5. ReaderTypeOK'
  BY <1>1, <1>3, <1>4 DEF ReaderTypeOK, Reader!Frames
<1>6. Readable' => Readable
  BY <1>1 DEF Readable
<1>7. ASSUME Readable
      PROVE  InStep'
  <2>1. /\ InStep /\ delivered \in FrameNos /\ delivered < FrameCount /\ HeaderOK
        /\ pos = first + got /\ pos <= arrived /\ ArrivedOK
    BY <1>1, <1>7 DEF InStep
  <2>2. /\ delivered + 1 \in 1..FrameCount /\ delivered + 1 \in Reader!Frames
        /\ (delivered + 1) - 1 = delivered
    BY <1>2, <1>3, <2>1 DEF Reader!Frames
  <2>3. E(delivered) \in Nat /\ lengths[delivered + 1] \in Nat /\ lengths[delivered + 1] > 0
    BY <2>1, <2>2, EndsAdvance, Sizes DEF ReaderTypeOK
  <2>4. got = HeaderLength /\ first = E(delivered) /\ pos = E(delivered) + HeaderLength
    BY <1>1, <1>2, <1>3, <2>1 DEF HeaderOK, Reader!More
  <2>5. Reader!TookLength(delivered + 1)
    BY <1>2, <2>2, <2>3, <2>4 DEF Reader!TookLength, Reader!Body, Reader!Start, E
  <2>6. ASSUME NEW k \in Reader!Frames, Reader!TookLength(k)
        PROVE  k = delivered + 1
    <3>1. k - 1 \in FrameNos /\ E(k - 1) = E(delivered)
      BY <1>2, <2>4, <2>6 DEF Reader!TookLength, Reader!Start, E, Reader!Frames, FrameNos
    <3>2. k - 1 = delivered
      BY <2>1, <3>1, EndsDiffer
    <3> QED
      BY <1>2, <1>3, <3>2 DEF Reader!Frames
  <2>7. length' = lengths[delivered + 1]
    BY <1>1, <2>2, <2>5, <2>6
  <2>8. Taken' = delivered /\ Taken = delivered
    BY <1>1, <2>3, <2>7 DEF Taken
  <2>9. ArrivedOK'
    BY <1>1, <2>1, <2>8 DEF ArrivedOK, E
  <2>10. BodyOK'
    BY <1>1, <2>3, <2>4, <2>7 DEF BodyOK, E
  <2>11. Reader!OneFrameEach'
    BY <1>1, <2>1 DEF InStep, Reader!OneFrameEach, Reader!Frames, Reader!Body, Reader!Start
  <2> QED
    BY <1>1, <1>3, <2>1, <2>9, <2>10, <2>11 DEF InStep
<1> QED
  BY <1>1, <1>5, <1>6, <1>7

\* The message is the one in the frame; the last one ends the client.
LEMMA DeliverFrames ==
  ASSUME FInv, Reader!Deliver
  PROVE  FInv'
<1> USE DEF FInv
<1>1. /\ UNCHANGED <<client, arrival, lengths, arrived, ended, pos>>
      /\ Reader!Ends' = Reader!Ends
      /\ pc = "body" /\ ~Reader!More
      /\ delivered' = delivered + 1 /\ message' = <<first, pos>>
      /\ pc' = IF \/ Reader!Holds(FrameCount)
                  \/ Reader!Unreadable /\ client = "viewer"
                  \/ Reader!Unreadable /\ delivered = 0
               THEN "ended" ELSE "header"
      /\ got' = 0 /\ length' = HeaderLength /\ first' = pos
  BY EndsKeep DEF Reader!Deliver, Reader!streamVars, Reader!netVars
<1>2. FrameCount \in Nat /\ HeaderLength \in Nat /\ HeaderLength > 0
  BY Sizes DEF ReaderTypeOK
<1>3. /\ pos \in Nat /\ arrived \in Nat /\ got \in Nat /\ length \in Nat /\ first \in Nat
      /\ delivered \in Nat
  BY DEF ReaderTypeOK
<1>4. ReaderTypeOK'
  BY <1>1, <1>2, <1>3 DEF ReaderTypeOK, Reader!Frames
<1>5. Readable' => Readable
  BY <1>1 DEF Readable
<1>6. ASSUME Readable
      PROVE  delivered' \in FrameNos /\ InStep'
  <2>1. /\ InStep /\ delivered \in FrameNos /\ delivered < FrameCount /\ BodyOK
        /\ pos = first + got /\ pos <= arrived /\ ArrivedOK
    BY <1>1, <1>6 DEF InStep
  <2>2. /\ delivered + 1 \in 1..FrameCount /\ delivered + 1 \in Reader!Frames
        /\ delivered + 1 \in FrameNos
        /\ (delivered + 1) - 1 = delivered /\ ((delivered + 1) + 1) - 1 = delivered + 1
    BY <1>2, <1>3, <2>1 DEF Reader!Frames, FrameNos
  <2>3. /\ E(delivered) \in Nat /\ E(delivered + 1) \in Nat
        /\ E(delivered + 1) = E(delivered) + HeaderLength + lengths[delivered + 1]
    BY <2>1, <2>2, EndsAdvance DEF ReaderTypeOK
  <2>4. got = length /\ first = E(delivered) + HeaderLength /\ length = lengths[delivered + 1]
    BY <1>1, <1>3, <2>1 DEF BodyOK, Reader!More
  <2>5. pos = E(delivered + 1) /\ Taken = delivered + 1
    BY <1>1, <1>2, <1>3, <2>1, <2>3, <2>4 DEF Taken
  <2>6. Reader!Body(delivered + 1) = first /\ Reader!Start((delivered + 1) + 1) = pos
    BY <2>2, <2>4, <2>5 DEF Reader!Body, Reader!Start, E
  <2>7. Reader!Holds(delivered + 1)
    BY <1>3, <2>6 DEF Reader!Holds
  <2>8. pc' = "header" => delivered + 1 < FrameCount
    <3>1. ASSUME ~(delivered + 1 < FrameCount)
          PROVE  Reader!Holds(FrameCount)
      <4>1. delivered + 1 = FrameCount
        BY <1>2, <1>3, <2>1, <3>1
      <4> QED
        BY <2>7, <4>1
    <3> QED
      BY <1>1, <3>1
  <2>9. Reader!OneFrameEach'
    BY <1>1, <2>2, <2>6 DEF Reader!OneFrameEach, Reader!Frames, Reader!Body, Reader!Start
  <2>10. HeaderOK'
    BY <1>1, <2>5 DEF HeaderOK, E
  <2>11. Taken' = Taken
    BY <1>1, <2>5 DEF Taken
  <2>12. ArrivedOK'
    BY <1>1, <2>1, <2>11 DEF ArrivedOK, E
  <2> QED
    BY <1>1, <1>3, <2>1, <2>2, <2>8, <2>9, <2>10, <2>12 DEF InStep
<1> QED
  BY <1>1, <1>4, <1>5, <1>6

\* FInv is inductive.
LEMMA FramingStep ==
  ASSUME FInv, [Reader!Next]_Reader!vars
  PROVE  FInv'
<1>1. CASE UNCHANGED Reader!vars
  <2>1. /\ UNCHANGED <<client, arrival, lengths, arrived, ended, pc, pos, got, length, first, delivered, message>>
        /\ Reader!Ends' = Reader!Ends
    BY <1>1, EndsKeep DEF Reader!vars, Reader!streamVars, Reader!netVars
  <2> QED
    BY <2>1 DEF FInv, Readable, ReaderTypeOK, InStep, HeaderOK, BodyOK, ArrivedOK, Taken, E,
      Reader!OneFrameEach, Reader!Frames, Reader!Body, Reader!Start
<1>2. CASE Reader!Next
  BY <1>2, ArriveFrames, DisconnectFrames, RecvFrames, StopsWaiting, ReadLengthFrames, DeliverFrames
    DEF Reader!Next, Reader!Client
<1> QED
  BY <1>1, <1>2

-----------------------------------------------------------------------------
(* The theorems *)

\* The invariant that says where both clients are in the stream holds.
THEOREM ReadersKeepStep == Reader!Spec => []FInv
<1>1. FInv /\ [Reader!Next]_Reader!vars => FInv'
  BY FramingStep
<1> QED
  BY <1>1, FramingInit, PTL DEF Reader!Spec

\* However many frames there are and however long they are, a Gamer that is sent each
\* frame after it read the one before, and a viewer that is sent frames whole or so, gets
\* one message per frame, in order: RecvAll and RecvBuf cut the stream where the server
\* put it together.
THEOREM FramesReadOneByOne == Reader!Spec => []FramesAreMessages
<1>1. FInv => FramesAreMessages
  BY DEF FInv, InStep, Readable, FramesAreMessages, Reader!FramesAreMessages
<1> QED
  BY <1>1, ReadersKeepStep, PTL

-----------------------------------------------------------------------------
(***************************************************************************)
(* What the server reads                                                   *)
(*                                                                         *)
(* Deframer's buffer holds what has come of the frame behind those         *)
(* delivered, from its first byte or from the first byte of its message    *)
(* on: DInv. Where that frame begins is the reference's answer, computed   *)
(* from the stream as one piece.                                           *)
(***************************************************************************)

\* Where the k-th frame ends, and a piece of the stream.
C(k) == Input!Cuts[k]
Piece(from, to) == SubSeq(stream, from + 1, to)

\* Handled is what was received, received what was sent.
InputTypeOK ==
  /\ stream \in [1..StreamLen -> Input!Byte]
  /\ handled \in Nat /\ chunk_end \in Nat /\ handled <= chunk_end /\ chunk_end <= StreamLen
  /\ message_length \in Nat /\ buffer \in Seq(Input!Byte)
  /\ requests \in Seq(Seq(Input!Byte))
  /\ state \in {"READING_LENGTH", "READING_DATA"}

\* The frames that were delivered, each a message.  Each has at least the byte of a
\* length, so that there are no more of them than bytes.
FramesDone ==
  LET m == Len(requests)
  IN  /\ \A k \in 1..m : requests[k] = Input!MessageAt(k)
      /\ m \in 0..StreamLen /\ m <= C(m) /\ C(m) <= handled

\* The length of the frame after them is being read: the part that has come is kept.
InLength ==
  /\ message_length = LengthSize /\ Len(buffer) < LengthSize
  /\ buffer = Piece(C(Len(requests)), handled)

\* Or its message, as long as the length says.
InData ==
  LET begin == C(Len(requests)) + LengthSize
  IN  /\ begin <= handled
      /\ message_length = Input!ValueOf(Piece(C(Len(requests)), begin))
      /\ buffer = Piece(begin, handled)
      /\ Len(buffer) < message_length \/ (message_length = 0 /\ buffer = <<>>)

\* So what was delivered is what the frames hold, whatever chunks they came in.
DInv ==
  /\ InputTypeOK
  /\ FramesDone
  /\ state = "READING_LENGTH" => InLength
  /\ state = "READING_DATA" => InData

-----------------------------------------------------------------------------
(* The frames of the stream *)

\* The constants are numbers.
LEMMA InputSizes ==
  /\ Radix \in Nat /\ StreamLen \in Nat /\ ChunkSize \in Nat
  /\ LengthSize \in Nat /\ LengthSize > 0
<1>1. \A n \in Nat \ {0} : n \in Nat /\ n > 0
  OBVIOUS
<1> QED
  BY <1>1, InputAssumption DEF Input!DeframerAssumption

\* A length field holds a number.
LEMMA ValueIsNumber ==
  ASSUME NEW s \in Seq(Input!Byte)
  PROVE  Input!ValueOf(s) \in Nat
<1> DEFINE n == Len(s)
           step == [k \in 1..n |-> [x \in Nat |-> x * Radix + s[n + 1 - k]]]
           v == CHOOSE v : v = [i \in 0..n |-> IF i = 0 THEN 0 ELSE v[i - 1] * Radix + s[n + 1 - i]]
<1>1. n \in Nat /\ Radix \in Nat /\ \A k \in 1..n : s[n + 1 - k] \in Nat
  <2>1. n \in Nat
    OBVIOUS
  <2>2. ASSUME NEW k \in 1..n
        PROVE  s[n + 1 - k] \in Nat
    <3>1. n + 1 - k \in 1..n
      BY <2>1
    <3>2. s[n + 1 - k] \in 0..Radix - 1
      BY <3>1, ElementOfSeq DEF Input!Byte
    <3> QED
      BY <3>2, InputSizes
  <2> QED
    BY <2>1, <2>2, InputSizes
<1>2. \A x \in Nat : x * Radix \in Nat
  BY <1>1
<1>3. step \in [1..n -> [Nat -> Nat]]
  <2>1. ASSUME NEW k \in 1..n, NEW x \in Nat
        PROVE  x * Radix + s[n + 1 - k] \in Nat
    <3> DEFINE p == x * Radix
    <3>1. p \in Nat /\ s[n + 1 - k] \in Nat
      BY <1>1, <1>2
    <3> HIDE DEF p
    <3>2. p + s[n + 1 - k] \in Nat
      BY <3>1
    <3> QED
      BY <3>2 DEF p
  <2> QED
    BY <2>1
<1>4. \A k \in 1..n, x \in Nat : step[k][x] = x * Radix + s[n + 1 - k]
  OBVIOUS
<1> HIDE DEF step
<1>5. PICK f \in [0..n -> Nat] : Walks(f, n, 0, step)
  <2>1. 0 \in Nat
    OBVIOUS
  <2> HIDE DEF n
  <2> QED
    BY <1>1, <1>3, <2>1, StepByStep
<1>6. \A i \in 1..n : f[i] = f[i - 1] * Radix + s[n + 1 - i]
  <2>1. ASSUME NEW i \in 1..n
        PROVE  f[i] = f[i - 1] * Radix + s[n + 1 - i]
    <3>1. i - 1 \in 0..n
      BY <1>1
    <3>2. f[i - 1] \in Nat
      BY <3>1
    <3> QED
      BY <1>4, <1>5, <3>2 DEF Walks
  <2> QED
    BY <2>1
<1>7. f = [i \in 0..n |-> IF i = 0 THEN 0 ELSE f[i - 1] * Radix + s[n + 1 - i]]
  <2>1. ASSUME NEW i \in 0..n
        PROVE  f[i] = IF i = 0 THEN 0 ELSE f[i - 1] * Radix + s[n + 1 - i]
    <3>1. i = 0 \/ i \in 1..n
      BY <1>1
    <3> QED
      BY <1>5, <1>6, <3>1 DEF Walks
  <2> QED
    BY <2>1
<1>8. v = [i \in 0..n |-> IF i = 0 THEN 0 ELSE v[i - 1] * Radix + s[n + 1 - i]]
  <2> HIDE DEF n
  <2> QED
    BY <1>7
<1>9. Input!ValueOf(s) = v[n]
  BY DEF Input!ValueOf
<1> HIDE DEF v
<1>10. \A i \in 0..n : v[i] = IF i = 0 THEN 0 ELSE v[i - 1] * Radix + s[n + 1 - i]
  <2> HIDE DEF n
  <2> QED
    BY <1>8
<1>11. Follows(v, n, 0, step, Nat)
  <2>1. v[0] = 0
    BY <1>1, <1>10
  <2>2. ASSUME NEW k \in 1..n, v[k - 1] \in Nat
        PROVE  v[k] = step[k][v[k - 1]]
    <3>1. k \in 0..n /\ k # 0
      BY <1>1
    <3> QED
      BY <1>4, <1>10, <2>2, <3>1
  <2> QED
    BY <2>1, <2>2 DEF Follows
<1>12. \A k \in 0..n : v[k] \in Nat
  <2>1. 0 \in Nat
    OBVIOUS
  <2> HIDE DEF n
  <2> QED
    BY <1>1, <1>3, <1>11, <2>1, StaysWithin
<1> QED
  BY <1>1, <1>9, <1>12

\* A piece of the stream.
LEMMA PieceIs ==
  ASSUME stream \in [1..StreamLen -> Input!Byte], NEW i \in Nat, NEW j \in Nat,
         i <= j, j <= StreamLen
  PROVE  Piece(i, j) \in Seq(Input!Byte) /\ Len(Piece(i, j)) = j - i
<1>1. \A k \in i + 1..j : stream[k] \in Input!Byte
  BY InputSizes
<1>2. /\ SubSeq(stream, i + 1, j) \in Seq(Input!Byte)
      /\ Len(SubSeq(stream, i + 1, j)) = IF i + 1 <= j THEN j - (i + 1) + 1 ELSE 0
  <2>1. i + 1 \in Int /\ j \in Int
    OBVIOUS
  <2> QED
    BY <1>1, <2>1, SubSeqProperties
<1> QED
  BY <1>2 DEF Piece

\* Pieces next to each other.
LEMMA PiecesJoin ==
  ASSUME stream \in [1..StreamLen -> Input!Byte], NEW i \in Nat, NEW j \in Nat, NEW k \in Nat,
         i <= j, j <= k, k <= StreamLen
  PROVE  Piece(i, j) \o Piece(j, k) = Piece(i, k)
<1>1. stream \in Seq(Input!Byte) /\ Len(stream) = StreamLen
  BY InputSizes
<1>2. i + 1 \in 1..Len(stream) + 1 /\ j \in (i + 1) - 1..Len(stream) /\ k \in j..Len(stream)
  BY <1>1, InputSizes
<1>3. SubSeq(stream, i + 1, j) \o SubSeq(stream, j + 1, k) = SubSeq(stream, i + 1, k)
  BY <1>1, <1>2, ConcatAdjacentSubSeq
<1> QED
  BY <1>3 DEF Piece

\* Where a frame ends, if it does.
LEMMA FrameEndIs ==
  ASSUME stream \in [1..StreamLen -> Input!Byte], NEW i \in 0..StreamLen + 1
  PROVE  /\ Input!FrameEnd(i) \in 0..StreamLen + 1
         /\ Input!FrameEnd(i) <= StreamLen => i + LengthSize <= Input!FrameEnd(i)
         /\ i + LengthSize <= StreamLen =>
              LET end == i + LengthSize + Input!ValueOf(Piece(i, i + LengthSize))
              IN  Input!FrameEnd(i) = IF end > StreamLen THEN StreamLen + 1 ELSE end
<1>1. i \in Nat /\ StreamLen \in Nat /\ LengthSize \in Nat
  BY InputSizes
<1> DEFINE len == Input!ValueOf(Piece(i, i + LengthSize))
<1>2. Input!FrameEnd(i) = IF i + LengthSize > StreamLen \/ i + LengthSize + len > StreamLen
                          THEN StreamLen + 1 ELSE i + LengthSize + len
  BY DEF Input!FrameEnd, Input!Beyond, Piece
<1>3. CASE i + LengthSize <= StreamLen
  <2>1. len \in Nat
    <3>1. i + LengthSize \in Nat /\ i <= i + LengthSize
      BY <1>1
    <3>2. Piece(i, i + LengthSize) \in Seq(Input!Byte)
      BY <1>1, <1>3, <3>1, PieceIs
    <3> QED
      BY <3>2, ValueIsNumber
  <2> HIDE DEF len
  <2>2. Input!FrameEnd(i) = IF i + LengthSize + len > StreamLen
                            THEN StreamLen + 1 ELSE i + LengthSize + len
    BY <1>1, <1>2, <1>3, <2>1
  <2>3. /\ Input!FrameEnd(i) \in 0..StreamLen + 1
        /\ Input!FrameEnd(i) <= StreamLen => i + LengthSize <= Input!FrameEnd(i)
    BY <1>1, <2>1, <2>2
  <2> QED
    BY <2>2, <2>3 DEF len
<1>4. CASE ~(i + LengthSize <= StreamLen)
  <2>1. Input!FrameEnd(i) = StreamLen + 1
    <3> HIDE DEF len
    <3> QED
      BY <1>1, <1>2, <1>4
  <2> QED
    BY <1>1, <1>4, <2>1
<1> QED
  BY <1>3, <1>4

\* Cuts is the function its recursive definition describes.
LEMMA CutsAdvance ==
  ASSUME stream \in [1..StreamLen -> Input!Byte]
  PROVE  /\ \A k \in 0..StreamLen : C(k) \in 0..StreamLen + 1
         /\ C(0) = 0
         /\ \A k \in 1..StreamLen : C(k) = Input!FrameEnd(C(k - 1))
<1> DEFINE n == StreamLen
           V == 0..StreamLen + 1
           step == [k \in 1..n |-> [x \in V |-> Input!FrameEnd(x)]]
           c == Input!Cuts
<1>1. n \in Nat /\ 0 \in V
  BY InputSizes
<1>2. step \in [1..n -> [V -> V]]
  <2>1. \A x \in V : Input!FrameEnd(x) \in V
    BY FrameEndIs
  <2> QED
    BY <2>1
<1>3. \A k \in 1..n, x \in V : step[k][x] = Input!FrameEnd(x)
  OBVIOUS
<1> HIDE DEF step
<1>4. PICK f \in [0..n -> V] : Walks(f, n, 0, step)
  <2> HIDE DEF V, n
  <2> QED
    BY <1>1, <1>2, StepByStep
<1>5. \A i \in 1..n : f[i] = Input!FrameEnd(f[i - 1])
  <2>1. ASSUME NEW i \in 1..n
        PROVE  f[i] = Input!FrameEnd(f[i - 1])
    <3>1. i - 1 \in 0..n
      BY <1>1
    <3>2. f[i - 1] \in V
      BY <3>1
    <3> QED
      BY <1>3, <1>4, <3>2 DEF Walks
  <2> QED
    BY <2>1
<1>6. f = [k \in 0..n |-> IF k = 0 THEN 0 ELSE Input!FrameEnd(f[k - 1])]
  <2>1. ASSUME NEW k \in 0..n
        PROVE  f[k] = IF k = 0 THEN 0 ELSE Input!FrameEnd(f[k - 1])
    <3>1. k = 0 \/ k \in 1..n
      BY <1>1
    <3> QED
      BY <1>4, <1>5, <3>1 DEF Walks
  <2> QED
    BY <2>1
<1>7. c = [k \in 0..n |-> IF k = 0 THEN 0 ELSE Input!FrameEnd(c[k - 1])]
  BY <1>6 DEF Input!Cuts
<1> HIDE DEF c
<1>8. \A k \in 0..n : c[k] = IF k = 0 THEN 0 ELSE Input!FrameEnd(c[k - 1])
  BY <1>7
<1>9. c[0] = 0 /\ \A k \in 1..n : c[k] = Input!FrameEnd(c[k - 1])
  <2>1. 0 \in 0..n /\ \A k \in 1..n : k \in 0..n /\ k # 0
    BY <1>1
  <2> QED
    BY <1>8, <2>1
<1>10. Follows(c, n, 0, step, V)
  <2>1. ASSUME NEW k \in 1..n, c[k - 1] \in V
        PROVE  c[k] = step[k][c[k - 1]]
    BY <1>3, <1>9, <2>1
  <2> QED
    BY <1>9, <2>1 DEF Follows
<1>11. \A k \in 0..n : c[k] \in V
  <2> HIDE DEF V, n
  <2> QED
    BY <1>1, <1>2, <1>10, StaysWithin
<1> QED
  BY <1>9, <1>11 DEF C, c

\* No step changes the stream, nor its frames.
LEMMA CutsKeep ==
  ASSUME stream' = stream
  PROVE  /\ Input!Cuts' = Input!Cuts
         /\ \A k : Input!MessageAt(k)' = Input!MessageAt(k)
<1>1. Input!Cuts' = Input!Cuts
  BY DEF Input!Cuts, Input!FrameEnd, Input!Beyond, Input!ValueOf
<1> QED
  BY <1>1 DEF Input!MessageAt

\* The frame that is being read, of those that were not delivered yet the first.
LEMMA NextFrame ==
  ASSUME InputTypeOK, FramesDone, C(Len(requests)) + LengthSize <= StreamLen
  PROVE  LET m == Len(requests)
             begin == C(m) + LengthSize
             len == Input!ValueOf(Piece(C(m), begin))
         IN  /\ m \in Nat /\ m + 1 \in 1..StreamLen /\ C(m) \in Nat /\ begin \in Nat /\ len \in Nat
             /\ C(m + 1) = IF begin + len > StreamLen THEN StreamLen + 1 ELSE begin + len
<1> DEFINE m == Len(requests)
           begin == C(m) + LengthSize
<1>1. /\ m \in 0..StreamLen /\ m <= C(m)
      /\ StreamLen \in Nat /\ LengthSize \in Nat /\ LengthSize > 0
      /\ stream \in [1..StreamLen -> Input!Byte]
  BY InputSizes DEF FramesDone, InputTypeOK
<1>2. C(m) \in 0..StreamLen + 1
  BY <1>1, CutsAdvance
<1>3. m + 1 \in 1..StreamLen /\ (m + 1) - 1 = m /\ C(m) \in Nat /\ begin \in Nat /\ begin <= StreamLen
  BY <1>1, <1>2
<1>4. C(m + 1) = Input!FrameEnd(C(m))
  BY <1>1, <1>3, CutsAdvance
<1>5. LET end == begin + Input!ValueOf(Piece(C(m), begin))
      IN  Input!FrameEnd(C(m)) = IF end > StreamLen THEN StreamLen + 1 ELSE end
  BY <1>1, <1>2, <1>3, FrameEndIs
<1>6. Input!ValueOf(Piece(C(m), begin)) \in Nat
  <2>1. Piece(C(m), begin) \in Seq(Input!Byte)
    BY <1>1, <1>3, PieceIs
  <2> QED
    BY <2>1, ValueIsNumber
<1> QED
  BY <1>1, <1>3, <1>4, <1>5, <1>6

-----------------------------------------------------------------------------
(* The steps *)

\* Nothing has come yet.
LEMMA InputInit ==
  ASSUME Input!Init
  PROVE  DInv
<1>1. InputTypeOK
  BY InputSizes DEF Input!Init, InputTypeOK
<1>2. Len(requests) = 0 /\ C(0) = 0 /\ handled = 0
  BY <1>1, CutsAdvance DEF Input!Init, InputTypeOK
<1>3. FramesDone
  BY <1>2, InputSizes DEF FramesDone
<1>4. InLength
  <2>1. Piece(0, 0) = <<>>
    BY SubSeqEmpty DEF Piece
  <2>2. buffer = <<>> /\ Len(buffer) = 0 /\ message_length = LengthSize
    BY DEF Input!Init
  <2> QED
    BY <1>2, <2>1, <2>2, InputSizes DEF InLength
<1> QED
  BY <1>1, <1>3, <1>4 DEF DInv, Input!Init

\* A part that does not complete the length or the message is kept behind those before it.
LEMMA PartsJoin ==
  ASSUME DInv, NEW n \in Nat, NEW to \in Nat, to = handled + n, to <= chunk_end,
         NEW from \in Nat, from <= handled, buffer = Piece(from, handled)
  PROVE  /\ buffer \o Input!Rest(n) = Piece(from, to)
         /\ Piece(from, to) \in Seq(Input!Byte)
         /\ Len(Piece(from, to)) = n + Len(buffer)
         /\ Len(buffer) = handled - from
<1>1. /\ stream \in [1..StreamLen -> Input!Byte] /\ handled \in Nat
      /\ handled <= to /\ to <= StreamLen /\ handled <= StreamLen /\ from <= to
  BY InputSizes DEF DInv, InputTypeOK
<1>2. Input!Rest(n) = Piece(handled, to)
  BY DEF Input!Rest, Piece
<1>3. Piece(from, handled) \o Piece(handled, to) = Piece(from, to)
  BY <1>1, PiecesJoin
<1>4. Len(Piece(from, handled)) = handled - from
  BY <1>1, PieceIs
<1>5. Piece(from, to) \in Seq(Input!Byte) /\ Len(Piece(from, to)) = to - from
  BY <1>1, PieceIs
<1>6. to - from = n + (handled - from)
  BY <1>1
<1> QED
  BY <1>2, <1>3, <1>4, <1>5, <1>6

\* A chunk is received: nothing of it is handled yet.
LEMMA InputReadChunk ==
  ASSUME DInv, Input!ReadChunk
  PROVE  DInv'
<1>1. /\ stream' = stream
      /\ UNCHANGED <<handled, state, message_length, buffer, requests>>
      /\ Input!Cuts' = Input!Cuts /\ \A k : Input!MessageAt(k)' = Input!MessageAt(k)
  BY CutsKeep DEF Input!ReadChunk
<1>2. PICK n \in 1..ChunkSize : chunk_end + n <= StreamLen /\ chunk_end' = chunk_end + n
  BY DEF Input!ReadChunk
<1>3. InputTypeOK'
  BY <1>1, <1>2, InputSizes DEF DInv, InputTypeOK
<1>4. FramesDone' <=> FramesDone
  BY <1>1 DEF FramesDone, C
<1>5. (InLength' <=> InLength) /\ (InData' <=> InData)
  BY <1>1 DEF InLength, InData, C, Piece, Input!ValueOf
<1> QED
  BY <1>1, <1>3, <1>4, <1>5 DEF DInv

\* The rest of the chunk is a part of what is being read.
LEMMA InputReadPart ==
  ASSUME DInv, Input!ReadPart
  PROVE  DInv'
<1>1. /\ stream' = stream /\ handled' = chunk_end
      /\ UNCHANGED <<chunk_end, state, message_length, requests>>
      /\ Input!Cuts' = Input!Cuts /\ \A k : Input!MessageAt(k)' = Input!MessageAt(k)
  BY CutsKeep DEF Input!ReadPart
<1> DEFINE n == chunk_end - handled
<1>2. /\ n \in Nat /\ handled + n = chunk_end /\ handled < chunk_end
      /\ buffer' = buffer \o Input!Rest(n)
      /\ n + Len(buffer) < message_length
  BY DEF Input!ReadPart, Input!Incomplete, Input!ReadLength, Input!Portion, DInv, InputTypeOK
<1>3. /\ InputTypeOK /\ FramesDone /\ handled \in Nat /\ chunk_end \in Nat /\ chunk_end <= StreamLen
      /\ C(Len(requests)) <= handled /\ Len(requests) \in 0..StreamLen
      /\ LengthSize \in Nat /\ LengthSize > 0 /\ StreamLen \in Nat /\ message_length \in Nat
      /\ state \in {"READING_LENGTH", "READING_DATA"}
  BY InputSizes DEF DInv, InputTypeOK, FramesDone
<1>4. C(Len(requests)) \in Nat
  <2>1. C(Len(requests)) \in 0..StreamLen + 1
    BY <1>3, CutsAdvance DEF InputTypeOK
  <2> QED
    BY <2>1, <1>3
<1> HIDE DEF n
<1>5. FramesDone'
  BY <1>1, <1>2, <1>3, <1>4 DEF FramesDone, C
<1>6. CASE state = "READING_LENGTH"
  <2> DEFINE from == C(Len(requests))
  <2>1. message_length = LengthSize /\ buffer = Piece(from, handled)
    BY <1>6 DEF DInv, InLength
  <2>2. buffer' = Piece(from, chunk_end) /\ buffer' \in Seq(Input!Byte)
        /\ Len(buffer') = n + Len(buffer)
    <3> HIDE DEF from
    <3>1. from \in Nat /\ from <= handled
      BY <1>3, <1>4 DEF from
    <3>2. n \in Nat /\ chunk_end = handled + n /\ chunk_end <= chunk_end
      BY <1>2, <1>3
    <3>3. /\ buffer \o Input!Rest(n) = Piece(from, chunk_end)
          /\ Piece(from, chunk_end) \in Seq(Input!Byte)
          /\ Len(Piece(from, chunk_end)) = n + Len(buffer)
      BY <1>3, <2>1, <3>1, <3>2, PartsJoin
    <3> QED
      BY <1>2, <3>3
  <2>3. InputTypeOK'
    BY <1>1, <1>3, <2>2 DEF InputTypeOK
  <2>4. InLength'
    BY <1>1, <1>2, <2>1, <2>2 DEF InLength, C, Piece
  <2> QED
    BY <1>1, <1>5, <1>6, <2>3, <2>4 DEF DInv
<1>7. CASE state = "READING_DATA"
  <2> DEFINE from == C(Len(requests)) + LengthSize
  <2>1. /\ from <= handled /\ buffer = Piece(from, handled)
        /\ message_length = Input!ValueOf(Piece(C(Len(requests)), from))
    BY <1>7 DEF DInv, InData
  <2>2. buffer' = Piece(from, chunk_end) /\ buffer' \in Seq(Input!Byte)
        /\ Len(buffer') = n + Len(buffer)
    <3>1. from \in Nat
      BY <1>3, <1>4
    <3> HIDE DEF from
    <3>2. n \in Nat /\ chunk_end = handled + n /\ chunk_end <= chunk_end
      BY <1>2, <1>3
    <3>3. /\ buffer \o Input!Rest(n) = Piece(from, chunk_end)
          /\ Piece(from, chunk_end) \in Seq(Input!Byte)
          /\ Len(Piece(from, chunk_end)) = n + Len(buffer)
      BY <1>3, <2>1, <3>1, <3>2, PartsJoin
    <3> QED
      BY <1>2, <3>3
  <2>3. InputTypeOK'
    BY <1>1, <1>3, <2>2 DEF InputTypeOK
  <2>4. from <= chunk_end
    <3>1. from \in Nat
      BY <1>3, <1>4
    <3> HIDE DEF from
    <3> QED
      BY <1>2, <1>3, <2>1, <3>1
  <2>5. InData'
    <3> DEFINE m == Len(requests)
               begin == C(m) + LengthSize
    <3>1. /\ C(m)' = C(m) /\ begin' = begin /\ handled' = chunk_end
          /\ Piece(C(m), begin)' = Piece(C(m), begin)
          /\ Piece(begin, handled)' = Piece(begin, chunk_end)
          /\ message_length' = message_length
      BY <1>1 DEF C, Piece
    <3>2. Input!ValueOf(Piece(C(m), begin))' = Input!ValueOf(Piece(C(m), begin))
      BY <3>1 DEF Input!ValueOf
    <3>3. begin <= chunk_end
      BY <2>4
    <3>4. message_length = Input!ValueOf(Piece(C(m), begin)) /\ buffer' = Piece(begin, chunk_end)
      BY <2>1, <2>2
    <3>5. Len(buffer') < message_length
      BY <1>2, <2>2
    <3> HIDE DEF begin
    <3>6. begin' <= handled' /\ message_length' = Input!ValueOf(Piece(C(m), begin))'
          /\ buffer' = Piece(begin, handled)' /\ Len(buffer') < message_length'
      BY <3>1, <3>2, <3>3, <3>4, <3>5
    <3> QED
      BY <3>6 DEF InData, begin
  <2> QED
    BY <1>1, <1>5, <1>7, <2>3, <2>5 DEF DInv
<1> QED
  BY <1>3, <1>6, <1>7

\* The length is complete: a message as long as it says is read next.
LEMMA InputReadWholeLength ==
  ASSUME DInv, Input!ReadWholeLength
  PROVE  DInv'
<1> DEFINE m == Len(requests)
           n == message_length - Len(buffer)
           begin == C(m) + LengthSize
<1>1. /\ stream' = stream /\ state = "READING_LENGTH" /\ state' = "READING_DATA"
      /\ UNCHANGED <<chunk_end, requests>>
      /\ message_length' = Input!ValueOf(buffer \o Input!Rest(n))
      /\ buffer' = <<>> /\ handled' = handled + n
      /\ Input!Cuts' = Input!Cuts /\ \A k : Input!MessageAt(k)' = Input!MessageAt(k)
      /\ ~(chunk_end - handled + Len(buffer) < message_length)
  BY CutsKeep DEF Input!ReadWholeLength, Input!Remaining, Input!ReadLength, Input!Incomplete,
                  Input!Portion
<1>2. /\ InputTypeOK /\ FramesDone /\ handled \in Nat /\ chunk_end \in Nat /\ chunk_end <= StreamLen
      /\ C(m) <= handled /\ m \in 0..StreamLen /\ m <= C(m)
      /\ LengthSize \in Nat /\ LengthSize > 0 /\ StreamLen \in Nat
      /\ Len(buffer) \in Nat
      /\ message_length = LengthSize /\ Len(buffer) < LengthSize /\ buffer = Piece(C(m), handled)
  BY <1>1, InputSizes, LenProperties DEF DInv, InputTypeOK, FramesDone, InLength
<1>3. C(m) \in Nat
  <2>1. C(m) \in 0..StreamLen + 1
    BY <1>2, CutsAdvance DEF InputTypeOK
  <2> QED
    BY <2>1, <1>2
<1>4. Len(buffer) = handled - C(m)
  <2>1. handled <= StreamLen
    BY <1>2 DEF InputTypeOK
  <2> QED
    BY <1>2, <1>3, <2>1, PieceIs DEF InputTypeOK
<1>5. /\ n \in Nat /\ begin \in Nat /\ begin = handled + n /\ begin <= chunk_end /\ begin <= StreamLen
      /\ handled <= begin
  <2> HIDE DEF m
  <2> QED
    BY <1>1, <1>2, <1>3, <1>4
<1>6. buffer \o Input!Rest(n) = Piece(C(m), begin)
  <2> HIDE DEF n, begin, m
  <2> QED
    BY <1>2, <1>3, <1>5, PartsJoin
<1>7. Piece(C(m), begin) \in Seq(Input!Byte) /\ C(m) <= begin
  <2>1. C(m) <= begin
    BY <1>2, <1>3
  <2> HIDE DEF begin, m
  <2> QED
    BY <1>2, <1>3, <1>5, <2>1, PieceIs DEF InputTypeOK
<1>8. message_length' = Input!ValueOf(Piece(C(m), begin)) /\ message_length' \in Nat
  BY <1>1, <1>6, <1>7, ValueIsNumber
<1>9. InputTypeOK'
  <2>1. buffer' \in Seq(Input!Byte)
    BY <1>1
  <2>2. handled' \in Nat /\ handled' <= chunk_end
    <3> HIDE DEF n, begin
    <3> QED
      BY <1>1, <1>5
  <2> QED
    BY <1>1, <1>2, <1>8, <2>1, <2>2 DEF InputTypeOK
<1>10. FramesDone'
  <2>1. C(m) <= handled'
    <3> HIDE DEF n, begin, m
    <3> QED
      BY <1>1, <1>2, <1>3, <1>5
  <2> QED
    BY <1>1, <1>2, <2>1 DEF FramesDone, C
<1>11. InData'
  <2>1. /\ C(m)' = C(m) /\ begin' = begin
        /\ Piece(C(m), begin)' = Piece(C(m), begin)
        /\ Piece(begin, handled)' = Piece(begin, handled')
    BY <1>1 DEF C, Piece
  <2>2. Input!ValueOf(Piece(C(m), begin))' = Input!ValueOf(Piece(C(m), begin))
    BY <2>1 DEF Input!ValueOf
  <2>3. handled' = begin
    <3> HIDE DEF n, begin
    <3> QED
      BY <1>1, <1>5
  <2>4. Piece(begin, begin) = <<>>
    <3> HIDE DEF begin
    <3>1. begin + 1 \in Int /\ begin \in Int /\ begin < begin + 1
      BY <1>5
    <3> QED
      BY <3>1, SubSeqEmpty DEF Piece
  <2>5. Len(buffer') = 0 /\ (0 < message_length' \/ message_length' = 0)
    BY <1>1, <1>8
  <2> HIDE DEF n, begin
  <2>6. /\ begin' <= handled' /\ message_length' = Input!ValueOf(Piece(C(m), begin))'
        /\ buffer' = Piece(begin, handled)'
        /\ Len(buffer') < message_length' \/ (message_length' = 0 /\ buffer' = <<>>)
    BY <1>1, <1>5, <1>8, <2>1, <2>2, <2>3, <2>4, <2>5
  <2> QED
    BY <2>6 DEF InData, begin
<1> QED
  BY <1>1, <1>9, <1>10, <1>11 DEF DInv

\* The message is complete: it is the frame's, and the next length begins behind it.
LEMMA InputReadWholeMessage ==
  ASSUME DInv, Input!ReadWholeMessage
  PROVE  DInv'
<1> DEFINE m == Len(requests)
           n == message_length - Len(buffer)
           begin == C(m) + LengthSize
           end == begin + message_length
           text == buffer \o Input!Rest(n)
<1>1. /\ stream' = stream /\ state = "READING_DATA" /\ state' = "READING_LENGTH"
      /\ chunk_end' = chunk_end
      /\ requests' = Append(requests, text) /\ message_length' = LengthSize
      /\ buffer' = <<>> /\ handled' = handled + n
      /\ Input!Cuts' = Input!Cuts /\ \A k : Input!MessageAt(k)' = Input!MessageAt(k)
      /\ ~(chunk_end - handled + Len(buffer) < message_length)
  BY CutsKeep DEF Input!ReadWholeMessage, Input!Remaining, Input!ReadLength, Input!Incomplete,
                  Input!Portion
<1>2. /\ InputTypeOK /\ FramesDone /\ handled \in Nat /\ chunk_end \in Nat /\ chunk_end <= StreamLen
      /\ C(m) <= handled /\ m \in 0..StreamLen /\ m <= C(m)
      /\ LengthSize \in Nat /\ LengthSize > 0 /\ StreamLen \in Nat
      /\ Len(buffer) \in Nat /\ message_length \in Nat
      /\ begin <= handled /\ buffer = Piece(begin, handled) /\ handled <= StreamLen
      /\ message_length = Input!ValueOf(Piece(C(m), begin))
      /\ Len(buffer) < message_length \/ (message_length = 0 /\ buffer = <<>>)
  BY <1>1, InputSizes, LenProperties DEF DInv, InputTypeOK, FramesDone, InData
<1>3. C(m) \in Nat /\ begin \in Nat
  <2>1. C(m) \in 0..StreamLen + 1
    BY <1>2, CutsAdvance DEF InputTypeOK
  <2> QED
    BY <2>1, <1>2
<1>4. Len(buffer) = handled - begin
  <2> HIDE DEF begin
  <2> QED
    BY <1>2, <1>3, PieceIs DEF InputTypeOK
<1>5. /\ n \in Nat /\ end \in Nat /\ end = handled + n /\ end <= chunk_end /\ end <= StreamLen
      /\ begin <= end
  <2>1. Len(buffer) <= message_length
    <3>1. buffer = <<>> => Len(buffer) = 0
      OBVIOUS
    <3> HIDE DEF begin, m
    <3> QED
      BY <1>2, <3>1
  <2>2. /\ handled \in Nat /\ chunk_end \in Nat /\ chunk_end <= StreamLen /\ begin <= handled
        /\ begin \in Nat /\ Len(buffer) \in Nat /\ message_length \in Nat /\ StreamLen \in Nat
        /\ Len(buffer) = handled - begin /\ Len(buffer) <= message_length
        /\ ~(chunk_end - handled + Len(buffer) < message_length)
    BY <1>1, <1>2, <1>3, <1>4, <2>1
  <2> HIDE DEF begin, m
  <2>3. n \in Nat /\ n = message_length - Len(buffer)
    BY <2>2
  <2>4. end \in Nat /\ end = begin + message_length
    BY <2>2
  <2> HIDE DEF n, end
  <2>5. end = handled + n /\ end <= chunk_end /\ end <= StreamLen /\ begin <= end
    BY <2>2, <2>3, <2>4
  <2> QED
    BY <2>3, <2>4, <2>5
<1>6. text = Piece(begin, end) /\ text \in Seq(Input!Byte)
  <2>1. begin <= handled /\ buffer = Piece(begin, handled)
    BY <1>2
  <2> HIDE DEF n, begin, m, end
  <2>2. /\ buffer \o Input!Rest(n) = Piece(begin, end)
        /\ Piece(begin, end) \in Seq(Input!Byte)
    BY <1>3, <1>5, <2>1, PartsJoin
  <2> QED
    BY <2>2
<1>7. m + 1 \in 1..StreamLen /\ C(m + 1) = end
  <2>1. begin <= StreamLen
    <3> HIDE DEF begin, m
    <3> QED
      BY <1>2, <1>3
  <2>2. m + 1 \in 1..StreamLen /\ C(m + 1) = IF end > StreamLen THEN StreamLen + 1 ELSE end
    BY <1>2, <2>1, NextFrame
  <2> HIDE DEF end, m
  <2> QED
    BY <1>2, <1>5, <2>2
<1>8. text = Input!MessageAt(m + 1)
  <2>1. (m + 1) - 1 = m
    BY <1>2
  <2> QED
    BY <1>6, <1>7, <2>1 DEF Input!MessageAt, Piece, C
<1>9. /\ requests' \in Seq(Seq(Input!Byte)) /\ Len(requests') = m + 1
      /\ \A k \in 1..m : requests'[k] = requests[k]
      /\ requests'[m + 1] = text
  <2>1. requests \in Seq(Seq(Input!Byte))
    BY <1>2 DEF InputTypeOK
  <2> HIDE DEF text
  <2> QED
    BY <1>1, <1>6, <2>1, AppendProperties
<1>10. handled' = end /\ handled' \in Nat
  <2> HIDE DEF end, n
  <2> QED
    BY <1>1, <1>5
<1>11. InputTypeOK'
  <2>1. handled' <= chunk_end
    <3> HIDE DEF end
    <3> QED
      BY <1>5, <1>10
  <2>2. buffer' \in Seq(Input!Byte)
    BY <1>1
  <2> QED
    BY <1>1, <1>2, <1>9, <1>10, <2>1, <2>2 DEF InputTypeOK
<1>12. FramesDone'
  <2>1. ASSUME NEW k \in 1..m + 1
        PROVE  requests'[k] = Input!MessageAt(k)
    <3>1. CASE k = m + 1
      BY <1>8, <1>9, <3>1
    <3>2. CASE k # m + 1
      <4>1. k \in 1..m
        BY <1>2, <3>2
      <4>2. requests[k] = Input!MessageAt(k)
        BY <1>2, <4>1 DEF FramesDone
      <4> QED
        BY <1>9, <4>1, <4>2
    <3> QED
      BY <3>1, <3>2
  <2>2. m + 1 <= end
    <3>1. m + 1 <= begin
      BY <1>2, <1>3
    <3>2. m + 1 <= end
      <4> HIDE DEF begin, end, m
      <4> QED
        BY <1>2, <1>3, <1>5, <3>1
    <3> QED
      BY <3>2
  <2>3. Len(requests)' = m + 1
    BY <1>9
  <2>4. \A k : Input!MessageAt(k)' = Input!MessageAt(k)
    BY <1>1
  <2>5. C(Len(requests))' = end
    BY <1>1, <1>7, <1>9 DEF C
  <2> HIDE DEF end, m, text, n, begin
  <2>6. /\ \A k \in 1..Len(requests)' : requests'[k] = Input!MessageAt(k)'
        /\ Len(requests)' \in 0..StreamLen /\ Len(requests)' <= C(Len(requests))'
        /\ C(Len(requests))' <= handled'
    BY <1>2, <1>5, <1>7, <1>10, <2>1, <2>2, <2>3, <2>4, <2>5
  <2> QED
    BY <2>6 DEF FramesDone
<1>13. InLength'
  <2>1. C(Len(requests))' = end
    BY <1>1, <1>7, <1>9 DEF C
  <2>2. Piece(C(Len(requests)), handled)' = Piece(end, end)
    BY <1>1, <1>10, <2>1 DEF Piece
  <2>3. Piece(end, end) = <<>>
    <3> HIDE DEF end
    <3>1. end + 1 \in Int /\ end \in Int /\ end < end + 1
      BY <1>5
    <3> QED
      BY <3>1, SubSeqEmpty DEF Piece
  <2>4. Len(buffer') = 0
    BY <1>1
  <2> QED
    BY <1>1, <1>2, <2>2, <2>3, <2>4 DEF InLength
<1> QED
  BY <1>1, <1>11, <1>12, <1>13 DEF DInv

-----------------------------------------------------------------------------
(* The results *)

\* The buffer always holds what has come of the frame behind those delivered.
THEOREM InputInvariance == Input!Spec => []DInv
<1>1. DInv /\ [Input!Next]_(Input!vars) => DInv'
  <2> SUFFICES ASSUME DInv, [Input!Next]_(Input!vars)
               PROVE  DInv'
    OBVIOUS
  <2>1. CASE Input!ReadChunk
    BY <2>1, InputReadChunk
  <2>2. CASE Input!ReadPart
    BY <2>2, InputReadPart
  <2>3. CASE Input!ReadWholeLength
    BY <2>3, InputReadWholeLength
  <2>4. CASE Input!ReadWholeMessage
    BY <2>4, InputReadWholeMessage
  <2>5. CASE UNCHANGED Input!vars
    <3>1. /\ UNCHANGED <<stream, handled, chunk_end, state, message_length, buffer, requests>>
          /\ Input!Cuts' = Input!Cuts /\ \A k : Input!MessageAt(k)' = Input!MessageAt(k)
      BY <2>5, CutsKeep DEF Input!vars
    <3>2. InputTypeOK' <=> InputTypeOK
      BY <3>1 DEF InputTypeOK
    <3>3. FramesDone' <=> FramesDone
      BY <3>1 DEF FramesDone, C
    <3>4. (InLength' <=> InLength) /\ (InData' <=> InData)
      BY <3>1 DEF InLength, InData, C, Piece, Input!ValueOf
    <3> QED
      BY <3>1, <3>2, <3>3, <3>4 DEF DInv
  <2> QED
    BY <2>1, <2>2, <2>3, <2>4, <2>5 DEF Input!Next
<1> QED
  BY <1>1, InputInit, PTL DEF Input!Spec

\* However a stream of bytes is cut into the chunks that recv returns, the messages
\* handled so far are those of its frames that end within the bytes handled so far.
THEOREM MessagesAreTheFrames == Input!Spec => []ChunkingIndependent
<1>1. ASSUME DInv
      PROVE  ChunkingIndependent
  <2> DEFINE m == Len(requests)
             begin == C(m) + LengthSize
  <2>1. /\ InputTypeOK /\ FramesDone /\ m \in 0..StreamLen /\ C(m) <= handled
        /\ handled \in Nat /\ handled <= StreamLen /\ StreamLen \in Nat
        /\ LengthSize \in Nat /\ LengthSize > 0 /\ message_length \in Nat
        /\ requests \in Seq(Seq(Input!Byte))
        /\ stream \in [1..StreamLen -> Input!Byte]
        /\ state \in {"READING_LENGTH", "READING_DATA"}
    BY <1>1, InputSizes DEF DInv, InputTypeOK, FramesDone
  <2>2. C(m) \in 0..StreamLen + 1 /\ C(m) \in Nat /\ begin \in Nat
    <3>1. C(m) \in 0..StreamLen + 1
      BY <2>1, CutsAdvance
    <3> QED
      BY <2>1, <3>1
  <2>3. \A k \in 1..m : requests[k] = Input!MessageAt(k)
    BY <2>1 DEF FramesDone
  <2>4. requests = [k \in 1..m |-> Input!MessageAt(k)]
    <3>1. requests = [k \in 1..m |-> requests[k]]
      BY <2>1
    <3> QED
      BY <2>3, <3>1
  \* The frame behind those that were delivered is not complete.
  <2>5. CASE m < StreamLen => handled < C(m + 1)
    <3>1. CASE Input!EmptyPending = <<>>
      <4>1. requests \o <<>> = requests
        BY <2>1, ConcatEmptySeq
      <4>2. Input!Cuts[m] <= handled /\ (m < StreamLen => handled < Input!Cuts[m + 1])
        BY <2>1, <2>5 DEF C
      <4>3. requests \o Input!EmptyPending = [k \in 1..m |-> Input!MessageAt(k)]
        BY <2>4, <3>1, <4>1
      <4> HIDE DEF m
      <4> QED
        BY <2>1, <4>2, <4>3 DEF ChunkingIndependent, Input!ChunkingIndependent
    <3>2. CASE Input!EmptyPending # <<>>
      <4>1. state = "READING_DATA" /\ message_length = 0
        BY <3>2 DEF Input!EmptyPending
      <4>2. /\ begin <= handled /\ Input!ValueOf(Piece(C(m), begin)) = 0
            /\ buffer = Piece(begin, handled) /\ buffer = <<>>
        BY <1>1, <4>1, LenProperties DEF DInv, InData, InputTypeOK
      <4>3. begin <= StreamLen
        <5> HIDE DEF m, begin
        <5> QED
          BY <2>1, <2>2, <4>2
      <4>4. m + 1 \in 1..StreamLen
            /\ C(m + 1) = IF begin + 0 > StreamLen THEN StreamLen + 1 ELSE begin + 0
        BY <2>1, <4>2, <4>3, NextFrame
      <4>5. m < StreamLen /\ C(m + 1) <= handled /\ C(m + 1) \in Nat
        <5> HIDE DEF m, begin
        <5> QED
          BY <2>1, <2>2, <4>2, <4>3, <4>4
      <4> HIDE DEF m, begin
      <4> QED
        BY <2>1, <2>5, <4>5
    <3> QED
      BY <3>1, <3>2
  \* It is, and its message is empty: no byte behind it was handled yet.
  <2>6. CASE ~(m < StreamLen => handled < C(m + 1))
    <3>1. m + 1 \in 1..StreamLen /\ C(m + 1) \in 0..StreamLen + 1 /\ C(m + 1) <= handled
          /\ (m + 1) - 1 = m
      <4>1. m + 1 \in 1..StreamLen /\ (m + 1) - 1 = m
        BY <2>1, <2>6
      <4>2. C(m + 1) \in 0..StreamLen + 1
        BY <2>1, <4>1, CutsAdvance
      <4> HIDE DEF m
      <4> QED
        BY <2>1, <2>6, <4>1, <4>2
    <3>2. C(m + 1) = Input!FrameEnd(C(m))
      BY <2>1, <3>1, CutsAdvance
    <3>3. C(m) + LengthSize <= C(m + 1) /\ C(m + 1) <= StreamLen
      <4>1. C(m + 1) <= StreamLen
        <5> HIDE DEF m
        <5> QED
          BY <2>1, <3>1
      <4> QED
        BY <2>1, <2>2, <3>2, <4>1, FrameEndIs
    <3>4. begin <= handled /\ begin <= StreamLen
      <4> HIDE DEF m
      <4> QED
        BY <2>1, <2>2, <3>1, <3>3
    <3>5. state = "READING_DATA"
      <4>1. ASSUME state = "READING_LENGTH"
            PROVE  FALSE
        <5>1. Len(buffer) < LengthSize /\ buffer = Piece(C(m), handled)
          BY <1>1, <4>1 DEF DInv, InLength
        <5>2. Len(buffer) = handled - C(m)
          <6> HIDE DEF m
          <6> QED
            BY <2>1, <2>2, <5>1, PieceIs
        <5> HIDE DEF m
        <5> QED
          BY <2>1, <2>2, <3>4, <5>1, <5>2 DEF begin
      <4> QED
        BY <2>1, <4>1
    <3>6. /\ buffer = Piece(begin, handled)
          /\ message_length = Input!ValueOf(Piece(C(m), begin))
          /\ Len(buffer) < message_length \/ (message_length = 0 /\ buffer = <<>>)
      BY <1>1, <3>5 DEF DInv, InData
    <3>7. Len(buffer) = handled - begin
      <4> HIDE DEF begin, m
      <4> QED
        BY <2>1, <2>2, <3>4, <3>6, PieceIs
    <3>8. C(m + 1) = IF begin + message_length > StreamLen THEN StreamLen + 1 ELSE begin + message_length
      BY <2>1, <3>4, <3>6, NextFrame
    <3>9. message_length = 0 /\ buffer = <<>> /\ C(m + 1) = begin /\ handled = begin
      <4>1. begin + message_length <= handled
        <5> HIDE DEF begin, m
        <5> QED
          BY <2>1, <2>2, <3>1, <3>3, <3>8
      <4>2. ~(Len(buffer) < message_length)
        <5> HIDE DEF begin, m
        <5> QED
          BY <2>1, <2>2, <3>7, <4>1
      <4>3. message_length = 0 /\ buffer = <<>> /\ Len(buffer) = 0
        BY <3>6, <4>2
      <4>4. handled = begin
        <5> HIDE DEF begin, m
        <5> QED
          BY <2>1, <2>2, <3>7, <4>3
      <4>5. C(m + 1) = begin
        <5> HIDE DEF begin, m
        <5> QED
          BY <2>1, <2>2, <3>4, <3>8, <4>3
      <4> QED
        BY <4>3, <4>4, <4>5
    <3>10. Input!MessageAt(m + 1) = <<>>
      <4>1. Input!MessageAt(m + 1) = SubSeq(stream, begin + 1, C(m + 1))
        BY <3>1 DEF Input!MessageAt, C
      <4> HIDE DEF begin, m
      <4>2. begin + 1 \in Int /\ begin \in Int /\ begin < begin + 1
        BY <2>2
      <4> QED
        BY <3>9, <4>1, <4>2, SubSeqEmpty
    <3>11. Input!EmptyPending = << <<>> >>
      BY <3>5, <3>9 DEF Input!EmptyPending
    <3>12. requests \o << <<>> >> = [k \in 1..m + 1 |-> Input!MessageAt(k)]
      <4>1. <<>> \in Seq(Input!Byte)
        BY EmptySeq
      <4>2. /\ Append(requests, <<>>) \in Seq(Seq(Input!Byte))
            /\ Len(Append(requests, <<>>)) = m + 1
            /\ \A k \in 1..m : Append(requests, <<>>)[k] = requests[k]
            /\ Append(requests, <<>>)[m + 1] = <<>>
        BY <2>1, <4>1, AppendProperties
      <4>3. requests \o << <<>> >> = Append(requests, <<>>)
        BY <2>1, <4>1, AppendIsConcat
      <4> DEFINE all == Append(requests, <<>>)
      <4>4. ASSUME NEW k \in 1..m + 1
            PROVE  all[k] = Input!MessageAt(k)
        <5>1. CASE k = m + 1
          BY <3>10, <4>2, <5>1
        <5>2. CASE k # m + 1
          <6>1. k \in 1..m
            BY <2>1, <5>2
          <6> QED
            BY <2>3, <4>2, <6>1
        <5> QED
          BY <5>1, <5>2
      <4>5. all = [k \in 1..m + 1 |-> all[k]]
        <5> HIDE DEF all
        <5>1. all \in Seq(Seq(Input!Byte)) /\ Len(all) = m + 1
          BY <4>2 DEF all
        <5> HIDE DEF m
        <5> QED
          BY <5>1
      <4> HIDE DEF all, m
      <4>6. all = [k \in 1..m + 1 |-> Input!MessageAt(k)]
        BY <4>4, <4>5
      <4> QED
        BY <4>3, <4>6 DEF all
    <3>13. m + 1 < StreamLen => handled < C(m + 2)
      <4>1. ASSUME m + 1 < StreamLen
            PROVE  handled < C(m + 2)
        <5>1. m + 2 \in 1..StreamLen /\ (m + 2) - 1 = m + 1
          BY <2>1, <4>1
        <5>2. C(m + 2) = Input!FrameEnd(C(m + 1)) /\ C(m + 2) \in 0..StreamLen + 1
          BY <2>1, <5>1, CutsAdvance
        <5>3. C(m + 2) <= StreamLen => C(m + 1) + LengthSize <= C(m + 2)
          BY <2>1, <3>1, <5>2, FrameEndIs
        <5> HIDE DEF m, begin
        <5> QED
          BY <2>1, <3>9, <2>2, <5>2, <5>3
      <4> QED
        BY <4>1
    <3>14. m + 1 \in 0..StreamLen /\ (m + 1) + 1 = m + 2
      BY <2>1, <3>1
    <3>15. Input!Cuts[m + 1] <= handled /\ (m + 1 < StreamLen => handled < Input!Cuts[(m + 1) + 1])
      BY <3>1, <3>13, <3>14 DEF C
    <3>16. requests \o Input!EmptyPending = [k \in 1..m + 1 |-> Input!MessageAt(k)]
      BY <3>11, <3>12
    <3> DEFINE last == m + 1
    <3>17. /\ last \in 0..StreamLen
           /\ Input!Cuts[last] <= handled /\ (last < StreamLen => handled < Input!Cuts[last + 1])
           /\ requests \o Input!EmptyPending = [k \in 1..last |-> Input!MessageAt(k)]
      BY <3>14, <3>15, <3>16
    <3> HIDE DEF last
    <3> QED
      BY <3>17 DEF ChunkingIndependent, Input!ChunkingIndependent
  <2> QED
    BY <2>5, <2>6
<1> QED
  BY <1>1, InputInvariance, PTL
==============================================================================
