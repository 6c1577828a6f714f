---------------------------- MODULE CELLClientProofs ----------------------------
(***************************************************************************)
(* A client of a CELLServer: the bytes of its connection and its           *)
(* heartbeat.                                                              *)
(*                                                                         *)
(* The bytes, in both directions: for messages of any kinds                *)
(* and lengths, buffers of any size and streams cut at any place, the      *)
(* programs handle what was sent, whole and in order.  A stream of bytes   *)
(* is compared with the messages it is made of by IsStream, which every    *)
(* step keeps by one of four facts: a message is put behind the stream,    *)
(* the front message is taken off, bytes move from one buffer to the next, *)
(* or the stream is dropped with its connection.                           *)
(*                                                                         *)
(* The heartbeat: both bounds on a client's silence, for every DeadTime,   *)
(* every length of a round and any set of clients.                         *)
(***************************************************************************)
EXTENDS Connection, Heartbeat, SequenceTheorems, TLAPS

------------------------------------------------------------------------------
(***************************************************************************)
(* Streams of bytes, of messages whose kinds are in a set K.               *)
(***************************************************************************)
Messages(K) == [kind : K, id : Nat]
ByteSeqs(K) == Seq([msg : Messages(K), at : Nat])
HaveLengths(K) == \A k \in K : Length[k] \in Nat \ {0}
Ordered(messages) == \A i, j \in 1 .. Len(messages) : i < j => messages[i].id < messages[j].id

\* What Pop leaves of a sequence.
LEMMA PopIs ==
    ASSUME NEW S, NEW s \in Seq(S), NEW n \in 0 .. Len(s)
    PROVE  /\ Pop(s, n) \in Seq(S)
           /\ Len(Pop(s, n)) = Len(s) - n
           /\ \A i \in 1 .. Len(s) - n : Pop(s, n)[i] = s[n + i]
<1>1. Len(s) \in Nat /\ \A i \in 1 .. Len(s) : s[i] \in S
  BY ElementOfSeq, LenProperties
<1>2. n + 1 \in Int /\ Len(s) \in Int /\ \A i \in n + 1 .. Len(s) : s[i] \in S
  BY <1>1
<1>3. /\ SubSeq(s, n + 1, Len(s)) \in Seq(S)
      /\ Len(SubSeq(s, n + 1, Len(s))) = IF n + 1 <= Len(s) THEN Len(s) - (n + 1) + 1 ELSE 0
      /\ \A i \in 1 .. Len(s) - (n + 1) + 1 : SubSeq(s, n + 1, Len(s))[i] = s[n + 1 + i - 1]
  BY <1>2, SubSeqProperties
<1>4. Len(s) - (n + 1) + 1 = Len(s) - n
  BY <1>1
<1>5. \A i \in 1 .. Len(s) - n : n + 1 + i - 1 = n + i
  BY <1>1
<1>6. Pop(s, n) \in Seq(S)
  BY <1>3 DEF Pop
<1>7. Len(Pop(s, n)) = Len(s) - n
  <2>1. Len(Pop(s, n)) = IF n + 1 <= Len(s) THEN Len(s) - (n + 1) + 1 ELSE 0
    BY <1>3 DEF Pop
  <2> QED BY <1>1, <2>1
<1>8. ASSUME NEW i \in 1 .. Len(s) - n PROVE Pop(s, n)[i] = s[n + i]
  <2>1. Pop(s, n)[i] = s[n + 1 + i - 1]
    BY <1>3, <1>4 DEF Pop
  <2> QED BY <1>5, <2>1
<1> QED BY <1>6, <1>7, <1>8

\* Popping twice.
LEMMA PopPop ==
    ASSUME NEW S, NEW s \in Seq(S), NEW n \in 0 .. Len(s), NEW k \in 0 .. Len(s) - n
    PROVE  Pop(Pop(s, n), k) = Pop(s, n + k)
<1>1. Len(s) \in Nat
  BY LenProperties
<1>2. /\ Pop(s, n) \in Seq(S) /\ Len(Pop(s, n)) = Len(s) - n
      /\ \A i \in 1 .. Len(s) - n : Pop(s, n)[i] = s[n + i]
  BY PopIs
<1>3. /\ Pop(Pop(s, n), k) \in Seq(S) /\ Len(Pop(Pop(s, n), k)) = Len(s) - n - k
      /\ \A i \in 1 .. Len(s) - n - k : Pop(Pop(s, n), k)[i] = Pop(s, n)[k + i]
  BY <1>2, PopIs
<1>4. n + k \in 0 .. Len(s)
  BY <1>1
<1>5. /\ Pop(s, n + k) \in Seq(S) /\ Len(Pop(s, n + k)) = Len(s) - (n + k)
      /\ \A i \in 1 .. Len(s) - (n + k) : Pop(s, n + k)[i] = s[n + k + i]
  BY <1>4, PopIs
<1>6. \A i \in 1 .. Len(s) - n - k : k + i \in 1 .. Len(s) - n /\ n + (k + i) = n + k + i
  BY <1>1
<1>7. Len(s) - n - k = Len(s) - (n + k)
  BY <1>1
<1>8. Len(Pop(Pop(s, n), k)) = Len(Pop(s, n + k))
  BY <1>3, <1>5, <1>7
<1>9. \A i \in 1 .. Len(Pop(Pop(s, n), k)) : Pop(Pop(s, n), k)[i] = Pop(s, n + k)[i]
  <2> SUFFICES ASSUME NEW i \in 1 .. Len(s) - n - k
               PROVE  Pop(Pop(s, n), k)[i] = Pop(s, n + k)[i]
    BY <1>3
  <2>1. Pop(Pop(s, n), k)[i] = Pop(s, n)[k + i]
    BY <1>3
  <2>2. Pop(s, n)[k + i] = s[n + k + i]
    BY <1>2, <1>6
  <2>3. Pop(s, n + k)[i] = s[n + k + i]
    BY <1>5, <1>7
  <2> QED BY <2>1, <2>2, <2>3
<1> HIDE DEF Pop
<1> QED BY <1>3, <1>5, <1>8, <1>9, SeqEqual

\* A stream cut in two.
LEMMA CutAt ==
    ASSUME NEW S, NEW t \in Seq(S), NEW n \in 0 .. Len(t)
    PROVE  /\ SubSeq(t, 1, n) \in Seq(S) /\ Len(SubSeq(t, 1, n)) = n
           /\ Pop(t, n) \in Seq(S)
           /\ SubSeq(t, 1, n) \o Pop(t, n) = t
<1>1. Len(t) \in Nat /\ \A i \in 1 .. Len(t) : t[i] \in S
  BY ElementOfSeq, LenProperties
<1>2. SubSeq(t, 1, n) \in Seq(S) /\ Len(SubSeq(t, 1, n)) = n
  <2>1. \A i \in 1 .. n : t[i] \in S
    BY <1>1
  <2> QED BY <2>1, <1>1, SubSeqProperties
<1>3. Pop(t, n) \in Seq(S)
  BY PopIs
<1>4. SubSeq(t, 1, n) \o Pop(t, n) = t
  <2>1. SubSeq(t, 1, n) \o SubSeq(t, n + 1, Len(t)) = SubSeq(t, 1, Len(t))
    <3>1. 1 \in 1 .. Len(t) + 1 /\ n \in 1 - 1 .. Len(t) /\ Len(t) \in n .. Len(t)
      BY <1>1
    <3> QED BY <3>1, <1>1, ConcatAdjacentSubSeq
  <2>2. SubSeq(t, 1, Len(t)) = t
    BY SubSeqFull
  <2> QED BY <2>1, <2>2 DEF Pop
<1> QED BY <1>2, <1>3, <1>4

\* Bytes popped from the front piece of a stream.
LEMMA PopFront ==
    ASSUME NEW S, NEW s \in Seq(S), NEW t \in Seq(S), NEW n \in 0 .. Len(s)
    PROVE  Pop(s, n) \o t = Pop(s \o t, n)
<1>1. Len(s) \in Nat /\ Len(t) \in Nat
  BY LenProperties
<1>2. /\ Pop(s, n) \in Seq(S) /\ Len(Pop(s, n)) = Len(s) - n
      /\ \A i \in 1 .. Len(s) - n : Pop(s, n)[i] = s[n + i]
  BY PopIs
<1>3. /\ s \o t \in Seq(S) /\ Len(s \o t) = Len(s) + Len(t)
      /\ \A i \in 1 .. Len(s) + Len(t) : (s \o t)[i] = IF i <= Len(s) THEN s[i] ELSE t[i - Len(s)]
  BY ConcatProperties
<1>4. n \in 0 .. Len(s \o t)
  BY <1>1, <1>3
<1>5. /\ Pop(s \o t, n) \in Seq(S) /\ Len(Pop(s \o t, n)) = Len(s) + Len(t) - n
      /\ \A i \in 1 .. Len(s) + Len(t) - n : Pop(s \o t, n)[i] = (s \o t)[n + i]
  <2>1. PICK u \in Seq(S) : u = s \o t
    BY <1>3
  <2>2. n \in 0 .. Len(u)
    BY <1>4, <2>1
  <2>3. /\ Pop(u, n) \in Seq(S) /\ Len(Pop(u, n)) = Len(u) - n
        /\ \A i \in 1 .. Len(u) - n : Pop(u, n)[i] = u[n + i]
    BY <2>2, PopIs
  <2> QED BY <1>3, <2>1, <2>3
<1>6. /\ Pop(s, n) \o t \in Seq(S) /\ Len(Pop(s, n) \o t) = Len(s) - n + Len(t)
      /\ \A i \in 1 .. Len(s) - n + Len(t) :
            (Pop(s, n) \o t)[i] = IF i <= Len(s) - n THEN Pop(s, n)[i] ELSE t[i - (Len(s) - n)]
  <2>1. PICK u \in Seq(S) : u = Pop(s, n)
    BY <1>2
  <2>2. /\ u \o t \in Seq(S) /\ Len(u \o t) = Len(u) + Len(t)
        /\ \A i \in 1 .. Len(u) + Len(t) :
              (u \o t)[i] = IF i <= Len(u) THEN u[i] ELSE t[i - Len(u)]
    BY ConcatProperties
  <2> QED BY <1>2, <2>1, <2>2
<1>7. ASSUME NEW i \in 1 .. Len(s) - n + Len(t)
      PROVE  (Pop(s, n) \o t)[i] = Pop(s \o t, n)[i]
  <2>1. /\ i \in 1 .. Len(s) + Len(t) - n /\ n + i \in 1 .. Len(s) + Len(t)
        /\ i - (Len(s) - n) = n + i - Len(s)
        /\ i <= Len(s) - n => i \in 1 .. Len(s) - n
        /\ n + i <= Len(s) <=> i <= Len(s) - n
    BY <1>1
  <2>2. Pop(s \o t, n)[i] = IF n + i <= Len(s) THEN s[n + i] ELSE t[n + i - Len(s)]
    BY <1>3, <1>5, <2>1, SMTT(30)
  <2> QED BY <1>2, <1>6, <2>1, <2>2
<1>8. Len(s) - n + Len(t) = Len(s) + Len(t) - n
  BY <1>1
<1> QED BY <1>5, <1>6, <1>7, <1>8, SeqEqual

\* A function on the first numbers is a sequence.
LEMMA FunctionIsSeq ==
    ASSUME NEW S, NEW n \in Nat, NEW f \in [1 .. n -> S]
    PROVE  f \in Seq(S) /\ Len(f) = n
<1>1. f \in Seq(S)
  BY SeqDef
<1> QED BY <1>1, LenProperties

\* The bytes of a message.
LEMMA BytesOf ==
    ASSUME NEW K, HaveLengths(K), NEW m \in Messages(K)
    PROVE  /\ Bytes(m) \in ByteSeqs(K) /\ Len(Bytes(m)) = Length[m.kind]
           /\ Length[m.kind] \in Nat \ {0}
           /\ \A n \in 1 .. Length[m.kind] : Bytes(m)[n] = [msg |-> m, at |-> n]
<1>1. Length[m.kind] \in Nat \ {0}
  BY DEF HaveLengths, Messages
<1>2. Bytes(m) \in [1 .. Length[m.kind] -> [msg : Messages(K), at : Nat]]
  BY <1>1 DEF Bytes
<1>3. Bytes(m) \in ByteSeqs(K) /\ Len(Bytes(m)) = Length[m.kind]
  BY <1>1, <1>2, FunctionIsSeq DEF ByteSeqs
<1> QED BY <1>1, <1>3 DEF Bytes

\* No bytes are the stream of no messages.
LEMMA NoStream == IsStream(<<>>, <<>>)
BY DEF IsStream

\* A message is put behind a stream.
LEMMA StreamPushed ==
    ASSUME NEW K, HaveLengths(K), NEW d \in ByteSeqs(K), NEW q \in Seq(Messages(K)),
           NEW m \in Messages(K), IsStream(d, q), \A i \in 1 .. Len(q) : q[i].id < m.id
    PROVE  d \o Bytes(m) \in ByteSeqs(K) /\ IsStream(d \o Bytes(m), Append(q, m))
<1>0. PICK L \in Nat \ {0} : L = Length[m.kind]
  BY BytesOf
<1>1. PICK e : e = d \o Bytes(m)
  OBVIOUS
<1>2. PICK r : r = Append(q, m)
  OBVIOUS
<1>3. /\ Bytes(m) \in ByteSeqs(K) /\ Len(Bytes(m)) = L /\ L \in Nat \ {0}
      /\ \A n \in 1 .. L : Bytes(m)[n] = [msg |-> m, at |-> n]
  BY <1>0, BytesOf
<1>4. Len(d) \in Nat /\ Len(q) \in Nat
  BY LenProperties DEF ByteSeqs
<1>5. /\ e \in ByteSeqs(K) /\ Len(e) = Len(d) + L
      /\ \A j \in 1 .. Len(d) + L : e[j] = IF j <= Len(d) THEN d[j] ELSE Bytes(m)[j - Len(d)]
  <2>1. PICK b \in ByteSeqs(K) : b = Bytes(m)
    BY <1>3
  <2>2. /\ d \o b \in ByteSeqs(K) /\ Len(d \o b) = Len(d) + Len(b)
        /\ \A j \in 1 .. Len(d) + Len(b) : (d \o b)[j] = IF j <= Len(d) THEN d[j] ELSE b[j - Len(d)]
    BY ConcatProperties DEF ByteSeqs
  <2> QED BY <1>1, <1>3, <2>1, <2>2
<1>6. \A j \in 1 .. Len(d) : j \in 1 .. Len(e) /\ e[j] = d[j]
  BY <1>3, <1>4, <1>5
<1>7. \A n \in 1 .. L : Len(d) + n \in 1 .. Len(e) /\ e[Len(d) + n] = [msg |-> m, at |-> n]
  <2> SUFFICES ASSUME NEW n \in 1 .. L
               PROVE  Len(d) + n \in 1 .. Len(e) /\ e[Len(d) + n] = [msg |-> m, at |-> n]
    OBVIOUS
  <2>1. Len(d) + n \in 1 .. Len(d) + L /\ ~(Len(d) + n <= Len(d)) /\ Len(d) + n - Len(d) = n
    BY <1>3, <1>4
  <2> QED BY <1>3, <1>5, <2>1
<1>8. \A j \in 1 .. Len(e) : j \in 1 .. Len(d) \/ \E n \in 1 .. L : j = Len(d) + n
  <2>1. Len(e) = Len(d) + L
    BY <1>5
  <2>2. ASSUME NEW j \in 1 .. Len(e), j \notin 1 .. Len(d) PROVE \E n \in 1 .. L : j = Len(d) + n
    <3>1. j - Len(d) \in 1 .. L /\ j = Len(d) + (j - Len(d))
      BY <1>4, <2>1, <2>2
    <3> QED BY <3>1
  <2> QED BY <2>2
<1>9. /\ Len(r) = Len(q) + 1 /\ r[Len(q) + 1] = m /\ Len(q) + 1 \in 1 .. Len(r)
      /\ \A i \in 1 .. Len(q) : i \in 1 .. Len(r) /\ r[i] = q[i]
  BY <1>2, <1>4, AppendProperties
<1>10. ASSUME NEW j \in 1 .. Len(e)
       PROVE  \E i \in 1 .. Len(r) : e[j].msg = r[i] /\ e[j].at \in 1 .. Length[r[i].kind]
  <2>1. CASE j \in 1 .. Len(d)
    <3>1. PICK i \in 1 .. Len(q) : d[j].msg = q[i] /\ d[j].at \in 1 .. Length[q[i].kind]
      BY <2>1 DEF IsStream
    <3> QED BY <1>6, <1>9, <2>1, <3>1
  <2>2. ASSUME NEW n \in 1 .. L, j = Len(d) + n
        PROVE  \E i \in 1 .. Len(r) : e[j].msg = r[i] /\ e[j].at \in 1 .. Length[r[i].kind]
    <3>0. e[j] = [msg |-> m, at |-> n]
      BY <1>7, <2>2
    <3>1. e[j].msg = m /\ e[j].at = n
      BY <3>0
    <3> QED BY <1>0, <1>9, <3>1
  <2> QED BY <1>8, <2>1, <2>2
<1>11. ASSUME NEW i \in 1 .. Len(r)
       PROVE  \E p \in 0 .. Len(e) - Length[r[i].kind] :
                 \A n \in 1 .. Length[r[i].kind] : e[p + n] = [msg |-> r[i], at |-> n]
  <2>1. CASE i = Len(q) + 1
    <3>1. r[i] = m /\ Len(d) \in 0 .. Len(e) - L
      BY <1>3, <1>4, <1>5, <1>9, <2>1
    <3> QED BY <1>0, <1>7, <3>1
  <2>2. CASE i # Len(q) + 1
    <3>1. i \in 1 .. Len(q) /\ r[i] = q[i] /\ q[i] \in Messages(K)
      BY <1>4, <1>9, <2>2, ElementOfSeq
    <3>2. PICK M \in Nat \ {0} : M = Length[q[i].kind]
      BY <3>1 DEF HaveLengths, Messages
    <3>3. PICK p \in 0 .. Len(d) - M :
              \A n \in 1 .. M : d[p + n] = [msg |-> q[i], at |-> n]
      BY <3>1, <3>2 DEF IsStream
    <3>4. \A n \in 1 .. M : p + n \in 1 .. Len(d)
      BY <1>4
    <3>5. p \in 0 .. Len(e) - M
      BY <1>4, <1>5
    <3>6. \A n \in 1 .. M : e[p + n] = [msg |-> q[i], at |-> n]
      BY <1>6, <3>3, <3>4
    <3>7. Length[r[i].kind] = M
      BY <3>1, <3>2
    <3> QED BY <3>1, <3>5, <3>6, <3>7, SMTT(30)
  <2> QED BY <2>1, <2>2
<1>12. ASSUME NEW j \in 1 .. Len(e), NEW k \in 1 .. Len(e), j < k
       PROVE  Before(e[j], e[k])
  <2>1. CASE j \in 1 .. Len(d) /\ k \in 1 .. Len(d)
    BY <1>6, <1>12, <2>1 DEF IsStream
  <2>2. ASSUME NEW n \in 1 .. L, k = Len(d) + n, j \in 1 .. Len(d) PROVE Before(e[j], e[k])
    <3>1. PICK i \in 1 .. Len(q) : d[j].msg = q[i]
      BY <2>2 DEF IsStream
    <3>0. e[k] = [msg |-> m, at |-> n]
      BY <1>7, <2>2
    <3>2. e[j].msg.id < m.id /\ e[k].msg = m
      BY <1>6, <2>2, <3>0, <3>1
    <3> QED BY <3>2 DEF Before
  <2>3. ASSUME NEW n \in 1 .. L, NEW o \in 1 .. L, j = Len(d) + o, k = Len(d) + n
        PROVE  Before(e[j], e[k])
    <3>1. o < n
      BY <1>4, <1>12, <2>3
    <3>0. e[j] = [msg |-> m, at |-> o] /\ e[k] = [msg |-> m, at |-> n]
      BY <1>7, <2>3
    <3>2. e[j].msg = m /\ e[k].msg = m /\ e[j].at = o /\ e[k].at = n
      BY <3>0
    <3> QED BY <3>1, <3>2 DEF Before
  <2>4. ~(k \in 1 .. Len(d) /\ j \notin 1 .. Len(d))
    BY <1>4, <1>12
  <2> QED BY <1>8, <2>1, <2>2, <2>3, <2>4
<1>13. IsStream(e, r)
  BY <1>10, <1>11, <1>12 DEF IsStream
<1> QED BY <1>1, <1>2, <1>5, <1>13

\* The front of a stream is its first message, whole, and the others are left when it
\* is popped.
LEMMA StreamPopped ==
    ASSUME NEW K, HaveLengths(K), NEW d \in ByteSeqs(K), NEW q \in Seq(Messages(K)),
           IsStream(d, q), Ordered(q), d # <<>>
    PROVE  /\ 1 \in 1 .. Len(q) /\ d[1].msg = q[1]
           /\ Length[q[1].kind] \in 1 .. Len(d)
           /\ IsStream(Pop(d, Length[q[1].kind]), Pop(q, 1))
<1>1. Len(d) \in Nat \ {0} /\ Len(q) \in Nat
  BY LenProperties, EmptySeq DEF ByteSeqs
<1>2. \A j \in 1 .. Len(d) : d[j] \in [msg : Messages(K), at : Nat]
  BY ElementOfSeq DEF ByteSeqs
<1>3. \A i \in 1 .. Len(q) : q[i] \in Messages(K) /\ q[i].id \in Nat /\ Length[q[i].kind] \in Nat \ {0}
  <2>1. \A i \in 1 .. Len(q) : q[i] \in Messages(K)
    BY ElementOfSeq
  <2>2. \A m \in Messages(K) : m.id \in Nat /\ m.kind \in K
    BY DEF Messages
  <2> QED BY <2>1, <2>2 DEF HaveLengths
<1>4. 1 \in 1 .. Len(d) /\ 1 \in 1 .. Len(q)
  BY <1>1 DEF IsStream
<1>5. PICK L \in Nat \ {0} : L = Length[q[1].kind]
  BY <1>3, <1>4
<1>6. PICK p \in 0 .. Len(d) - L : \A n \in 1 .. L : d[p + n] = [msg |-> q[1], at |-> n]
  BY <1>4, <1>5 DEF IsStream
<1>7. p = 0
  <2> SUFFICES ASSUME p # 0 PROVE FALSE
    OBVIOUS
  <2>1. p + 1 \in 1 .. Len(d) /\ 1 < p + 1 /\ 1 \in 1 .. L
    BY <1>1, <1>5
  <2>2. Before(d[1], d[p + 1])
    BY <1>4, <2>1 DEF IsStream
  <2>0. d[p + 1] = [msg |-> q[1], at |-> 1]
    BY <1>6, <2>1
  <2>3. d[p + 1].msg = q[1] /\ d[p + 1].at = 1
    BY <2>0
  <2>4. PICK i \in 1 .. Len(q) : d[1].msg = q[i] /\ d[1].at \in 1 .. Length[q[i].kind]
    BY <1>4 DEF IsStream
  <2>5. ~(d[1].at < 1)
    BY <1>3, <2>4
  <2>6. ~(q[i].id < q[1].id)
    <3>1. i = 1 \/ q[1].id < q[i].id
      BY <1>1, <1>4 DEF Ordered
    <3> QED BY <1>3, <1>4, <3>1
  <2> QED BY <2>2, <2>3, <2>4, <2>5, <2>6 DEF Before
<1>8. L \in 1 .. Len(d) /\ \A n \in 1 .. L : n \in 1 .. Len(d) /\ d[n] = [msg |-> q[1], at |-> n]
  BY <1>1, <1>5, <1>6, <1>7
<1>9. d[1].msg = q[1]
  <2>1. d[1] = [msg |-> q[1], at |-> 1]
    BY <1>5, <1>8
  <2> QED BY <2>1
<1>10. PICK e : e = Pop(d, L)
  OBVIOUS
<1>11. PICK r : r = Pop(q, 1)
  OBVIOUS
<1>12. Len(e) = Len(d) - L /\ \A j \in 1 .. Len(e) : e[j] = d[L + j] /\ L + j \in 1 .. Len(d) /\ L + j > L
  <2>1. L \in 0 .. Len(d)
    BY <1>8
  <2>2. Len(e) = Len(d) - L /\ \A j \in 1 .. Len(d) - L : e[j] = d[L + j]
    BY <1>10, <2>1, PopIs DEF ByteSeqs
  <2>3. ASSUME NEW j \in 1 .. Len(e) PROVE e[j] = d[L + j] /\ L + j \in 1 .. Len(d) /\ L + j > L
    <3>1. j \in 1 .. Len(d) - L /\ L + j \in 1 .. Len(d) /\ L + j > L
      BY <1>1, <2>1, <2>2
    <3> QED BY <2>2, <3>1
  <2> QED BY <2>2, <2>3
<1>13. Len(r) = Len(q) - 1 /\ \A i \in 1 .. Len(r) : r[i] = q[1 + i] /\ 1 + i \in 1 .. Len(q)
  <2>1. 1 \in 0 .. Len(q)
    BY <1>4
  <2>2. Len(r) = Len(q) - 1 /\ \A i \in 1 .. Len(q) - 1 : r[i] = q[1 + i]
    BY <1>11, <2>1, PopIs
  <2> QED BY <1>1, <2>2
<1>14. \A i \in 1 .. Len(q) : q[i] = q[1] => i = 1
  <2> SUFFICES ASSUME NEW i \in 1 .. Len(q), i # 1 PROVE q[i] # q[1]
    OBVIOUS
  <2>1. q[1].id < q[i].id
    BY <1>1, <1>4 DEF Ordered
  <2> QED BY <1>3, <1>4, <2>1
<1>15. ASSUME NEW j \in 1 .. Len(e)
       PROVE  \E i \in 1 .. Len(r) : e[j].msg = r[i] /\ e[j].at \in 1 .. Length[r[i].kind]
  <2>1. PICK i \in 1 .. Len(q) :
            d[L + j].msg = q[i] /\ d[L + j].at \in 1 .. Length[q[i].kind]
    BY <1>12 DEF IsStream
  <2>2. i # 1
    <3> SUFFICES ASSUME i = 1 PROVE FALSE
      OBVIOUS
    <3>1. PICK n \in 1 .. L : n = d[L + j].at
      BY <1>5, <2>1
    <3>0. n \in 1 .. Len(d) /\ d[n] = [msg |-> q[1], at |-> n] /\ n < L + j
      BY <1>8, <1>12
    <3>2. n \in 1 .. Len(d) /\ d[n].msg = q[1] /\ d[n].at = n /\ n < L + j
      BY <3>0
    <3>3. Before(d[n], d[L + j])
      BY <1>12, <3>2 DEF IsStream
    <3>4. d[L + j].msg = d[n].msg /\ d[L + j].at = n /\ d[n].msg.id \in Nat
      BY <1>3, <1>4, <2>1, <3>1, <3>2
    <3> QED BY <3>2, <3>3, <3>4 DEF Before
  <2>3. i - 1 \in 1 .. Len(r) /\ 1 + (i - 1) = i
    BY <1>1, <1>13, <2>2
  <2>4. r[i - 1] = q[i]
    BY <1>13, <2>3
  <2> QED BY <1>12, <2>1, <2>3, <2>4
<1>16. ASSUME NEW i \in 1 .. Len(r)
       PROVE  \E s \in 0 .. Len(e) - Length[r[i].kind] :
                 \A n \in 1 .. Length[r[i].kind] : e[s + n] = [msg |-> r[i], at |-> n]
  <2>1. r[i] = q[1 + i] /\ 1 + i \in 1 .. Len(q) /\ 1 + i # 1
    BY <1>13
  <2>0. PICK M \in Nat \ {0} : M = Length[q[1 + i].kind]
    BY <1>3, <2>1
  <2>2. PICK s \in 0 .. Len(d) - M : \A n \in 1 .. M : d[s + n] = [msg |-> q[1 + i], at |-> n]
    BY <2>0, <2>1 DEF IsStream
  <2>3. s >= L
    <3> SUFFICES ASSUME s < L PROVE FALSE
      BY <1>5
    <3>1. s + 1 \in 1 .. L /\ 1 \in 1 .. M
      BY <1>5, <2>1, SMTT(30)
    <3>0. d[s + 1] = [msg |-> q[1], at |-> s + 1] /\ d[s + 1] = [msg |-> q[1 + i], at |-> 1]
      BY <1>8, <2>2, <3>1
    <3>2. d[s + 1].msg = q[1] /\ d[s + 1].msg = q[1 + i]
      BY <3>0
    <3> QED BY <1>14, <2>1, <3>2
  <2>4. s - L \in 0 .. Len(e) - M
    BY <1>1, <1>12, <2>3
  <2>5. ASSUME NEW n \in 1 .. M PROVE e[(s - L) + n] = [msg |-> q[1 + i], at |-> n]
    <3>1. (s - L) + n \in 1 .. Len(e) /\ L + ((s - L) + n) = s + n
      BY <1>1, <1>12, <2>4
    <3> QED BY <1>12, <2>2, <3>1
  <2>6. s - L \in 0 .. Len(e) - Length[r[i].kind]
    BY <2>0, <2>1, <2>4
  <2>7. \A n \in 1 .. Length[r[i].kind] : e[(s - L) + n] = [msg |-> r[i], at |-> n]
    BY <2>0, <2>1, <2>5
  <2> QED BY <2>6, <2>7
<1>17. ASSUME NEW j \in 1 .. Len(e), NEW k \in 1 .. Len(e), j < k
       PROVE  Before(e[j], e[k])
  <2>1. L + j < L + k
    BY <1>5, <1>17
  <2> QED BY <1>12, <2>1 DEF IsStream
<1>18. IsStream(e, r)
  BY <1>15, <1>16, <1>17 DEF IsStream
<1> QED BY <1>4, <1>5, <1>8, <1>9, <1>10, <1>11, <1>18

------------------------------------------------------------------------------
(***************************************************************************)
(* The invariant of the connection.                                        *)
(***************************************************************************)
Replies == {Reply[k] : k \in Kinds} \ {NoReply}

ConnTypes ==
    /\ wire \in ByteSeqs(Kinds) /\ recvBuff \in ByteSeqs(Kinds)
    /\ sendBuff \in ByteSeqs(Replies) /\ back \in ByteSeqs(Replies)
    /\ clientBuff \in ByteSeqs(Replies)
    /\ sent \in Seq(Messages(Kinds)) /\ handled \in Seq(Messages(Kinds))
    /\ accepted \in Seq(Messages(Replies)) /\ got \in Seq(Messages(Replies))
    /\ written \in 0 .. Len(sendBuff)
    /\ place \in {"read", "handle", "write", "sending", "full", "closed"}
    /\ client \in {"run", "handle", "closed"}
    /\ refused \in Nat /\ blocked \in BOOLEAN

\* The messages are numbered as they are sent, and a reply by its message.
Numbered ==
    /\ \A i \in 1 .. Len(sent) : sent[i].id = i
    /\ Ordered(accepted)
    /\ \A i \in 1 .. Len(accepted) : accepted[i].id <= Len(handled)

\* A part of _sendBuff is passed on only inside send.
WrittenInside ==
    /\ place \in {"read", "handle", "write", "full"} => written = 0
    /\ place = "sending" => written < Len(sendBuff)

\* What RepliesWhole says, also after the worker has closed the connection.
RepliesKept ==
    client # "closed" =>
        /\ IsPrefix(got, accepted)
        /\ IsStream(clientBuff \o back \o Pop(sendBuff, written), Pop(accepted, Len(got)))

\* As long as every round could write, a round begins with an empty _sendBuff, and the
\* replies of the round with the messages still to be handled are no longer than _recvBuff.
RoundFits ==
    /\ Len(recvBuff) <= RecvSize
    /\ ~blocked =>
          /\ refused = 0
          /\ place = "read" => sendBuff = <<>>
          /\ place = "handle" => Len(sendBuff) + Len(recvBuff) <= RecvSize

ConnInv ==
    ConnTypes /\ Numbered /\ WrittenInside /\ StreamConserved /\ RepliesKept /\ RoundFits

------------------------------------------------------------------------------
(***************************************************************************)
(* The messages of a stream, sent and taken.                               *)
(***************************************************************************)
LEMMA PrefixIs ==
    ASSUME NEW S, NEW s \in Seq(S), NEW t \in Seq(S)
    PROVE  IsPrefix(s, t) <=> Len(s) <= Len(t) /\ \A i \in 1 .. Len(s) : s[i] = t[i]
<1>1. Len(s) \in Nat /\ Len(t) \in Nat /\ (\A i \in 1 .. Len(s) : s[i] \in S)
      /\ (\A i \in 1 .. Len(t) : t[i] \in S)
  BY ElementOfSeq, LenProperties
<1>2. SubSeq(s, 1, Len(s)) = s
  BY SubSeqFull
<1>3. ASSUME Len(s) <= Len(t)
      PROVE  s = SubSeq(t, 1, Len(s)) <=> \A i \in 1 .. Len(s) : s[i] = t[i]
  <2>1. PICK u : u = SubSeq(t, 1, Len(s))
    OBVIOUS
  <2>2. u \in Seq(S) /\ Len(u) = Len(s) /\ \A i \in 1 .. Len(s) : u[i] = t[i]
    <3>1. \A i \in 1 .. Len(s) : t[i] \in S
      BY <1>1, <1>3
    <3>2. /\ u \in Seq(S) /\ Len(u) = IF 1 <= Len(s) THEN Len(s) - 1 + 1 ELSE 0
          /\ \A i \in 1 .. Len(s) - 1 + 1 : u[i] = t[1 + i - 1]
      BY <1>1, <2>1, <3>1, SubSeqProperties
    <3>3. Len(u) = Len(s)
      BY <1>1, <3>2
    <3>4. \A i \in 1 .. Len(s) : i \in 1 .. Len(s) - 1 + 1 /\ 1 + i - 1 = i
      BY <1>1
    <3> QED BY <3>2, <3>3, <3>4
  <2>3. (\A i \in 1 .. Len(s) : s[i] = u[i]) => s = u
    BY <2>2, SeqEqual
  <2> QED BY <2>1, <2>2, <2>3
<1> QED BY <1>2, <1>3 DEF IsPrefix

\* A message put behind those not taken yet.
LEMMA PutBehind ==
    ASSUME NEW S, NEW s \in Seq(S), NEW t \in Seq(S), NEW x \in S, IsPrefix(s, t)
    PROVE  /\ IsPrefix(s, Append(t, x))
           /\ Pop(Append(t, x), Len(s)) = Append(Pop(t, Len(s)), x)
<1>1. Len(s) \in 0 .. Len(t) /\ Len(t) \in Nat /\ \A i \in 1 .. Len(s) : s[i] = t[i]
  BY PrefixIs, LenProperties
<1>2. PICK u : u = Append(t, x)
  OBVIOUS
<1>3. /\ u \in Seq(S) /\ Len(u) = Len(t) + 1 /\ u[Len(t) + 1] = x
      /\ \A i \in 1 .. Len(t) : u[i] = t[i]
  BY <1>2, AppendProperties
<1>4. IsPrefix(s, u)
  <2>1. Len(s) <= Len(u) /\ \A i \in 1 .. Len(s) : s[i] = u[i]
    BY <1>1, <1>3
  <2> QED BY <1>3, <2>1, PrefixIs
<1>5. PICK n \in 0 .. Len(t) : n = Len(s)
  BY <1>1
<1>6. /\ Pop(u, n) \in Seq(S) /\ Len(Pop(u, n)) = Len(t) + 1 - n
      /\ \A i \in 1 .. Len(t) + 1 - n : Pop(u, n)[i] = u[n + i]
  <2>1. n \in 0 .. Len(u) /\ u \in Seq(S)
    BY <1>1, <1>3
  <2>2. /\ Pop(u, n) \in Seq(S) /\ Len(Pop(u, n)) = Len(u) - n
        /\ \A i \in 1 .. Len(u) - n : Pop(u, n)[i] = u[n + i]
    BY <2>1, PopIs
  <2> QED BY <1>3, <2>2
<1>7. PICK v : v = Pop(t, n)
  OBVIOUS
<1>8. v \in Seq(S) /\ Len(v) = Len(t) - n /\ \A i \in 1 .. Len(t) - n : v[i] = t[n + i]
  BY <1>7, PopIs
<1>9. /\ Append(v, x) \in Seq(S) /\ Len(Append(v, x)) = Len(v) + 1
      /\ Append(v, x)[Len(v) + 1] = x
      /\ \A i \in 1 .. Len(v) : Append(v, x)[i] = v[i]
  BY <1>8, AppendProperties
<1>10. ASSUME NEW i \in 1 .. Len(t) + 1 - n PROVE Pop(u, n)[i] = Append(v, x)[i]
  <2>1. CASE i = Len(t) + 1 - n
    <3>1. n + i = Len(t) + 1 /\ i = Len(v) + 1
      BY <1>1, <1>8, <2>1
    <3> QED BY <1>3, <1>6, <1>9, <3>1
  <2>2. CASE i # Len(t) + 1 - n
    <3>1. n + i \in 1 .. Len(t) /\ i \in 1 .. Len(t) - n
      BY <1>1, <2>2
    <3> QED BY <1>3, <1>6, <1>8, <1>9, <3>1
  <2> QED BY <2>1, <2>2
<1>11. Len(Append(v, x)) = Len(Pop(u, n)) /\ Len(Pop(u, n)) = Len(t) + 1 - n
  BY <1>1, <1>6, <1>8, <1>9
<1>12. Pop(u, n) = Append(v, x)
  BY <1>6, <1>9, <1>10, <1>11, SeqEqual
<1> QED BY <1>2, <1>4, <1>5, <1>7, <1>12

\* The message at the front of a receive buffer is taken out of it: it is the next of
\* those that have not been taken.
LEMMA TakeFront ==
    ASSUME NEW K, HaveLengths(K), NEW buff \in ByteSeqs(K), NEW rest \in ByteSeqs(K),
           NEW all \in Seq(Messages(K)), NEW taken \in Seq(Messages(K)),
           IsPrefix(taken, all), Ordered(all),
           IsStream(buff \o rest, Pop(all, Len(taken))), HasMsg(buff)
    PROVE  /\ FrontMsg(buff) \in Messages(K)
           /\ Len(taken) + 1 \in 1 .. Len(all) /\ FrontMsg(buff) = all[Len(taken) + 1]
           /\ IsPrefix(Append(taken, FrontMsg(buff)), all)
           /\ Len(Append(taken, FrontMsg(buff))) = Len(taken) + 1
           /\ Append(taken, FrontMsg(buff)) \in Seq(Messages(K))
           /\ PopFrontMsg(buff) \in ByteSeqs(K)
           /\ Len(PopFrontMsg(buff)) = Len(buff) - Length[FrontMsg(buff).kind]
           /\ Len(buff) \in Nat
           /\ IsStream(PopFrontMsg(buff) \o rest, Pop(all, Len(taken) + 1))
<1>1. /\ Len(taken) \in 0 .. Len(all) /\ Len(all) \in Nat /\ Len(taken) \in Nat
      /\ \A i \in 1 .. Len(taken) : taken[i] = all[i]
  BY PrefixIs, LenProperties
<1>2. PICK h \in 0 .. Len(all) : h = Len(taken)
  BY <1>1
<1>3. PICK q \in Seq(Messages(K)) : q = Pop(all, h)
  BY PopIs
<1>4. Len(q) = Len(all) - h /\ \A i \in 1 .. Len(all) - h : q[i] = all[h + i]
  BY <1>3, PopIs
<1>5. Ordered(q)
  <2>1. \A i \in 1 .. Len(q) : h + i \in 1 .. Len(all) /\ q[i] = all[h + i]
    BY <1>1, <1>4
  <2>2. \A i, j \in 1 .. Len(q) : i < j => h + i < h + j
    BY <1>1
  <2> QED BY <2>1, <2>2 DEF Ordered
<1>6. Len(buff) \in Nat \ {0} /\ Len(rest) \in Nat
  BY MessageConstants, LenProperties DEF HasMsg, ByteSeqs
<1>7. PICK d : d = buff \o rest
  OBVIOUS
<1>8. /\ d \in ByteSeqs(K) /\ Len(d) = Len(buff) + Len(rest) /\ d # <<>>
      /\ d[1] = buff[1]
  <2>1. /\ d \in ByteSeqs(K) /\ Len(d) = Len(buff) + Len(rest)
        /\ \A i \in 1 .. Len(buff) + Len(rest) :
              d[i] = IF i <= Len(buff) THEN buff[i] ELSE rest[i - Len(buff)]
    BY <1>7, ConcatProperties DEF ByteSeqs
  <2>2. 1 \in 1 .. Len(buff) + Len(rest) /\ 1 <= Len(buff)
    BY <1>6
  <2>3. d # <<>>
    BY <1>6, <2>1
  <2> QED BY <2>1, <2>2, <2>3
<1>9. /\ 1 \in 1 .. Len(q) /\ d[1].msg = q[1]
      /\ Length[q[1].kind] \in 1 .. Len(d)
      /\ IsStream(Pop(d, Length[q[1].kind]), Pop(q, 1))
  BY <1>2, <1>3, <1>5, <1>7, <1>8, StreamPopped
<1>10. PICK m : m = FrontMsg(buff)
  OBVIOUS
<1>11. m = q[1] /\ m = all[h + 1] /\ h + 1 \in 1 .. Len(all) /\ m \in Messages(K)
  <2>1. m = q[1]
    BY <1>8, <1>9, <1>10 DEF FrontMsg
  <2>2. 1 \in 1 .. Len(all) - h /\ h + 1 \in 1 .. Len(all)
    BY <1>1, <1>4, <1>9
  <2>3. m = all[h + 1]
    BY <1>4, <2>1, <2>2
  <2>4. q[1] \in Messages(K)
    BY <1>9, ElementOfSeq
  <2> QED BY <2>1, <2>2, <2>3, <2>4
<1>12. PICK L \in 1 .. Len(buff) : L = Length[m.kind]
  <2>1. Length[m.kind] <= Len(buff)
    BY <1>10 DEF HasMsg
  <2> QED BY <1>6, <1>9, <1>11, <2>1
<1>13. PopFrontMsg(buff) = Pop(buff, L)
  BY <1>10, <1>12 DEF PopFrontMsg
<1>14. Pop(buff, L) \in ByteSeqs(K) /\ Len(Pop(buff, L)) = Len(buff) - L
  <2>1. L \in 0 .. Len(buff)
    BY <1>6
  <2> QED BY <2>1, PopIs DEF ByteSeqs
<1>15. Pop(buff, L) \o rest = Pop(d, L)
  <2>1. L \in 0 .. Len(buff)
    BY <1>6
  <2> QED BY <1>7, <2>1, PopFront DEF ByteSeqs
<1>16. Pop(q, 1) = Pop(all, h + 1)
  <2>1. h \in 0 .. Len(all) /\ 1 \in 0 .. Len(all) - h
    BY <1>1, <1>4, <1>9
  <2> QED BY <1>3, <2>1, PopPop
<1>17. /\ Append(taken, m) \in Seq(Messages(K)) /\ Len(Append(taken, m)) = h + 1
       /\ IsPrefix(Append(taken, m), all)
  <2>1. PICK u : u = Append(taken, m)
    OBVIOUS
  <2>2. /\ u \in Seq(Messages(K)) /\ Len(u) = h + 1 /\ u[h + 1] = m
        /\ \A i \in 1 .. h : u[i] = taken[i]
    BY <1>2, <1>11, <2>1, AppendProperties
  <2>3. \A i \in 1 .. h + 1 : u[i] = all[i]
    <3>1. \A i \in 1 .. h + 1 : i = h + 1 \/ i \in 1 .. h
      BY <1>1
    <3> QED BY <1>1, <1>2, <1>11, <2>2, <3>1
  <2>4. Len(u) <= Len(all)
    BY <1>11, <2>2
  <2> QED BY <2>1, <2>2, <2>3, <2>4, PrefixIs
<1> QED BY <1>2, <1>6, <1>9, <1>10, <1>11, <1>12, <1>13, <1>14, <1>15, <1>16, <1>17

\* Every message has a length, a reply at most that of its message.
LEMMA ConnLengths == HaveLengths(Kinds) /\ HaveLengths(Replies)
<1>0. PICK h \in Nat \ {0} : h = HeaderSize
  BY MessageConstants
<1>1. ASSUME NEW k \in Kinds PROVE Length[k] \in Nat \ {0}
  <2>1. PICK n \in Nat : n = Length[k] /\ n >= h
    BY <1>0, MessageConstants
  <2> QED BY <2>1
<1>2. ASSUME NEW r \in Replies PROVE Length[r] \in Nat \ {0}
  <2>1. PICK k \in Kinds : r = Reply[k] /\ Reply[k] # NoReply
    BY DEF Replies
  <2>2. PICK n \in Nat : n = Length[k]
    BY MessageConstants
  <2>3. PICK n2 \in h .. n : n2 = Length[r]
    BY <1>0, <2>1, <2>2, ConnectionConstants
  <2> QED BY <2>3
<1> QED BY <1>1, <1>2 DEF HaveLengths

\* Pieces of streams put together.
LEMMA BytesConcat ==
    ASSUME NEW K, NEW a \in ByteSeqs(K), NEW b \in ByteSeqs(K)
    PROVE  a \o b \in ByteSeqs(K)
<1>1. PICK S : S = [msg : Messages(K), at : Nat]
  OBVIOUS
<1>2. ByteSeqs(K) = Seq(S)
  BY <1>1 DEF ByteSeqs
<1> QED BY <1>2, ConcatProperties

\* Three pieces of a stream, and bytes taken from the front of one piece of a stream
\* and put behind another.
Associative(K) == \A a, b, c \in ByteSeqs(K) : (a \o b) \o c = a \o (b \o c)

Movable(K) ==
    \A a, b \in ByteSeqs(K) : \A n \in 0 .. Len(b) :
        /\ a \o SubSeq(b, 1, n) \in ByteSeqs(K)
        /\ Len(a \o SubSeq(b, 1, n)) = Len(a) + n
        /\ Pop(b, n) \in ByteSeqs(K)
        /\ (a \o SubSeq(b, 1, n)) \o Pop(b, n) = a \o b

LEMMA BytesAssoc == \A K : Associative(K)
<1> SUFFICES ASSUME NEW K, NEW a \in ByteSeqs(K), NEW b \in ByteSeqs(K), NEW c \in ByteSeqs(K)
             PROVE  (a \o b) \o c = a \o (b \o c)
  BY DEF Associative
<1>1. PICK S : S = [msg : Messages(K), at : Nat]
  OBVIOUS
<1>2. ByteSeqs(K) = Seq(S)
  BY <1>1 DEF ByteSeqs
<1> QED BY <1>2, ConcatAssociative

LEMMA BytesMoved == \A K : Movable(K)
<1> SUFFICES ASSUME NEW K, NEW a \in ByteSeqs(K), NEW b \in ByteSeqs(K), NEW n \in 0 .. Len(b)
             PROVE  /\ a \o SubSeq(b, 1, n) \in ByteSeqs(K)
                    /\ Len(a \o SubSeq(b, 1, n)) = Len(a) + n
                    /\ Pop(b, n) \in ByteSeqs(K)
                    /\ (a \o SubSeq(b, 1, n)) \o Pop(b, n) = a \o b
  BY DEF Movable
<1>1. PICK S : S = [msg : Messages(K), at : Nat]
  OBVIOUS
<1>2. ByteSeqs(K) = Seq(S)
  BY <1>1 DEF ByteSeqs
<1>3. PICK p : p = SubSeq(b, 1, n)
  OBVIOUS
<1>4. PICK v : v = Pop(b, n)
  OBVIOUS
<1>5. p \in Seq(S) /\ v \in Seq(S) /\ Len(p) = n /\ p \o v = b
  BY <1>2, <1>3, <1>4, CutAt
<1>6. a \in Seq(S) /\ p \in Seq(S) /\ v \in Seq(S)
  BY <1>2, <1>5
<1>7. (a \o p) \o v = a \o (p \o v)
  BY <1>6, ConcatAssociative
<1>8. a \o p \in Seq(S) /\ Len(a \o p) = Len(a) + Len(p)
  BY <1>6, ConcatProperties
<1> QED BY <1>2, <1>3, <1>4, <1>5, <1>7, <1>8

\* What has been sent to the client and what the client still has to take.
OnTheWay == (clientBuff \o back) \o Pop(sendBuff, written)

\* The bytes on the way to the client are bytes of replies.
LEMMA OnTheWayTyped ==
    ASSUME ConnTypes
    PROVE  /\ Pop(sendBuff, written) \in ByteSeqs(Replies)
           /\ clientBuff \o back \in ByteSeqs(Replies)
           /\ back \o Pop(sendBuff, written) \in ByteSeqs(Replies)
           /\ OnTheWay = clientBuff \o (back \o Pop(sendBuff, written))
           /\ OnTheWay \in ByteSeqs(Replies)
<1>1. PICK p \in ByteSeqs(Replies) : p = Pop(sendBuff, written)
  BY PopIs DEF ConnTypes, ByteSeqs
<1>2. clientBuff \in ByteSeqs(Replies) /\ back \in ByteSeqs(Replies)
  BY DEF ConnTypes
<1>3. clientBuff \o back \in ByteSeqs(Replies) /\ back \o p \in ByteSeqs(Replies)
  BY <1>2, BytesConcat
<1>4. (clientBuff \o back) \o p = clientBuff \o (back \o p)
  BY <1>2, BytesAssoc DEF Associative
<1>5. clientBuff \o (back \o p) \in ByteSeqs(Replies)
  BY <1>2, <1>3, BytesConcat
<1> QED BY <1>1, <1>3, <1>4, <1>5 DEF OnTheWay

\* Each step of the two programs keeps the invariant: the client sends,
LEMMA ClientSendStep ==
    ASSUME ConnInv, NEW k \in Kinds, ClientSend(k)
    PROVE  ConnInv'
<1> USE DEF ConnInv
<1>1. PICK m : m = [kind |-> k, id |-> Len(sent) + 1]
  OBVIOUS
<1>2. /\ wire' = wire \o Bytes(m) /\ sent' = Append(sent, m)
      /\ UNCHANGED <<recvBuff, sendBuff, written, back, place, clientBuff, client, got, handled,
                     accepted, refused, blocked>>
  BY <1>1 DEF ClientSend, clientVars
<1>3. sent \in Seq(Messages(Kinds)) /\ handled \in Seq(Messages(Kinds)) /\ Len(sent) \in Nat
  BY LenProperties DEF ConnTypes
<1>4. m \in Messages(Kinds) /\ m.id = Len(sent) + 1
  BY <1>1, <1>3 DEF Messages
<1>5. /\ sent' \in Seq(Messages(Kinds)) /\ Len(sent') = Len(sent) + 1
      /\ sent'[Len(sent) + 1] = m /\ \A i \in 1 .. Len(sent) : sent'[i] = sent[i]
  BY <1>2, <1>3, <1>4, AppendProperties
<1>6. /\ Bytes(m) \in ByteSeqs(Kinds) /\ recvBuff \in ByteSeqs(Kinds) /\ wire \in ByteSeqs(Kinds)
  BY <1>4, BytesOf, ConnLengths DEF ConnTypes
<1>7. wire' \in ByteSeqs(Kinds) /\ recvBuff \o wire' = (recvBuff \o wire) \o Bytes(m)
      /\ recvBuff \o wire \in ByteSeqs(Kinds)
  <2>1. PICK b \in ByteSeqs(Kinds) : b = Bytes(m)
    BY <1>6
  <2>2. wire \o b \in ByteSeqs(Kinds) /\ recvBuff \o wire \in ByteSeqs(Kinds)
    BY <1>6, BytesConcat
  <2>3. recvBuff \o (wire \o b) = (recvBuff \o wire) \o b
    <3>1. recvBuff \in ByteSeqs(Kinds) /\ wire \in ByteSeqs(Kinds)
      BY <1>6
    <3> QED BY <3>1, BytesAssoc DEF Associative
  <2> QED BY <1>2, <2>1, <2>2, <2>3
<1>8. ConnTypes'
  BY <1>2, <1>5, <1>7 DEF ConnTypes
<1>9. Numbered'
  <2>1. \A i \in 1 .. Len(sent') : i = Len(sent) + 1 \/ i \in 1 .. Len(sent)
    BY <1>3, <1>5
  <2>2. \A i \in 1 .. Len(sent') : sent'[i].id = i
    BY <1>4, <1>5, <2>1 DEF Numbered
  <2> QED BY <1>2, <2>2 DEF Numbered, Ordered
<1>10. StreamConserved'
  <2>1. IsPrefix(handled, sent) /\ IsStream(recvBuff \o wire, Pop(sent, Len(handled)))
    BY DEF StreamConserved
  <2>2. IsPrefix(handled, Append(sent, m))
        /\ Pop(Append(sent, m), Len(handled)) = Append(Pop(sent, Len(handled)), m)
    BY <1>3, <1>4, <2>1, PutBehind
  <2>3. Len(handled) \in 0 .. Len(sent)
    BY <1>3, <2>1, PrefixIs, LenProperties
  <2>4. PICK q : q = Pop(sent, Len(handled))
    OBVIOUS
  <2>5. /\ q \in Seq(Messages(Kinds)) /\ Len(q) = Len(sent) - Len(handled)
        /\ \A i \in 1 .. Len(sent) - Len(handled) : q[i] = sent[Len(handled) + i]
    BY <1>3, <2>3, <2>4, PopIs
  <2>6. \A i \in 1 .. Len(q) : q[i].id < m.id
    <3> SUFFICES ASSUME NEW i \in 1 .. Len(q) PROVE q[i].id < m.id
      OBVIOUS
    <3>1. Len(handled) + i \in 1 .. Len(sent) /\ q[i] = sent[Len(handled) + i]
      BY <1>3, <2>3, <2>5
    <3>2. q[i].id = Len(handled) + i
      BY <3>1 DEF Numbered
    <3> QED BY <1>3, <1>4, <2>3, <3>1, <3>2
  <2>7. PICK d \in ByteSeqs(Kinds) : d = recvBuff \o wire
    BY <1>7
  <2>8. IsStream(d \o Bytes(m), Append(q, m))
    BY <1>4, <2>1, <2>4, <2>5, <2>6, <2>7, ConnLengths, StreamPushed
  <2> QED BY <1>2, <1>7, <2>2, <2>4, <2>7, <2>8 DEF StreamConserved
<1>11. WrittenInside' /\ RepliesKept' /\ RoundFits'
  BY <1>2 DEF WrittenInside, RepliesKept, RoundFits
<1> QED BY <1>8, <1>9, <1>10, <1>11

\* it receives a piece of the stream,
LEMMA ClientOnRunStep ==
    ASSUME ConnInv, ClientOnRun
    PROVE  ConnInv'
<1> USE DEF ConnInv
<1>1. PICK n \in 1 .. Len(back) :
          clientBuff' = clientBuff \o SubSeq(back, 1, n) /\ back' = Pop(back, n)
  BY DEF ClientOnRun
<1>2. /\ client = "run" /\ client' = "handle"
      /\ UNCHANGED <<wire, recvBuff, sendBuff, written, place, got, sent, handled, accepted,
                     refused, blocked>>
  BY DEF ClientOnRun, histories
<1>3. clientBuff \in ByteSeqs(Replies) /\ back \in ByteSeqs(Replies) /\ n \in 0 .. Len(back)
  <2>1. Len(back) \in Nat
    BY LenProperties DEF ConnTypes, ByteSeqs
  <2> QED BY <2>1 DEF ConnTypes
<1>4. /\ clientBuff' \in ByteSeqs(Replies) /\ back' \in ByteSeqs(Replies)
      /\ clientBuff' \o back' = clientBuff \o back
  <2>0. Movable(Replies)
    BY BytesMoved
  <2>1. /\ clientBuff \o SubSeq(back, 1, n) \in ByteSeqs(Replies)
        /\ Pop(back, n) \in ByteSeqs(Replies)
        /\ (clientBuff \o SubSeq(back, 1, n)) \o Pop(back, n) = clientBuff \o back
    BY <1>3, <2>0, ZenonT(60) DEF Movable
  <2> QED BY <1>1, <2>1
<1>5. ConnTypes'
  BY <1>2, <1>4 DEF ConnTypes
<1>6. RepliesKept'
  BY <1>2, <1>4 DEF RepliesKept
<1>7. Numbered' /\ WrittenInside' /\ StreamConserved' /\ RoundFits'
  BY <1>2 DEF Numbered, Ordered, WrittenInside, StreamConserved, RoundFits
<1> QED BY <1>5, <1>6, <1>7

\* it takes a reply from its buffer,
LEMMA ClientHandleStep ==
    ASSUME ConnInv, ClientHandle
    PROVE  ConnInv'
<1> USE DEF ConnInv
<1>1. /\ client = "handle"
      /\ UNCHANGED <<wire, recvBuff, sendBuff, written, back, place, sent, handled, accepted,
                     refused, blocked>>
  BY DEF ClientHandle, histories
<1>2. Numbered' /\ WrittenInside' /\ StreamConserved' /\ RoundFits'
  BY <1>1 DEF Numbered, Ordered, WrittenInside, StreamConserved, RoundFits
<1>3. CASE ~HasMsg(clientBuff)
  <2>1. client' = "run" /\ clientBuff' = clientBuff /\ got' = got
    BY <1>3 DEF ClientHandle
  <2> QED BY <1>1, <1>2, <2>1 DEF ConnTypes, RepliesKept
<1>4. CASE HasMsg(clientBuff)
  <2>1. PICK m : m = FrontMsg(clientBuff)
    OBVIOUS
  <2>2. client' = client /\ got' = Append(got, m) /\ clientBuff' = PopFrontMsg(clientBuff)
    BY <1>4, <2>1 DEF ClientHandle, ClientOnNetMsg
  <2>3. PICK p \in ByteSeqs(Replies) : p = Pop(sendBuff, written)
    BY OnTheWayTyped
  <2>4. PICK r \in ByteSeqs(Replies) : r = back \o p
    BY <2>3, OnTheWayTyped
  <2>5. /\ IsPrefix(got, accepted)
        /\ IsStream(clientBuff \o r, Pop(accepted, Len(got)))
    BY <1>1, <2>3, <2>4, OnTheWayTyped DEF RepliesKept, OnTheWay
  <2>6. /\ clientBuff \in ByteSeqs(Replies) /\ back \in ByteSeqs(Replies)
        /\ accepted \in Seq(Messages(Replies)) /\ got \in Seq(Messages(Replies))
        /\ Ordered(accepted)
    BY DEF ConnTypes, Numbered
  <2>7. /\ IsPrefix(got', accepted) /\ Len(got') = Len(got) + 1
        /\ got' \in Seq(Messages(Replies)) /\ clientBuff' \in ByteSeqs(Replies)
        /\ IsStream(clientBuff' \o r, Pop(accepted, Len(got) + 1))
    BY <1>4, <2>1, <2>2, <2>5, <2>6, ConnLengths, TakeFront
  <2>8. ConnTypes'
    BY <1>1, <2>2, <2>7 DEF ConnTypes
  <2>9. (clientBuff' \o back) \o p = clientBuff' \o r
    <3>0. Associative(Replies)
      BY BytesAssoc
    <3>1. PICK c : c = clientBuff'
      OBVIOUS
    <3>2. c \in ByteSeqs(Replies) /\ back \in ByteSeqs(Replies) /\ p \in ByteSeqs(Replies)
      BY <2>3, <2>6, <2>7, <3>1
    <3>3. (c \o back) \o p = c \o (back \o p)
      BY ONLY <3>0, <3>2, ZenonT(60) DEF Associative
    <3> QED BY <2>4, <3>1, <3>3
  <2>10. RepliesKept'
    BY <1>1, <2>2, <2>3, <2>7, <2>9 DEF RepliesKept
  <2> QED BY <1>2, <2>8, <2>10
<1> QED BY <1>3, <1>4

\* it closes the socket,
LEMMA ClientCloseStep ==
    ASSUME ConnInv, ClientClose
    PROVE  ConnInv'
<1> USE DEF ConnInv
<1>1. /\ client' = "closed" /\ clientBuff' = <<>> /\ back' = <<>>
      /\ UNCHANGED <<wire, recvBuff, sendBuff, written, place, got, sent, handled, accepted,
                     refused, blocked>>
  BY DEF ClientClose, histories
<1>2. <<>> \in ByteSeqs(Replies)
  BY EmptySeq DEF ByteSeqs
<1>3. ConnTypes'
  BY <1>1, <1>2 DEF ConnTypes
<1> QED BY <1>1, <1>3 DEF Numbered, Ordered, WrittenInside, StreamConserved, RepliesKept, RoundFits

\* the worker receives a piece of the stream,
LEMMA ReadStep ==
    ASSUME ConnInv, Read
    PROVE  ConnInv'
<1> USE DEF ConnInv
<1>1. /\ place = "read"
      /\ UNCHANGED <<sendBuff, written, back, clientBuff, client, got, sent, handled, accepted,
                     refused, blocked>>
  BY DEF Read, clientVars, histories
<1>2. CASE place' = "full" /\ UNCHANGED <<wire, recvBuff>>
  BY <1>1, <1>2 DEF ConnTypes, Numbered, Ordered, WrittenInside, StreamConserved, RepliesKept, RoundFits
<1>3. ASSUME NEW n \in 1 .. Len(wire), n <= RecvSize - Len(recvBuff), place' = "handle",
             recvBuff' = recvBuff \o SubSeq(wire, 1, n), wire' = Pop(wire, n)
      PROVE  ConnInv'
  <2>1. wire \in ByteSeqs(Kinds) /\ recvBuff \in ByteSeqs(Kinds)
    BY DEF ConnTypes
  <2>2. Len(wire) \in Nat /\ Len(recvBuff) \in Nat
    BY <2>1, LenProperties DEF ByteSeqs
  <2>3. n \in 0 .. Len(wire)
    BY <2>2
  <2>4. /\ recvBuff' \in ByteSeqs(Kinds) /\ wire' \in ByteSeqs(Kinds)
        /\ recvBuff' \o wire' = recvBuff \o wire
        /\ Len(recvBuff') = Len(recvBuff) + n
    <3>0. Movable(Kinds)
      BY BytesMoved
    <3>1. /\ recvBuff \o SubSeq(wire, 1, n) \in ByteSeqs(Kinds)
          /\ Len(recvBuff \o SubSeq(wire, 1, n)) = Len(recvBuff) + n
          /\ Pop(wire, n) \in ByteSeqs(Kinds)
          /\ (recvBuff \o SubSeq(wire, 1, n)) \o Pop(wire, n) = recvBuff \o wire
      BY <2>1, <2>3, <3>0, ZenonT(60) DEF Movable
    <3> QED BY <1>3, <3>1
  <2>5. Len(recvBuff') = Len(recvBuff) + n
    BY <2>4
  <2>6. ConnTypes'
    BY <1>1, <1>3, <2>4 DEF ConnTypes
  <2>7. StreamConserved'
    BY <1>1, <2>4 DEF StreamConserved
  <2>8. RoundFits'
    <3>1. Len(recvBuff') <= RecvSize
      BY <1>3, <2>2, <2>5, ConnectionConstants
    <3>2. ~blocked => Len(sendBuff') = 0
      BY <1>1, EmptySeq DEF RoundFits
    <3>3. 0 + Len(recvBuff') <= RecvSize
      BY <2>2, <2>5, <3>1
    <3> QED BY <1>1, <1>3, <3>1, <3>2, <3>3 DEF RoundFits
  <2> QED BY <1>1, <1>3, <2>6, <2>7, <2>8 DEF Numbered, Ordered, WrittenInside, RepliesKept
<1> QED BY <1>2, <1>3 DEF Read

\* Steps that only go on to another place.
LEMMA PlaceStep ==
    ASSUME ConnInv, NoRead \/ Fail \/ HandleEnd
    PROVE  ConnInv'
<1> USE DEF ConnInv
<1>1. /\ place' \in {"write", "closed"}
      /\ place' = "write" => place \in {"read", "handle"}
      /\ UNCHANGED <<wire, recvBuff, sendBuff, written, back, clientBuff, client, got, sent,
                     handled, accepted, refused, blocked>>
  BY DEF NoRead, Fail, HandleEnd, clientVars, histories
<1>2. ConnTypes' /\ Numbered' /\ WrittenInside'
  BY <1>1 DEF ConnTypes, Numbered, Ordered, WrittenInside
<1>3. StreamConserved' /\ RepliesKept' /\ RoundFits'
  BY <1>1 DEF StreamConserved, RepliesKept, RoundFits
<1> QED BY <1>2, <1>3

\* finds whether it can write,
LEMMA WriteStep ==
    ASSUME ConnInv, Write
    PROVE  ConnInv'
<1> USE DEF ConnInv
<1>1. /\ place = "write" /\ place' \in {"read", "sending"}
      /\ place' = "sending" => sendBuff # <<>> /\ blocked' = blocked
      /\ place' = "read" => blocked' = TRUE \/ (sendBuff = <<>> /\ blocked' = blocked)
      /\ UNCHANGED <<wire, recvBuff, sendBuff, written, back, clientBuff, client, got, sent,
                     handled, accepted, refused>>
  BY DEF Write, clientVars
<1>2. blocked' \in BOOLEAN /\ (blocked => blocked')
  <2>1. blocked' = blocked \/ blocked' = TRUE
    BY <1>1
  <2>2. blocked \in BOOLEAN
    BY DEF ConnTypes
  <2>3. CASE blocked' = TRUE
    BY <2>3
  <2>4. CASE blocked' = blocked
    <3>1. blocked' \in BOOLEAN
      BY <2>2, <2>4
    <3>2. blocked => blocked'
      BY ONLY <2>4, Zenon
    <3> QED BY <3>1, <3>2
  <2> QED BY <2>1, <2>3, <2>4
<1>3. ConnTypes' /\ Numbered'
  BY <1>1, <1>2 DEF ConnTypes, Numbered, Ordered
<1>4. WrittenInside'
  <2>1. sendBuff # <<>> => 0 < Len(sendBuff)
    BY EmptySeq, LenProperties DEF ConnTypes, ByteSeqs
  <2> QED BY <1>1, <2>1 DEF WrittenInside
<1>5. StreamConserved' /\ RepliesKept'
  BY <1>1 DEF StreamConserved, RepliesKept
<1>6. RoundFits'
  BY <1>1, <1>2 DEF RoundFits
<1> QED BY <1>3, <1>4, <1>5, <1>6

\* passes a part of _sendBuff to the socket,
LEMMA SendingStep ==
    ASSUME ConnInv, Sending
    PROVE  ConnInv'
<1> USE DEF ConnInv
<1>1. PICK n \in 1 .. Len(sendBuff) - written :
          /\ back' = back \o SubSeq(sendBuff, written + 1, written + n)
          /\ IF written + n = Len(sendBuff)
             THEN sendBuff' = <<>> /\ written' = 0 /\ place' = "read"
             ELSE written' = written + n /\ UNCHANGED <<sendBuff, place>>
  BY DEF Sending
<1>2. /\ place = "sending"
      /\ UNCHANGED <<wire, recvBuff, clientBuff, client, got, sent, handled, accepted, refused,
                     blocked>>
  BY DEF Sending, clientVars, histories
<1>3. /\ sendBuff \in ByteSeqs(Replies) /\ Len(sendBuff) \in Nat
      /\ written \in 0 .. Len(sendBuff) /\ written \in Nat
      /\ back \in ByteSeqs(Replies) /\ clientBuff \in ByteSeqs(Replies)
  BY LenProperties DEF ConnTypes, ByteSeqs
<1>4. PICK S : ByteSeqs(Replies) = Seq(S)
  BY DEF ByteSeqs
<1>5. PICK p \in ByteSeqs(Replies) : p = Pop(sendBuff, written)
  BY OnTheWayTyped
<1>6. Len(p) = Len(sendBuff) - written /\ n \in 0 .. Len(p)
      /\ \A i \in 1 .. Len(p) : p[i] = sendBuff[written + i]
  <2>1. sendBuff \in Seq(S)
    BY <1>3, <1>4
  <2>2. /\ Len(Pop(sendBuff, written)) = Len(sendBuff) - written
        /\ \A i \in 1 .. Len(sendBuff) - written : Pop(sendBuff, written)[i] = sendBuff[written + i]
    BY <1>3, <2>1, PopIs
  <2> QED BY <1>3, <1>5, <2>2
<1>7. SubSeq(sendBuff, written + 1, written + n) = SubSeq(p, 1, n)
  <2>1. PICK a : a = SubSeq(sendBuff, written + 1, written + n)
    OBVIOUS
  <2>2. PICK b : b = SubSeq(p, 1, n)
    OBVIOUS
  <2>3. \A i \in written + 1 .. written + n : sendBuff[i] \in S
    <3>1. \A i \in 1 .. Len(sendBuff) : sendBuff[i] \in S
      BY <1>3, <1>4, ElementOfSeq
    <3>2. \A i \in written + 1 .. written + n : i \in 1 .. Len(sendBuff)
      BY <1>3
    <3> QED BY <3>1, <3>2
  <2>4. a \in Seq(S) /\ Len(a) = n /\ \A i \in 1 .. n : a[i] = sendBuff[written + i]
    <3>1. /\ a \in Seq(S)
          /\ Len(a) = IF written + 1 <= written + n THEN written + n - (written + 1) + 1 ELSE 0
          /\ \A i \in 1 .. written + n - (written + 1) + 1 : a[i] = sendBuff[written + 1 + i - 1]
      BY <1>3, <2>1, <2>3, SubSeqProperties
    <3>2. written + n - (written + 1) + 1 = n /\ written + 1 <= written + n
      BY <1>3
    <3>3. \A i \in 1 .. n : written + 1 + i - 1 = written + i
      BY <1>3
    <3> QED BY <3>1, <3>2, <3>3
  <2>5. b \in Seq(S) /\ Len(b) = n /\ \A i \in 1 .. n : b[i] = p[i]
    <3>1. \A i \in 1 .. n : p[i] \in S
      <4>1. \A i \in 1 .. Len(p) : p[i] \in S
        BY <1>4, ElementOfSeq
      <4> QED BY <1>3, <1>6, <4>1
    <3>2. /\ b \in Seq(S) /\ Len(b) = IF 1 <= n THEN n - 1 + 1 ELSE 0
          /\ \A i \in 1 .. n - 1 + 1 : b[i] = p[1 + i - 1]
      BY <2>2, <3>1, SubSeqProperties
    <3>3. n - 1 + 1 = n /\ \A i \in 1 .. n : 1 + i - 1 = i
      OBVIOUS
    <3> QED BY <3>2, <3>3
  <2>6. \A i \in 1 .. n : a[i] = b[i]
    <3>1. \A k \in Nat : n \in 0 .. k => 1 .. n \subseteq 1 .. k
      OBVIOUS
    <3>2. 1 .. n \subseteq 1 .. Len(p)
      BY <1>3, <1>6, <3>1
    <3>3. \A i \in 1 .. n : p[i] = sendBuff[written + i]
      BY <1>6, <3>2
    <3> QED BY <2>4, <2>5, <3>3
  <2>7. a = b
    BY <2>4, <2>5, <2>6, SeqEqual
  <2> QED BY <2>1, <2>2, <2>7
<1>8. Pop(sendBuff', written') = Pop(p, n)
  <2>1. sendBuff \in Seq(S) /\ n \in 0 .. Len(sendBuff) - written
    BY <1>3, <1>4
  <2>2. Pop(p, n) = Pop(sendBuff, written + n)
    BY <1>3, <1>5, <2>1, PopPop
  <2>3. CASE written + n = Len(sendBuff)
    <3>1. sendBuff' = <<>> /\ written' = 0
      BY <1>1, <2>3
    <3>2. Pop(sendBuff', written') = <<>>
      <4>1. 0 < 0 + 1 /\ 0 + 1 \in Int /\ 0 \in Int /\ Len(<<>>) = 0
        BY EmptySeq
      <4>2. SubSeq(<<>>, 0 + 1, 0) = <<>>
        BY <4>1, SubSeqEmpty
      <4> QED BY <3>1, <4>1, <4>2 DEF Pop
    <3>3. Pop(sendBuff, written + n) = <<>>
      <4>1. Len(sendBuff) < Len(sendBuff) + 1 /\ Len(sendBuff) + 1 \in Int /\ Len(sendBuff) \in Int
        BY <1>3
      <4>2. SubSeq(sendBuff, Len(sendBuff) + 1, Len(sendBuff)) = <<>>
        BY <4>1, SubSeqEmpty
      <4> QED BY <2>3, <4>2 DEF Pop
    <3> QED BY <2>2, <3>2, <3>3
  <2>4. CASE written + n # Len(sendBuff)
    BY <1>1, <2>2, <2>4
  <2> QED BY <2>3, <2>4
<1>9. /\ back' \in ByteSeqs(Replies)
      /\ back' \o Pop(sendBuff', written') = back \o p
  <2>0. Movable(Replies)
    BY BytesMoved
  <2>1. n \in 0 .. Len(p) /\ back \in ByteSeqs(Replies) /\ p \in ByteSeqs(Replies)
    BY <1>3, <1>6
  <2>2. /\ back \o SubSeq(p, 1, n) \in ByteSeqs(Replies)
        /\ (back \o SubSeq(p, 1, n)) \o Pop(p, n) = back \o p
    BY <2>0, <2>1, ZenonT(60) DEF Movable
  <2> QED BY <1>1, <1>7, <1>8, <2>2
<1>10. /\ sendBuff' \in ByteSeqs(Replies) /\ written' \in 0 .. Len(sendBuff')
       /\ place' \in {"read", "sending"}
       /\ place' = "read" => sendBuff' = <<>> /\ written' = 0
       /\ place' = "sending" => written' < Len(sendBuff')
  <2>1. CASE written + n = Len(sendBuff)
    <3>1. <<>> \in ByteSeqs(Replies) /\ Len(<<>>) = 0
      BY EmptySeq DEF ByteSeqs
    <3> QED BY <1>1, <2>1, <3>1
  <2>2. CASE written + n # Len(sendBuff)
    BY <1>1, <1>2, <1>3, <2>2
  <2> QED BY <2>1, <2>2
<1>11. ConnTypes'
  BY <1>2, <1>9, <1>10 DEF ConnTypes
<1>12. RepliesKept'
  <2>1. PICK v \in ByteSeqs(Replies) : v = Pop(sendBuff', written')
    <3>1. sendBuff' \in Seq(S) /\ written' \in 0 .. Len(sendBuff')
      BY <1>4, <1>10
    <3>2. Pop(sendBuff', written') \in Seq(S)
      BY <3>1, PopIs
    <3> QED BY <1>4, <3>2
  <2>2. PICK c \in ByteSeqs(Replies) : c = back'
    BY <1>9
  <2>0. Associative(Replies)
    BY BytesAssoc
  <2>3. /\ clientBuff \in ByteSeqs(Replies)
        /\ c \in ByteSeqs(Replies) /\ v \in ByteSeqs(Replies)
    BY <1>3
  <2>4. (clientBuff \o c) \o v = clientBuff \o (c \o v)
    BY ONLY <2>0, <2>3, ZenonT(60) DEF Associative
  <2>5. (clientBuff \o back) \o p = clientBuff \o (back \o p)
    <3>1. /\ clientBuff \in ByteSeqs(Replies) /\ back \in ByteSeqs(Replies)
          /\ p \in ByteSeqs(Replies)
      BY <1>3
    <3> QED BY ONLY <2>0, <3>1, ZenonT(60) DEF Associative
  <2>6. (clientBuff' \o back') \o Pop(sendBuff', written')
            = (clientBuff \o back) \o Pop(sendBuff, written)
    BY <1>2, <1>5, <1>9, <2>1, <2>2, <2>4, <2>5
  <2> QED BY <1>2, <2>6 DEF RepliesKept
<1>13. RoundFits'
  BY <1>2, <1>10 DEF RoundFits
<1>14. WrittenInside'
  BY <1>10 DEF WrittenInside
<1> QED BY <1>2, <1>11, <1>12, <1>13, <1>14 DEF Numbered, Ordered, StreamConserved

\* A reply answers one of the messages handled.
LEMMA AcceptedEarlier ==
    ASSUME ConnInv
    PROVE  \A i \in 1 .. Len(accepted) :
               accepted[i].id \in Nat /\ accepted[i].id <= Len(handled)
<1>1. accepted \in Seq(Messages(Replies))
  BY DEF ConnInv, ConnTypes
<1>2. \A i \in 1 .. Len(accepted) : accepted[i] \in Messages(Replies)
  BY <1>1, ElementOfSeq
<1>3. \A m \in Messages(Replies) : m.id \in Nat
  BY DEF Messages
<1>4. \A i \in 1 .. Len(accepted) : accepted[i].id <= Len(handled)
  BY DEF ConnInv, Numbered
<1> QED BY <1>2, <1>3, <1>4

\* and takes a message from _recvBuff, answers it and puts the answer in _sendBuff.
LEMMA HandleStep ==
    ASSUME ConnInv, Handle
    PROVE  ConnInv'
<1> USE DEF ConnInv
<1>1. PICK m : m = FrontMsg(recvBuff)
  OBVIOUS
<1>2. /\ place = "handle" /\ HasMsg(recvBuff) /\ Answer(m)
      /\ handled' = Append(handled, m) /\ recvBuff' = PopFrontMsg(recvBuff)
      /\ UNCHANGED <<wire, written, back, place, clientBuff, client, got, sent, blocked>>
  BY <1>1 DEF Handle, clientVars
<1>3. /\ recvBuff \in ByteSeqs(Kinds) /\ wire \in ByteSeqs(Kinds)
      /\ sent \in Seq(Messages(Kinds)) /\ handled \in Seq(Messages(Kinds))
      /\ IsPrefix(handled, sent) /\ IsStream(recvBuff \o wire, Pop(sent, Len(handled)))
  BY DEF ConnTypes, StreamConserved
<1>4. Ordered(sent) /\ Len(sent) \in Nat /\ Len(handled) \in Nat
  BY <1>3, LenProperties DEF Numbered, Ordered
<1>5. /\ m \in Messages(Kinds)
      /\ Len(handled) + 1 \in 1 .. Len(sent) /\ m = sent[Len(handled) + 1]
      /\ IsPrefix(handled', sent) /\ Len(handled') = Len(handled) + 1
      /\ handled' \in Seq(Messages(Kinds)) /\ recvBuff' \in ByteSeqs(Kinds)
      /\ Len(recvBuff') = Len(recvBuff) - Length[m.kind] /\ Len(recvBuff) \in Nat
      /\ IsStream(recvBuff' \o wire, Pop(sent, Len(handled) + 1))
  BY <1>1, <1>2, <1>3, <1>4, ConnLengths, TakeFront
<1>6. m.id = Len(handled) + 1 /\ m.kind \in Kinds
  BY <1>5 DEF Numbered, Messages
<1>7. PICK L \in Nat \ {0} : L = Length[m.kind]
  BY <1>6, ConnLengths DEF HaveLengths
<1>8. Len(recvBuff') \in Nat /\ Len(recvBuff') = Len(recvBuff) - L /\ L <= Len(recvBuff)
  BY <1>5, <1>7, LenProperties DEF ByteSeqs
<1>9. StreamConserved'
  BY <1>2, <1>5 DEF StreamConserved
<1>10. WrittenInside' /\ written = 0
  BY <1>2 DEF WrittenInside, Answer
<1>11. PICK r : r = [kind |-> Reply[m.kind], id |-> m.id]
  OBVIOUS
<1>12. r.kind = Reply[m.kind] /\ r.id = Len(handled) + 1
  BY <1>6, <1>11
<1>13. \/ UNCHANGED <<sendBuff, accepted, refused>>
       \/ /\ r.kind # NoReply /\ Fits(sendBuff, r, SendSize) /\ sendBuff' = Push(sendBuff, r)
          /\ accepted' = Append(accepted, r) /\ UNCHANGED refused
       \/ /\ r.kind # NoReply /\ ~Fits(sendBuff, r, SendSize) /\ refused' = refused + 1
          /\ UNCHANGED <<sendBuff, accepted>>
  BY <1>2, <1>11 DEF Answer
<1>14. RecvSize \in Nat /\ SendSize \in Nat /\ RecvSize <= SendSize
  BY ConnectionConstants
<1>15. Len(sendBuff) \in Nat
  BY LenProperties DEF ConnTypes, ByteSeqs
<1>16. r.kind # NoReply =>
          r \in Messages(Replies) /\ \E n \in 1 .. L : n = Length[r.kind]
  <2> SUFFICES ASSUME r.kind # NoReply
               PROVE  r \in Messages(Replies) /\ \E n \in 1 .. L : n = Length[r.kind]
    OBVIOUS
  <2>1. Reply[m.kind] \in Replies
    BY <1>6, <1>12 DEF Replies
  <2>2. r \in Messages(Replies)
    <3>1. m.id \in Nat
      BY <1>4, <1>6
    <3> QED BY <1>11, <2>1, <3>1 DEF Messages
  <2>3. PICK h \in Nat \ {0} : h = HeaderSize
    BY MessageConstants
  <2>4. Length[r.kind] \in h .. L
    BY <1>6, <1>7, <1>12, <2>3, ConnectionConstants
  <2>5. PICK n \in h .. L : n = Length[r.kind]
    BY <2>4
  <2> QED BY <2>2, <2>5
<1>17. CASE UNCHANGED <<sendBuff, accepted, refused>>
  <2>1. ConnTypes'
    BY <1>2, <1>5, <1>17 DEF ConnTypes
  <2>2. Numbered'
    <3>1. \A i \in 1 .. Len(accepted) : accepted[i].id \in Nat /\ accepted[i].id <= Len(handled)
      BY AcceptedEarlier
    <3>2. \A i \in 1 .. Len(accepted) : accepted[i].id <= Len(handled')
      BY <1>4, <1>5, <3>1
    <3> QED BY <1>2, <1>17, <3>2 DEF Numbered, Ordered
  <2>3. RepliesKept'
    BY <1>2, <1>17 DEF RepliesKept
  <2>4. RoundFits'
    BY <1>2, <1>5, <1>8, <1>14, <1>15, <1>17 DEF RoundFits
  <2> QED BY <1>9, <1>10, <2>1, <2>2, <2>3, <2>4
<1>18. CASE /\ r.kind # NoReply /\ ~Fits(sendBuff, r, SendSize) /\ refused' = refused + 1
            /\ UNCHANGED <<sendBuff, accepted>>
  <2>1. ConnTypes'
    BY <1>2, <1>5, <1>18 DEF ConnTypes
  <2>2. Numbered'
    <3>1. \A i \in 1 .. Len(accepted) : accepted[i].id \in Nat /\ accepted[i].id <= Len(handled)
      BY AcceptedEarlier
    <3>2. \A i \in 1 .. Len(accepted) : accepted[i].id <= Len(handled')
      BY <1>4, <1>5, <3>1
    <3> QED BY <1>2, <1>18, <3>2 DEF Numbered, Ordered
  <2>3. RepliesKept'
    BY <1>2, <1>18 DEF RepliesKept
  <2>4. blocked
    <3> SUFFICES ASSUME ~blocked PROVE FALSE
      OBVIOUS
    <3>1. PICK n \in 1 .. L : n = Length[r.kind]
      BY <1>16, <1>18
    <3>2. Len(sendBuff) + Len(recvBuff) <= RecvSize
      BY <1>2 DEF RoundFits
    <3>3. ~(Len(sendBuff) + n <= SendSize)
      BY <1>18, <3>1 DEF Fits
    <3> QED BY <1>5, <1>8, <1>14, <1>15, <3>2, <3>3
  <2>5. RoundFits'
    BY <1>2, <1>5, <1>8, <1>14, <2>4 DEF RoundFits
  <2> QED BY <1>9, <1>10, <2>1, <2>2, <2>3, <2>5
<1>19. CASE /\ r.kind # NoReply /\ Fits(sendBuff, r, SendSize) /\ sendBuff' = Push(sendBuff, r)
            /\ accepted' = Append(accepted, r) /\ UNCHANGED refused
  <2>1. PICK n \in 1 .. L : n = Length[r.kind]
    BY <1>16, <1>19
  <2>2. r \in Messages(Replies)
    BY <1>16, <1>19
  <2>3. Bytes(r) \in ByteSeqs(Replies) /\ Len(Bytes(r)) = n
    BY <2>1, <2>2, ConnLengths, BytesOf
  <2>4. sendBuff \in ByteSeqs(Replies) /\ sendBuff' = sendBuff \o Bytes(r)
    BY <1>19 DEF Push, ConnTypes
  <2>5. PICK S : ByteSeqs(Replies) = Seq(S)
    BY DEF ByteSeqs
  <2>6. sendBuff' \in ByteSeqs(Replies) /\ Len(sendBuff') = Len(sendBuff) + n
    <3>1. PICK b \in ByteSeqs(Replies) : b = Bytes(r)
      BY <2>3
    <3>2. b \in Seq(S) /\ sendBuff \in Seq(S)
      BY <2>4, <2>5
    <3>3. sendBuff \o b \in Seq(S) /\ Len(sendBuff \o b) = Len(sendBuff) + Len(b)
      BY <3>2, ConcatProperties
    <3> QED BY <2>3, <2>4, <2>5, <3>1, <3>3
  <2>7. accepted \in Seq(Messages(Replies)) /\ got \in Seq(Messages(Replies)) /\ Len(accepted) \in Nat
    BY LenProperties DEF ConnTypes
  <2>8. /\ accepted' \in Seq(Messages(Replies)) /\ Len(accepted') = Len(accepted) + 1
        /\ accepted'[Len(accepted) + 1] = r
        /\ \A i \in 1 .. Len(accepted) : accepted'[i] = accepted[i]
    BY <1>19, <2>2, <2>7, AppendProperties
  <2>9. ConnTypes'
    <3>1. written' \in 0 .. Len(sendBuff')
      BY <1>2, <1>10, <1>15, <2>6
    <3> QED BY <1>2, <1>5, <1>19, <2>6, <2>8, <3>1 DEF ConnTypes
  <2>10. \A i \in 1 .. Len(accepted) : accepted[i].id \in Nat /\ accepted[i].id < r.id
    <3>1. \A i \in 1 .. Len(accepted) : accepted[i].id \in Nat /\ accepted[i].id <= Len(handled)
      BY AcceptedEarlier
    <3> QED BY <1>4, <1>12, <3>1
  <2>11. Numbered'
    <3>1. \A i \in 1 .. Len(accepted') : i = Len(accepted) + 1 \/ i \in 1 .. Len(accepted)
      BY <2>7, <2>8
    <3>2. \A i, j \in 1 .. Len(accepted') : i < j => i \in 1 .. Len(accepted)
      BY <2>7, <2>8
    <3>3. Ordered(accepted')
      BY <2>8, <2>10, <3>1, <3>2 DEF Ordered, Numbered
    <3>4. \A i \in 1 .. Len(accepted') : accepted'[i].id <= Len(handled')
      <4>1. r.id = Len(handled') /\ r.id \in Nat
        BY <1>4, <1>5, <1>12
      <4> QED BY <2>8, <2>10, <3>1, <4>1
    <3> QED BY <1>2, <3>3, <3>4 DEF Numbered
  <2>12. RepliesKept'
    <3> SUFFICES ASSUME client # "closed"
                 PROVE  /\ IsPrefix(got, accepted')
                        /\ IsStream(clientBuff \o back \o Pop(sendBuff', 0), Pop(accepted', Len(got)))
      BY <1>2, <1>10 DEF RepliesKept
    <3>1. /\ IsPrefix(got, accepted)
          /\ IsStream((clientBuff \o back) \o Pop(sendBuff, 0), Pop(accepted, Len(got)))
      BY <1>10 DEF RepliesKept
    <3>2. Pop(sendBuff, 0) = sendBuff /\ Pop(sendBuff', 0) = sendBuff'
      <4>1. \A s \in Seq(S) : Pop(s, 0) = s
        BY SubSeqFull DEF Pop
      <4> QED BY <2>4, <2>5, <2>6, <4>1
    <3>3. /\ IsPrefix(got, accepted')
          /\ Pop(accepted', Len(got)) = Append(Pop(accepted, Len(got)), r)
      BY <1>19, <2>2, <2>7, <3>1, PutBehind
    <3>4. PICK c \in ByteSeqs(Replies) : c = clientBuff \o back
      BY OnTheWayTyped
    <3>5. PICK d \in ByteSeqs(Replies) : d = c \o sendBuff
      BY <2>4, BytesConcat
    <3>6. Len(got) \in 0 .. Len(accepted)
      BY <2>7, <3>1, PrefixIs, LenProperties
    <3>7. PICK q : q = Pop(accepted, Len(got))
      OBVIOUS
    <3>8. /\ q \in Seq(Messages(Replies)) /\ Len(q) = Len(accepted) - Len(got)
          /\ \A i \in 1 .. Len(accepted) - Len(got) : q[i] = accepted[Len(got) + i]
      BY <2>7, <3>6, <3>7, PopIs
    <3>9. \A i \in 1 .. Len(q) : q[i].id < r.id
      <4>1. \A i \in 1 .. Len(q) : Len(got) + i \in 1 .. Len(accepted) /\ q[i] = accepted[Len(got) + i]
        BY <2>7, <3>6, <3>8
      <4> QED BY <2>10, <4>1
    <3>10. IsStream(d, q)
      BY <3>1, <3>2, <3>4, <3>5, <3>7
    <3>11. IsStream(d \o Bytes(r), Append(q, r))
      BY <2>2, <3>8, <3>9, <3>10, ConnLengths, StreamPushed
    <3>12. d \o Bytes(r) = c \o sendBuff'
      <4>1. PICK b \in ByteSeqs(Replies) : b = Bytes(r)
        BY <2>3
      <4>0. Associative(Replies)
        BY BytesAssoc
      <4>2. /\ sendBuff \in ByteSeqs(Replies) /\ b \in ByteSeqs(Replies)
            /\ c \in ByteSeqs(Replies)
        BY <2>4
      <4>3. (c \o sendBuff) \o b = c \o (sendBuff \o b)
        BY ONLY <4>0, <4>2, ZenonT(60) DEF Associative
      <4> QED BY <2>4, <3>5, <4>1, <4>3
    <3> QED BY <3>2, <3>3, <3>4, <3>7, <3>11, <3>12
  <2>13. RoundFits'
    <3>1. ~blocked => Len(sendBuff) + Len(recvBuff) <= RecvSize
      BY <1>2 DEF RoundFits
    <3>2. Len(recvBuff) <= RecvSize
      BY DEF RoundFits
    <3>3. Len(recvBuff') <= RecvSize
      BY <1>5, <1>8, <1>14, <3>2
    <3>4. ~blocked => Len(sendBuff') + Len(recvBuff') <= RecvSize
      BY <1>5, <1>8, <1>14, <1>15, <2>6, <3>1
    <3>5. place' = "handle" /\ blocked' = blocked /\ refused' = refused
      BY <1>2, <1>19
    <3> QED BY <3>3, <3>4, <3>5 DEF RoundFits
  <2> QED BY <1>9, <1>10, <2>9, <2>11, <2>12, <2>13
<1> QED BY <1>13, <1>17, <1>18, <1>19

\* A connection begins with empty buffers.
LEMMA ConnInitially == Init => ConnInv
<1> SUFFICES ASSUME Init PROVE ConnInv
  OBVIOUS
<1> USE DEF Init
<1>1. /\ <<>> \in ByteSeqs(Kinds) /\ <<>> \in ByteSeqs(Replies) /\ <<>> \in Seq(Messages(Kinds))
      /\ <<>> \in Seq(Messages(Replies)) /\ Len(<<>>) = 0
  BY EmptySeq DEF ByteSeqs
<1>2. ConnTypes
  <2>1. /\ wire \in ByteSeqs(Kinds) /\ recvBuff \in ByteSeqs(Kinds)
        /\ sendBuff \in ByteSeqs(Replies) /\ back \in ByteSeqs(Replies)
        /\ clientBuff \in ByteSeqs(Replies)
        /\ sent \in Seq(Messages(Kinds)) /\ handled \in Seq(Messages(Kinds))
        /\ accepted \in Seq(Messages(Replies)) /\ got \in Seq(Messages(Replies))
    BY <1>1
  <2>2. written \in 0 .. Len(sendBuff)
    BY <1>1
  <2>3. refused \in Nat /\ blocked \in BOOLEAN /\ place = "read" /\ client = "run"
    OBVIOUS
  <2> QED BY <2>1, <2>2, <2>3 DEF ConnTypes
<1>3. Numbered /\ WrittenInside
  BY <1>1 DEF Numbered, Ordered, WrittenInside
<1>4. Pop(<<>>, 0) = <<>> /\ IsPrefix(<<>>, <<>>)
  <2>1. 0 < 0 + 1 /\ 0 + 1 \in Int /\ 0 \in Int
    OBVIOUS
  <2>2. SubSeq(<<>>, 0 + 1, 0) = <<>>
    BY <2>1, SubSeqEmpty
  <2> QED BY <1>1, <2>2 DEF Pop, IsPrefix
<1>5. <<>> \o <<>> = <<>>
  BY <1>1, ConcatEmptySeq
<1>6. StreamConserved /\ RepliesKept
  BY <1>1, <1>4, <1>5, NoStream DEF StreamConserved, RepliesKept
<1>7. RoundFits
  BY <1>1, ConnectionConstants DEF RoundFits
<1> QED BY <1>2, <1>3, <1>6, <1>7 DEF ConnInv

\* Every step keeps the invariant.
LEMMA ConnStepKeeps == ConnInv /\ [Next]_vars => ConnInv'
<1> SUFFICES ASSUME ConnInv, [Next]_vars PROVE ConnInv'
  OBVIOUS
<1>1. CASE UNCHANGED vars
  <2>1. UNCHANGED <<wire, recvBuff, sendBuff, written, back, place, clientBuff, client, got, sent,
                    handled, accepted, refused, blocked>>
    BY <1>1 DEF vars, clientVars, histories
  <2>2. ConnTypes' /\ Numbered' /\ WrittenInside'
    BY <2>1 DEF ConnInv, ConnTypes, Numbered, Ordered, WrittenInside
  <2>3. StreamConserved' /\ RepliesKept' /\ RoundFits'
    BY <2>1 DEF ConnInv, StreamConserved, RepliesKept, RoundFits
  <2> QED BY <2>2, <2>3 DEF ConnInv
<1>2. ASSUME NEW k \in Kinds, ClientSend(k) PROVE ConnInv'
  BY <1>2, ClientSendStep
<1>3. CASE Client \/ ClientClose
  BY <1>3, ClientOnRunStep, ClientHandleStep, ClientCloseStep DEF Client
<1>4. CASE Worker
  BY <1>4, ReadStep, HandleStep, PlaceStep, WriteStep, SendingStep DEF Worker
<1>5. CASE NoRead \/ Fail
  BY <1>5, PlaceStep
<1> QED BY <1>1, <1>2, <1>3, <1>4, <1>5 DEF Next

------------------------------------------------------------------------------
\* The inductive invariant of the connection: the histories and the bytes of each
\* direction belong together at every step of the two programs.
THEOREM ConnInvariant == Spec => []ConnInv
BY ConnInitially, ConnStepKeeps, PTL DEF Spec

\* CELLServer.hpp:235-254, CELLBuffer.hpp:67-126: for messages of any kinds and lengths,
\* any size of the buffers and any pieces the stream comes in, the messages handled are
\* those sent, in their order, and nothing of the others is lost or split.
THEOREM ConnStreamConserved == Spec => []StreamConserved
<1>1. ConnInv => StreamConserved
  BY DEF ConnInv
<1> QED BY <1>1, ConnInvariant, PTL

\* CELLBuffer.hpp:29-49,79-126, EasyTcpClient.hpp:144-160: the client gets the replies
\* that were accepted, whole and in their order, while the connection lasts.
THEOREM ConnRepliesWhole == Spec => []RepliesWhole
<1>1. ConnInv => RepliesWhole
  BY DEF ConnInv, RepliesKept, RepliesWhole, Closed
<1> QED BY <1>1, ConnInvariant, PTL

\* server.cpp:35-39: with a send buffer no smaller than the receive buffer and no reply
\* longer than its request, a reply is refused only after a round that could not write.
THEOREM ConnRefusedOnlyBlocked == Spec => []RefusedOnlyBlocked
<1>1. ConnInv => RefusedOnlyBlocked
  BY DEF ConnInv, ConnTypes, RoundFits, RefusedOnlyBlocked
<1> QED BY <1>1, ConnInvariant, PTL

------------------------------------------------------------------------------
(***************************************************************************)
(* The heartbeat.                                                          *)
(***************************************************************************)
\* The counter of a client in the map is the time from its last sign of life to
\* the last CheckTime, and at most one round more.
CounterBounds(c) ==
    /\ dtHeart[c] < DeadTime
    /\ since[c] <= now
    /\ oldTime - since[c] <= dtHeart[c]
    /\ dtHeart[c] <= 0 \/ dtHeart[c] <= oldTime - since[c] + MaxRound

HeartInv ==
    /\ TypeOK
    /\ \A c \in Clients : state[c] \in {"none", "buffered"} => dtHeart[c] = 0
    /\ \A c \in Clients : state[c] = "joined" => CounterBounds(c)

\* No client has joined in the initial state.
LEMMA InitHeart == HeartInit => HeartInv
  BY HeartConstants DEF HeartInit, HeartInv, TypeOK

\* CELLServer.hpp:130-157: every step keeps each counter within a round of the time
\* since its client was heard of.
LEMMA NextHeart == HeartInv /\ [HeartNext]_heartVars => HeartInv'
<1> SUFFICES ASSUME HeartInv, [HeartNext]_heartVars PROVE HeartInv'
  OBVIOUS
<1> USE HeartConstants DEF HeartInv, TypeOK
<1>1. CASE Tick
  BY <1>1 DEF Tick, CounterBounds
<1>2. CASE Join
  <2>1. TypeOK'
    BY <1>2 DEF Join
  <2>2. ASSUME NEW c \in Clients, state'[c] \in {"none", "buffered"}
        PROVE  dtHeart'[c] = 0
    BY <1>2, <2>2 DEF Join
  <2>3. ASSUME NEW c \in Clients, state'[c] = "joined"
        PROVE  CounterBounds(c)'
    <3>1. CASE state[c] = "buffered"
      BY <1>2, <3>1 DEF Join, CounterBounds
    <3>2. CASE state[c] = "joined"
      BY <1>2, <3>2 DEF Join, CounterBounds
    <3>3. QED
      BY <1>2, <2>3, <3>1, <3>2 DEF Join
  <2>4. QED
    BY <2>1, <2>2, <2>3
<1>3. CASE CheckTime
  <2>1. TypeOK'
    BY <1>3 DEF CheckTime, Joined
  <2>2. ASSUME NEW c \in Clients, state'[c] \in {"none", "buffered"}
        PROVE  dtHeart'[c] = 0
    BY <1>3, <2>2 DEF CheckTime, Joined
  <2>3. ASSUME NEW c \in Clients, state'[c] = "joined"
        PROVE  CounterBounds(c)'
    <3>1. c \in Joined /\ ~Overdue(c) /\ CounterBounds(c)
      BY <1>3, <2>3 DEF CheckTime, Joined
    <3>2. /\ dtHeart'[c] = dtHeart[c] + (now - oldTime)
          /\ since'[c] = since[c] /\ oldTime' = now /\ now' = now
      BY <1>3, <3>1 DEF CheckTime
    <3>3. since[c] \in Nat /\ dtHeart[c] \in Nat
      OBVIOUS
    <3>4. QED
      BY <3>1, <3>2, <3>3 DEF Overdue, CounterBounds
  <2>4. QED
    BY <2>1, <2>2, <2>3
<1>4. ASSUME NEW c \in Clients, addClient(c) PROVE HeartInv'
  BY <1>4 DEF addClient, CounterBounds
<1>5. ASSUME NEW c \in Clients, resetDTHeart(c) PROVE HeartInv'
  BY <1>5 DEF resetDTHeart, CounterBounds
<1>6. ASSUME NEW c \in Clients, Leave(c) PROVE HeartInv'
  BY <1>6 DEF Leave, CounterBounds
<1>7. CASE UNCHANGED heartVars
  BY <1>7 DEF heartVars, CounterBounds
<1>8. QED
  BY <1>1, <1>2, <1>3, <1>4, <1>5, <1>6, <1>7 DEF HeartNext

\* CELLServer.hpp:130-157, CELLClient.hpp:107-116: what a counter shows is the time
\* since the client was last heard of, up to one round.
THEOREM HeartInvariant == HeartSpec => []HeartInv
  BY InitHeart, NextHeart, PTL DEF HeartSpec

\* CELLServer.hpp:130-157: the clock, the counters and the states keep their types,
\* and a round its length.
THEOREM HeartType == HeartSpec => []TypeOK
  BY HeartInvariant, PTL DEF HeartInv

\* CELLServer.hpp:130-157: a silent client is gone in time.
THEOREM HeartDroppedInTime == HeartSpec => []DroppedInTime
<1>1. HeartInv => DroppedInTime
  <2> SUFFICES ASSUME HeartInv, NEW c \in Joined
               PROVE  now - since[c] < DeadTime + MaxRound
    BY DEF DroppedInTime
  <2>1. CounterBounds(c) /\ since[c] \in Nat /\ dtHeart[c] \in Nat /\ TypeOK
    BY DEF HeartInv, TypeOK, Joined
  <2>2. QED
    BY <2>1, HeartConstants DEF CounterBounds, TypeOK
<1>2. QED
  BY <1>1, HeartInvariant, PTL

\* CELLServer.hpp:137-150, CELLClient.hpp:107-116: no client is dropped that was
\* heard of recently enough.
THEOREM HeartNoEarlyDrop == HeartSpec => NoEarlyDrop
<1> DEFINE Early ==
        \A c \in Clients :
          state[c] = "joined" /\ state'[c] = "gone" /\ round' = "join"
             => now - since[c] + MaxRound >= DeadTime
<1>1. HeartInv /\ [HeartNext]_heartVars => [Early]_heartVars
  <2> SUFFICES ASSUME HeartInv, HeartNext, NEW c \in Clients,
                      state[c] = "joined", state'[c] = "gone", round' = "join"
               PROVE  now - since[c] + MaxRound >= DeadTime
    BY DEF heartVars
  <2>1. CheckTime
    BY DEF HeartNext, Tick, Join, addClient, resetDTHeart, Leave, HeartInv, TypeOK
  <2>2. Overdue(c) /\ CounterBounds(c) /\ TypeOK
    BY <2>1 DEF CheckTime, HeartInv
  <2>3. since[c] \in Nat /\ dtHeart[c] \in Nat
    BY <2>2 DEF TypeOK
  <2>4. QED
    BY <2>2, <2>3, HeartConstants DEF Overdue, CounterBounds, TypeOK
<1>2. QED
  BY <1>1, HeartInvariant, PTL DEF HeartSpec, NoEarlyDrop
================================================================================
