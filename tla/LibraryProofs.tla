--------------------------- MODULE LibraryProofs ---------------------------
(***************************************************************************)
(* What the parts of the library promise, for every input and any bounds.  *)
(***************************************************************************)
EXTENDS CommandLine, Containers, Inspection, LineResolver, LineCoverage, NaturalRecursion,
  SequenceTheorems, FiniteSetTheorems

-----------------------------------------------------------------------------
(* The reader.                                                                *)

Byte == STRING \cup {NUL}

\* A buffer that begins with a line gives that line back.
LEMMA FirstLine ==
  \A b, f, line, rest \in Seq(Byte) :
    (\A j \in 1..Len(line) : line[j] # NUL) /\ b \o f = Append(line, NUL) \o rest /\ Complete(b) =>
      /\ Slice(b, 1, FirstNul(b)) = line /\ SubSeq(b, FirstNul(b) + 1, Len(b)) \in Seq(Byte)
      /\ SubSeq(b, FirstNul(b) + 1, Len(b)) \o f = rest
<1> SUFFICES ASSUME NEW b \in Seq(Byte), NEW f \in Seq(Byte), NEW line \in Seq(Byte), NEW rest \in Seq(Byte),
                    \A j \in 1..Len(line) : line[j] # NUL, b \o f = Append(line, NUL) \o rest, Complete(b)
             PROVE  /\ Slice(b, 1, FirstNul(b)) = line /\ SubSeq(b, FirstNul(b) + 1, Len(b)) \in Seq(Byte)
                    /\ SubSeq(b, FirstNul(b) + 1, Len(b)) \o f = rest
  BY Zenon
<1> DEFINE m == Len(line)
           whole == Append(line, NUL) \o rest
<1>1. m \in Nat /\ Len(b) \in Nat /\ Len(f) \in Nat /\ Len(rest) \in Nat
  OBVIOUS
<1>2. /\ Len(whole) = m + 1 + Len(rest) /\ whole[m + 1] = NUL
      /\ \A i \in 1..m : whole[i] = line[i]
      /\ \A i \in 1..Len(rest) : whole[m + 1 + i] = rest[i]
  BY DEF NUL
<1>3. /\ Len(b) + Len(f) = Len(whole)
      /\ \A i \in 1..Len(b) : whole[i] = b[i]
      /\ \A i \in 1..Len(f) : whole[Len(b) + i] = f[i]
  <2>1. /\ Len(b \o f) = Len(b) + Len(f)
        /\ \A i \in 1..Len(b) : (b \o f)[i] = b[i]
        /\ \A i \in 1..Len(f) : (b \o f)[Len(b) + i] = f[i]
    <3> HIDE DEF whole
    <3>1. /\ Len(b \o f) = Len(b) + Len(f)
          /\ \A i \in 1..Len(b) + Len(f) : (b \o f)[i] = IF i <= Len(b) THEN b[i] ELSE f[i - Len(b)]
      BY ConcatProperties
    <3>2. \A i \in 1..Len(b) : i \in 1..Len(b) + Len(f) /\ i <= Len(b)
      BY <1>1
    <3>3. \A i \in 1..Len(f) : /\ Len(b) + i \in 1..Len(b) + Len(f) /\ ~(Len(b) + i <= Len(b))
                               /\ (Len(b) + i) - Len(b) = i
      BY <1>1
    <3>4. \A i \in 1..Len(b) : (b \o f)[i] = b[i]
      BY <3>1, <3>2, Zenon
    <3>5. \A i \in 1..Len(f) : (b \o f)[Len(b) + i] = f[i]
      BY <3>1, <3>3, Zenon
    <3> QED BY <3>1, <3>4, <3>5, Zenon
  <2>2. whole = b \o f
    OBVIOUS
  <2> HIDE DEF whole
  <2> QED BY <2>1, <2>2
<1> HIDE DEF whole
<1>4. Len(b) > 0 /\ b[Len(b)] = NUL
  BY DEF Complete
<1>5. m + 1 \in 1..Len(b)
  <2>1. CASE Len(b) <= m
    BY <1>1, <1>2, <1>3, <1>4, <2>1
  <2> QED BY <1>1, <2>1
<1>6. b[m + 1] = NUL /\ \A j \in 1..m : b[j] # NUL
  <2>1. m + 1 \in 1..Len(b) /\ \A j \in 1..m : j \in 1..Len(b)
    BY <1>1, <1>5
  <2>2. b[m + 1] = NUL
    BY <1>2, <1>3, <2>1, Zenon
  <2>3. \A j \in 1..m : b[j] = line[j]
    BY <1>2, <1>3, <2>1, Zenon
  <2> QED BY <2>2, <2>3, Zenon
<1>7. FirstNul(b) = m + 1
  <2>1. \A i \in 1..Len(b) :
          (b[i] = NUL /\ \A j \in 1..(i - 1) : b[j] # NUL) <=> i = m + 1
    BY <1>1, <1>5, <1>6
  <2>2. FirstNul(b) = CHOOSE i \in 1..Len(b) : b[i] = NUL /\ \A j \in 1..(i - 1) : b[j] # NUL
    BY DEF FirstNul
  <2>3. (m + 1) \in 1..Len(b) /\ b[m + 1] = NUL /\ \A j \in 1..((m + 1) - 1) : b[j] # NUL
    BY <1>5, <2>1, Zenon
  <2> QED BY <2>1, <2>2, <2>3, Zenon
<1>8. Slice(b, 1, m + 1) = line
  <2>1. Slice(b, 1, m + 1) = SubSeq(b, 1, m)
    BY <1>1 DEF Slice
  <2>2. /\ SubSeq(b, 1, m) \in Seq(Byte) /\ Len(SubSeq(b, 1, m)) = m
        /\ \A i \in 1..m : SubSeq(b, 1, m)[i] = b[i]
    BY <1>1, <1>5
  <2>3. \A i \in 1..m : b[i] = line[i]
    BY <1>1, <1>2, <1>3, <1>5
  <2> QED BY <2>1, <2>2, <2>3, SeqEqual
<1>9. SubSeq(b, (m + 1) + 1, Len(b)) \in Seq(Byte)
  BY <1>1, <1>5
<1>10. SubSeq(b, (m + 1) + 1, Len(b)) \o f = rest
  <2> DEFINE u == SubSeq(b, (m + 1) + 1, Len(b))
  <2>1. /\ Len(u) = Len(b) - (m + 1)
        /\ \A i \in 1..Len(u) : u[i] = b[m + 1 + i]
    BY <1>1, <1>5
  <2> HIDE DEF u
  <2>2. /\ u \o f \in Seq(Byte) /\ Len(u \o f) = Len(u) + Len(f)
        /\ \A i \in 1..Len(u) + Len(f) :
             (u \o f)[i] = IF i <= Len(u) THEN u[i] ELSE f[i - Len(u)]
    BY <1>9 DEF u
  <2>3. Len(u) + Len(f) = Len(rest)
    BY <1>1, <1>2, <1>3, <2>1
  <2>4. ASSUME NEW i \in 1..Len(rest)
        PROVE  (u \o f)[i] = rest[i]
    <3>1. CASE i <= Len(u)
      <4>1. (u \o f)[i] = u[i]
        BY <1>1, <2>2, <2>3, <3>1
      <4>2. u[i] = b[m + 1 + i] /\ m + 1 + i \in 1..Len(b)
        <5>1. i \in 1..Len(u) /\ Len(b) \in Nat /\ m \in Nat
          BY <1>1, <2>1, <2>3, <3>1
        <5>2. u[i] = b[m + 1 + i]
          BY ONLY <2>1, <5>1, Zenon
        <5> QED BY ONLY <2>1, <5>1, <5>2
      <4> QED BY <1>2, <1>3, <4>1, <4>2
    <3>2. CASE i > Len(u)
      <4>1. (u \o f)[i] = f[i - Len(u)]
        <5>1. i \in 1..Len(u) + Len(f) /\ ~(i <= Len(u))
          BY <1>1, <2>1, <2>3, <3>2
        <5> QED BY <2>2, <5>1, Zenon
      <4>2. i - Len(u) \in 1..Len(f) /\ Len(b) + (i - Len(u)) = m + 1 + i
        BY <1>1, <1>5, <2>1, <2>3, <3>2
      <4>3. m + 1 + i \in Nat /\ (m + 1) + i = m + 1 + i
        BY <1>1
      <4>4. f[i - Len(u)] = whole[Len(b) + (i - Len(u))] /\ whole[m + 1 + i] = rest[i]
        BY <1>2, <1>3, <4>2, <4>3
      <4> QED BY ONLY <4>1, <4>2, <4>4
    <3>3. i <= Len(u) \/ i > Len(u)
      BY <1>1, <2>1
    <3> QED BY <3>1, <3>2, <3>3, Zenon
  <2>5. u \o f = rest
    BY <2>2, <2>3, <2>4, SeqEqual
  <2> QED BY <2>5 DEF u
<1> QED BY <1>7, <1>8, <1>9, <1>10

\* The lines with their ends, how many are sent, and the text of the first n.
Ended == [i \in 1..Len(Lines) |-> Append(Lines[i], NUL)]
Sent == Len(Lines) - Len(unsent)
Text(n) == TextOf(Ended, n)

ReaderTypeOK ==
  /\ in_flight \in Seq(Byte) /\ buffer \in Seq(Byte)
  /\ unsent \in Seq(Seq(Byte)) /\ read \in Seq(Seq(Byte))
  /\ reader \in {"idle", "reading", "closed"}

SentInOrder ==
  /\ Len(unsent) <= Len(Lines) /\ \A i \in 1..Len(unsent) : unsent[i] = Lines[Sent + i]
ReadInOrder ==
  /\ Len(read) <= Sent /\ \A i \in 1..Len(read) : read[i] = Lines[i]

\* The buffer and what is in flight are the lines that are sent and not read.
NothingLost == reader # "closed" => Text(Len(read)) \o (buffer \o in_flight) = Text(Sent)

ReaderInv == ReaderTypeOK /\ SentInOrder /\ ReadInOrder /\ NothingLost

LEMMA EndOfLine == NUL \in Byte /\ \A line \in Seq(Byte) : Append(line, NUL) \in Seq(Byte)
<1>1. NUL \in Byte
  BY DEF Byte
<1> QED BY <1>1, AppendProperties

\* The lines with their ends.
LEMMA LinesEnded ==
  /\ Lines \in Seq(Seq(Byte)) /\ Len(Lines) \in Nat
  /\ Ended \in [1..Len(Lines) -> Seq(Byte)]
  /\ \A n \in 1..Len(Lines) : Ended[n] = Append(Lines[n], NUL)
<1>1. Lines \in Seq(Seq(Byte)) /\ Len(Lines) \in Nat
  <2>1. \A line \in Seq(STRING) : line \in Seq(Byte)
    BY DEF Byte
  <2>2. /\ Lines \in Seq(Seq(STRING)) /\ Len(Lines) \in Nat
        /\ \A n \in 1..Len(Lines) : Lines[n] \in Seq(STRING)
    BY ReaderAssumption
  <2> QED BY <2>1, <2>2
<1>2. \A n \in 1..Len(Lines) : Append(Lines[n], NUL) \in Seq(Byte)
  <2>1. \A n \in 1..Len(Lines) : Lines[n] \in Seq(Byte)
    BY <1>1
  <2> QED BY <2>1, EndOfLine, Zenon
<1> QED BY <1>1, <1>2 DEF Ended

LEMMA Texts ==
  /\ Text(0) = <<>>
  /\ \A n \in 0..Len(Lines) : Text(n) \in Seq(Byte)
  /\ \A n \in 1..Len(Lines) : Text(n) = Text(n - 1) \o Append(Lines[n], NUL)
BY LinesEnded, Flattened, Zenon DEF Text

LEMMA TextContinues ==
  \A r \in 0..Len(Lines) : \A k \in r..Len(Lines) : \E rest \in Seq(Byte) : Text(k) = Text(r) \o rest
<1>1. \A r \in 0..Len(Lines) : \A k \in r..Len(Lines) : Continues(Byte, Ended, r, k)
  BY LinesEnded, TextGoesOn, Zenon
<1> QED BY <1>1, Zenon DEF Continues, Text

LEMMA ReaderInits == ReaderInit => ReaderInv
<1> SUFFICES ASSUME ReaderInit
             PROVE  ReaderInv
  OBVIOUS
<1>1. Lines \in Seq(Seq(Byte)) /\ Len(Lines) \in Nat
  BY LinesEnded
<1>2. ReaderTypeOK
  BY <1>1 DEF ReaderInit, ReaderTypeOK
<1>3. Sent = 0
  BY <1>1 DEF ReaderInit, Sent
<1>4. SentInOrder /\ ReadInOrder
  BY <1>1, <1>3 DEF ReaderInit, SentInOrder, ReadInOrder
<1>5. NothingLost
  <2>1. Len(read) = 0 /\ buffer \o in_flight = <<>>
    BY DEF ReaderInit
  <2>2. <<>> \o <<>> = <<>>
    OBVIOUS
  <2> QED BY <1>3, <2>1, <2>2, Texts, Zenon DEF NothingLost
<1> QED BY <1>2, <1>4, <1>5 DEF ReaderInv

LEMMA Associates == \A x, y, z \in Seq(Byte) : (x \o y) \o z = x \o (y \o z)
BY ONLY ConcatAssociative

LEMMA SendLineOK == ReaderInv /\ SendLine => ReaderInv'
<1> SUFFICES ASSUME ReaderInv, SendLine
             PROVE  ReaderInv'
  OBVIOUS
<1>1. Lines \in Seq(Seq(Byte)) /\ Len(Lines) \in Nat /\ Len(unsent) \in Nat /\ Len(read) \in Nat
  BY LinesEnded DEF ReaderInv, ReaderTypeOK
<1>2. /\ unsent' = Tail(unsent) /\ UNCHANGED <<buffer, read, reader>>
      /\ in_flight' = in_flight \o Append(Head(unsent), NUL)
      /\ unsent # <<>> /\ unsent \in Seq(Seq(Byte))
  BY DEF SendLine, ReaderInv, ReaderTypeOK
<1>3. /\ Head(unsent) = unsent[1] /\ Head(unsent) \in Seq(Byte) /\ Len(unsent) > 0
      /\ unsent' \in Seq(Seq(Byte)) /\ Len(unsent') = Len(unsent) - 1
      /\ \A i \in 1..Len(unsent') : unsent'[i] = unsent[i + 1]
  BY <1>2
<1>4. Sent \in Int /\ Sent' = Sent + 1 /\ Sent + 1 \in 1..Len(Lines) /\ Len(read) <= Sent
  BY <1>1, <1>3 DEF Sent, ReaderInv, SentInOrder, ReadInOrder
<1>5. Head(unsent) = Lines[Sent + 1]
  BY <1>1, <1>3 DEF ReaderInv, SentInOrder
<1>6. ReaderTypeOK'
  <2>1. Append(Head(unsent), NUL) \in Seq(Byte)
    BY <1>3, EndOfLine
  <2> QED BY <1>2, <1>3, <2>1 DEF ReaderInv, ReaderTypeOK
<1>7. SentInOrder'
  <2>1. \A i \in 1..Len(unsent') : unsent'[i] = Lines[Sent' + i]
    <3> SUFFICES ASSUME NEW i \in 1..Len(unsent')
                 PROVE  unsent'[i] = Lines[Sent' + i]
      OBVIOUS
    <3>1. i + 1 \in 1..Len(unsent) /\ Sent + (i + 1) = Sent' + i
      BY <1>1, <1>3, <1>4
    <3>2. unsent[i + 1] = Lines[Sent + (i + 1)]
      BY <3>1, Zenon DEF ReaderInv, SentInOrder
    <3> QED BY <1>3, <3>1, <3>2
  <2> QED BY <1>1, <1>3, <2>1 DEF ReaderInv, SentInOrder
<1>8. ReadInOrder'
  BY <1>1, <1>2, <1>4 DEF ReaderInv, ReadInOrder
<1>9. NothingLost'
  <2> SUFFICES ASSUME reader # "closed"
               PROVE  Text(Len(read)) \o (buffer \o in_flight') = Text(Sent')
    BY <1>2 DEF NothingLost, Text, Ended
  <2> DEFINE line == Append(Lines[Sent + 1], NUL)
  <2>1. Text(Sent + 1) = Text(Sent) \o line
    <3>1. (Sent + 1) - 1 = Sent
      BY <1>4
    <3> QED BY <1>4, <3>1, Texts, Zenon
  <2>2. line \in Seq(Byte) /\ Len(read) \in 0..Len(Lines)
    <3>1. line \in Seq(Byte)
      BY <1>3, <1>5, EndOfLine
    <3> QED BY <1>1, <1>4, <3>1
  <2>3. buffer \in Seq(Byte) /\ in_flight \in Seq(Byte) /\ Text(Len(read)) \in Seq(Byte)
    BY <2>2, Texts DEF ReaderInv, ReaderTypeOK
  <2>4. Text(Sent) = Text(Len(read)) \o (buffer \o in_flight)
    BY DEF ReaderInv, NothingLost
  <2> HIDE DEF line
  <2>5. buffer \o in_flight \in Seq(Byte) /\ in_flight \o line \in Seq(Byte)
    BY <2>2, <2>3
  <2>6. buffer \o (in_flight \o line) = (buffer \o in_flight) \o line
    <3>1. buffer \in Seq(Byte) /\ in_flight \in Seq(Byte) /\ line \in Seq(Byte)
      BY <2>2, <2>3
    <3> QED BY ONLY <3>1, Associates, Zenon
  <2>7. Text(Len(read)) \o ((buffer \o in_flight) \o line) = (Text(Len(read)) \o (buffer \o in_flight)) \o line
    <3> DEFINE x == Text(Len(read))
               y == buffer \o in_flight
    <3>1. x \in Seq(Byte) /\ y \in Seq(Byte) /\ line \in Seq(Byte)
      BY <2>2, <2>3, <2>5
    <3> HIDE DEF x, y
    <3>2. x \o (y \o line) = (x \o y) \o line
      BY ONLY <3>1, Associates, Zenon
    <3> QED BY <3>2 DEF x, y
  <2>8. in_flight' = in_flight \o line
    BY <1>2, <1>5 DEF line
  <2> QED BY <1>4, <2>1, <2>4, <2>6, <2>7, <2>8, Zenon
<1> QED BY <1>6, <1>7, <1>8, <1>9 DEF ReaderInv

\* What is read and sent stays: so does the order.
LEMMA OrderStays ==
  ASSUME ReaderInv, UNCHANGED <<unsent, read>>
  PROVE  SentInOrder' /\ ReadInOrder' /\ Sent' = Sent
BY DEF ReaderInv, SentInOrder, ReadInOrder, Sent

LEMMA ReceiveOK == ReaderInv /\ Receive => ReaderInv'
<1> SUFFICES ASSUME ReaderInv, Receive
             PROVE  ReaderInv'
  OBVIOUS
<1>1. PICK n \in 1..Len(in_flight) :
        /\ in_flight' = SubSeq(in_flight, n + 1, Len(in_flight))
        /\ IF Len(buffer) + n + 1 > MaxPacket
           THEN buffer' = <<>> /\ reader' = "closed"
           ELSE buffer' = buffer \o SubSeq(in_flight, 1, n) /\ UNCHANGED reader
  BY DEF Receive
<1>2. UNCHANGED <<unsent, read>>
  BY DEF Receive
<1>3. /\ in_flight \in Seq(Byte) /\ buffer \in Seq(Byte) /\ Len(in_flight) \in Nat
      /\ n \in Nat /\ n <= Len(in_flight)
  BY DEF ReaderInv, ReaderTypeOK
<1> DEFINE got == SubSeq(in_flight, 1, n)
           left == SubSeq(in_flight, n + 1, Len(in_flight))
<1>4. got \in Seq(Byte) /\ left \in Seq(Byte)
  BY <1>3
<1>5. got \o left = in_flight
  <2>1. Len(got) = n /\ Len(left) = Len(in_flight) - n
    BY <1>3
  <2>2. \A i \in 1..n : got[i] = in_flight[i]
    BY <1>3
  <2>3. \A i \in 1..(Len(in_flight) - n) : left[i] = in_flight[n + i]
    BY <1>3
  <2> HIDE DEF got, left
  <2>4. /\ got \o left \in Seq(Byte) /\ Len(got \o left) = Len(in_flight)
        /\ \A i \in 1..Len(in_flight) : (got \o left)[i] = IF i <= n THEN got[i] ELSE left[i - n]
    <3>1. /\ got \o left \in Seq(Byte) /\ Len(got \o left) = Len(got) + Len(left)
          /\ \A i \in 1..Len(got) + Len(left) :
               (got \o left)[i] = IF i <= Len(got) THEN got[i] ELSE left[i - Len(got)]
      BY <1>4, ConcatProperties
    <3>2. Len(got) + Len(left) = Len(in_flight)
      BY <1>3, <2>1
    <3> QED BY <2>1, <3>1, <3>2, Zenon
  <2>5. \A i \in 1..Len(in_flight) : (got \o left)[i] = in_flight[i]
    <3> SUFFICES ASSUME NEW i \in 1..Len(in_flight)
                 PROVE  (got \o left)[i] = in_flight[i]
      OBVIOUS
    <3>1. CASE i <= n
      BY <1>3, <2>2, <2>4, <3>1
    <3>2. CASE ~(i <= n)
      <4>1. i - n \in 1..(Len(in_flight) - n) /\ n + (i - n) = i
        BY <1>3, <3>2
      <4>2. left[i - n] = in_flight[n + (i - n)]
        BY <2>3, <4>1, Zenon
      <4> QED BY <2>4, <3>2, <4>1, <4>2
    <3> QED BY <3>1, <3>2
  <2> QED BY <1>3, <2>4, <2>5, SeqEqual
<1> HIDE DEF got, left
<1>6. in_flight' = left /\ (reader' # "closed" => buffer' = buffer \o got /\ reader' = reader)
      /\ (reader' = "closed" \/ reader' = reader) /\ (buffer' = <<>> \/ buffer' = buffer \o got)
  BY <1>1 DEF got, left
<1>7. ReaderTypeOK'
  <2>1. buffer \o got \in Seq(Byte) /\ <<>> \in Seq(Byte)
    BY <1>3, <1>4
  <2>2. unsent' \in Seq(Seq(Byte)) /\ read' \in Seq(Seq(Byte))
    BY <1>2 DEF ReaderInv, ReaderTypeOK
  <2>3. reader' \in {"idle", "reading", "closed"}
    BY <1>6 DEF ReaderInv, ReaderTypeOK
  <2>4. buffer' \in Seq(Byte) /\ in_flight' \in Seq(Byte)
    BY <1>4, <1>6, <2>1, Zenon
  <2> QED BY <2>2, <2>3, <2>4 DEF ReaderTypeOK
<1>8. NothingLost'
  <2> SUFFICES ASSUME reader' # "closed"
               PROVE  Text(Len(read)) \o (buffer' \o in_flight') = Text(Sent')
    BY <1>2 DEF NothingLost, Text, Ended
  <2>1. (buffer \o got) \o left = buffer \o (got \o left)
    BY <1>3, <1>4, Associates, Zenon
  <2>2. buffer' \o in_flight' = buffer \o in_flight
    BY <1>5, <1>6, <2>1, Zenon
  <2>3. Text(Len(read)) \o (buffer \o in_flight) = Text(Sent)
    BY <1>6 DEF ReaderInv, NothingLost
  <2> QED BY <1>2, <2>2, <2>3, OrderStays, Zenon
<1> QED BY <1>2, <1>7, <1>8, OrderStays DEF ReaderInv

\* The first line of the buffer is the first one that was not read.
LEMMA ReturnLineOK == ReaderInv /\ ReturnLine => ReaderInv'
<1> SUFFICES ASSUME ReaderInv, ReturnLine
             PROVE  ReaderInv'
  OBVIOUS
<1> DEFINE r == Len(read)
           n == FirstNul(buffer)
<1>1. /\ Complete(buffer) /\ reader = "reading" /\ UNCHANGED <<in_flight, unsent>>
      /\ read' = Append(read, Slice(buffer, 1, n)) /\ reader' = "idle"
      /\ buffer' = SubSeq(buffer, n + 1, Len(buffer))
  BY DEF ReturnLine
<1>2. /\ Lines \in Seq(Seq(Byte)) /\ Len(Lines) \in Nat /\ Len(unsent) \in Nat /\ r \in Nat
      /\ in_flight \in Seq(Byte) /\ buffer \in Seq(Byte) /\ read \in Seq(Seq(Byte))
      /\ unsent \in Seq(Seq(Byte))
  BY LinesEnded DEF ReaderInv, ReaderTypeOK
<1>3. Sent \in 0..Len(Lines) /\ r <= Sent /\ Sent' = Sent
  BY <1>1, <1>2 DEF Sent, ReaderInv, SentInOrder, ReadInOrder
<1>4. Text(r) \o (buffer \o in_flight) = Text(Sent)
  BY <1>1 DEF ReaderInv, NothingLost
<1>5. buffer \o in_flight \in Seq(Byte) /\ buffer # <<>>
  BY <1>1, <1>2 DEF Complete
<1>6. r < Sent
  <2>1. CASE r = Sent
    <3>1. Text(r) \in Seq(Byte)
      BY <1>2, <1>3, <2>1, Texts
    <3>2. Text(r) \o (buffer \o in_flight) = Text(r)
      BY <1>4, <2>1, Zenon
    <3>3. buffer \o in_flight = <<>>
      BY <1>5, <3>1, <3>2, ConcatSimplifications
    <3> QED BY <1>2, <1>5, <3>3, ConcatEqualIffEmpty
  <2> QED BY <1>2, <1>3, <2>1
<1>7. r + 1 \in 1..Len(Lines) /\ r \in 0..Len(Lines) /\ Sent \in (r + 1)..Len(Lines) /\ (r + 1) - 1 = r
  BY <1>2, <1>3, <1>6
<1> DEFINE line == Lines[r + 1]
<1>8. line \in Seq(Byte) /\ \A j \in 1..Len(line) : line[j] # NUL
  BY <1>2, <1>7, LinesEnded, ReaderAssumption
<1>9. PICK rest \in Seq(Byte) : Text(Sent) = Text(r + 1) \o rest
  <2>1. r + 1 \in 0..Len(Lines)
    BY <1>7
  <2> QED BY <1>7, <2>1, TextContinues
<1>10. Text(r + 1) = Text(r) \o Append(line, NUL)
  BY <1>7, Texts, Zenon
<1>11. Text(r) \in Seq(Byte) /\ Append(line, NUL) \in Seq(Byte)
  BY <1>7, <1>8, Texts, EndOfLine
<1> HIDE DEF r, n, line
<1>12. buffer \o in_flight = Append(line, NUL) \o rest
  <2>1. Append(line, NUL) \o rest \in Seq(Byte)
    BY <1>11
  <2>2. (Text(r) \o Append(line, NUL)) \o rest = Text(r) \o (Append(line, NUL) \o rest)
    BY <1>11, Associates, Zenon
  <2>3. Text(r) \o (buffer \o in_flight) = Text(r) \o (Append(line, NUL) \o rest)
    BY <1>4, <1>9, <1>10, <2>2, Zenon
  <2>4. \A s, t, v \in Seq(Byte) : s \o t = s \o v => t = v
    BY ConcatSimplifications
  <2> QED BY <1>5, <1>11, <2>1, <2>3, <2>4, Zenon
<1>13. /\ Slice(buffer, 1, n) = line /\ SubSeq(buffer, n + 1, Len(buffer)) \in Seq(Byte)
       /\ SubSeq(buffer, n + 1, Len(buffer)) \o in_flight = rest
  <2>1. \A b, f, x, v \in Seq(Byte) :
          (\A j \in 1..Len(x) : x[j] # NUL) /\ b \o f = Append(x, NUL) \o v /\ Complete(b) =>
            /\ Slice(b, 1, FirstNul(b)) = x /\ SubSeq(b, FirstNul(b) + 1, Len(b)) \in Seq(Byte)
            /\ SubSeq(b, FirstNul(b) + 1, Len(b)) \o f = v
    BY FirstLine
  <2> QED BY <1>1, <1>2, <1>8, <1>12, <2>1, Zenon DEF n
<1>14. read' = Append(read, line) /\ buffer' \in Seq(Byte) /\ buffer' \o in_flight = rest
  BY <1>1, <1>13, Zenon
<1>15. read' \in Seq(Seq(Byte)) /\ Len(read') = r + 1 /\ read'[r + 1] = line
       /\ \A i \in 1..r : read'[i] = read[i]
  BY <1>2, <1>8, <1>14 DEF r
<1>16. ReaderTypeOK'
  BY <1>1, <1>2, <1>14, <1>15 DEF ReaderTypeOK
<1>17. SentInOrder'
  BY <1>1 DEF SentInOrder, Sent, ReaderInv
<1>18. ReadInOrder'
  <2>1. \A i \in 1..r : read[i] = Lines[i]
    BY DEF ReaderInv, ReadInOrder, r
  <2>2. \A i \in 1..(r + 1) : read'[i] = Lines[i]
    <3> SUFFICES ASSUME NEW i \in 1..(r + 1)
                 PROVE  read'[i] = Lines[i]
      OBVIOUS
    <3>1. i = r + 1 \/ i \in 1..r
      BY <1>2
    <3> QED BY <1>15, <2>1, <3>1 DEF line
  <2>3. Len(read') <= Sent'
    BY <1>2, <1>3, <1>6, <1>15
  <2> QED BY <1>15, <2>2, <2>3 DEF ReadInOrder
<1>19. NothingLost'
  <2>1. Text(r + 1) \o (buffer' \o in_flight) = Text(Sent)
    BY <1>9, <1>14, Zenon
  <2> QED BY <1>1, <1>3, <1>15, <2>1, Zenon DEF NothingLost, Text, Ended
<1> QED BY <1>16, <1>17, <1>18, <1>19 DEF ReaderInv

LEMMA ReaderStep == ReaderInv /\ [ReaderNext]_readerVars => ReaderInv'
<1> SUFFICES ASSUME ReaderInv, [ReaderNext]_readerVars
             PROVE  ReaderInv'
  OBVIOUS
<1>1. CASE SendLine
  BY <1>1, SendLineOK
<1>2. CASE StartReading \/ ReceiveNothing
  <2>1. UNCHANGED <<in_flight, unsent, read>> /\ (buffer' = buffer \/ buffer' = <<>>)
        /\ ((reader = "idle" /\ reader' = "reading" /\ buffer' = buffer) \/ reader' = "closed")
    BY <1>2 DEF StartReading, ReceiveNothing
  <2>2. ReaderTypeOK'
    <3>1. <<>> \in Seq(Byte) /\ buffer \in Seq(Byte)
      BY DEF ReaderInv, ReaderTypeOK
    <3>2. buffer' \in Seq(Byte)
      BY <2>1, <3>1, Zenon
    <3> QED BY <2>1, <3>2 DEF ReaderInv, ReaderTypeOK
  <2>3. SentInOrder' /\ ReadInOrder' /\ Sent' = Sent
    BY <2>1, OrderStays
  <2>4. NothingLost'
    BY <2>1, <2>3 DEF ReaderInv, NothingLost, Text, Ended
  <2> QED BY <2>2, <2>3, <2>4 DEF ReaderInv
<1>3. CASE Receive
  BY <1>3, ReceiveOK
<1>4. CASE ReturnLine
  BY <1>4, ReturnLineOK
<1>5. CASE UNCHANGED readerVars
  BY <1>5 DEF readerVars, ReaderInv, ReaderTypeOK, SentInOrder, ReadInOrder, NothingLost, Sent, Text, Ended
<1> QED BY <1>1, <1>2, <1>3, <1>4, <1>5 DEF ReaderNext

LEMMA ReaderAtLast == ReaderInv => LinesArriveWhole
<1> SUFFICES ASSUME ReaderInv
             PROVE  LinesArriveWhole
  OBVIOUS
<1>1. /\ Len(unsent) \in Nat /\ Len(read) \in Nat /\ Len(Lines) \in Nat /\ Lines \in Seq(Seq(Byte))
      /\ buffer \in Seq(Byte) /\ in_flight \in Seq(Byte) /\ read \in Seq(Seq(Byte))
  BY LinesEnded DEF ReaderInv, ReaderTypeOK
<1>2. Len(read) <= Sent /\ Sent \in 0..Len(Lines) /\ Len(read) \in 0..Len(Lines)
  BY <1>1 DEF ReaderInv, ReadInOrder, SentInOrder, Sent
<1>3. IsPrefix(read, Lines)
  <2>1. Len(read) <= Len(Lines) /\ \A i \in 1..Len(read) : read[i] = Lines[i]
    BY <1>1, <1>2 DEF ReaderInv, ReadInOrder
  <2>2. SubSeq(read, 1, Len(read)) = SubSeq(Lines, 1, Len(read))
    BY <1>1, <2>1
  <2> QED BY <2>1, <2>2 DEF IsPrefix
<1>4. FlattenSeq([i \in 1..Sent |-> Append(Lines[i], NUL)]) = Text(Sent)
  <2>1. [i \in 1..Sent |-> Append(Lines[i], NUL)] = [i \in 1..Sent |-> Ended[i]]
    BY <1>1, <1>2 DEF Ended
  <2> QED BY <2>1, Zenon DEF Text, TextOf
<1>5. FlattenSeq([i \in 1..Len(read) |-> Append(read[i], NUL)]) = Text(Len(read))
  <2>1. \A i \in 1..Len(read) : i \in 1..Len(Lines) /\ read[i] = Lines[i]
    <3>1. \A i \in 1..Len(read) : i \in 1..Len(Lines)
      BY ONLY <1>1, <1>2
    <3>2. \A i \in 1..Len(read) : read[i] = Lines[i]
      BY Zenon DEF ReaderInv, ReadInOrder
    <3> QED BY <3>1, <3>2, Zenon
  <2>2. [i \in 1..Len(read) |-> Append(read[i], NUL)] = [i \in 1..Len(read) |-> Ended[i]]
    BY <2>1 DEF Ended
  <2> QED BY <2>2, Zenon DEF Text, TextOf
<1>6. ASSUME reader # "closed"
      PROVE  (Text(Len(read)) \o buffer) \o in_flight = Text(Sent)
  <2>1. Text(Len(read)) \in Seq(Byte)
    BY <1>2, Texts
  <2>2. (Text(Len(read)) \o buffer) \o in_flight = Text(Len(read)) \o (buffer \o in_flight)
    BY <1>1, <2>1, Associates, Zenon
  <2> QED BY <1>6, <2>2 DEF ReaderInv, NothingLost
<1> QED BY <1>3, <1>4, <1>5, <1>6, Zenon DEF LinesArriveWhole, Sent

\* A line reaches the command loop as it was sent, whatever packets it came in
\* and whatever followed it, and none is lost, doubled or out of order while the
\* connection is open (xdebug_fd_read_line_delim).
THEOREM ReaderReads == ReaderSpec => []LinesArriveWhole
<1>1. ReaderInit => ReaderInv
  BY ReaderInits
<1>2. ReaderInv /\ [ReaderNext]_readerVars => ReaderInv'
  BY ReaderStep
<1>3. ReaderInv => LinesArriveWhole
  BY ReaderAtLast
<1> QED BY <1>1, <1>2, <1>3, PTL DEF ReaderSpec
-----------------------------------------------------------------------------
(* The growing string.                                                        *)

StrInv == StrFits /\ l \in Nat /\ a \in Nat /\ reach \in Int /\ (a = 0 => l = 0)

\* What is allocated holds what is there, n characters more and the zero.
LEMMA Room ==
  ASSUME NEW len \in Nat, NEW alloc \in Nat, alloc = 0 => len = 0, alloc > 0 => len < alloc, NEW n \in Nat
  PROVE  /\ AllocatedFor(len, alloc, n) \in Nat /\ AllocatedFor(len, alloc, n) >= alloc
         /\ len + n < AllocatedFor(len, alloc, n)
BY ContainersAssumption DEF AllocatedFor

LEMMA StrStep == StrInv /\ StrNext => StrInv'
<1> SUFFICES ASSUME StrInv, StrNext
             PROVE  StrInv'
  OBVIOUS
<1>2. l \in Nat /\ a \in Nat /\ reach \in Int /\ l = text /\ reach < a /\ (a = 0 => l = 0) /\ (a > 0 => l < a)
  BY DEF StrInv, StrFits
<1>3. CASE \E n \in 0..3 : StrAddl(n)
  <2>1. PICK n \in 0..3 : StrAddl(n)
    BY <1>3
  <2>2. a' = AllocatedFor(l, a, n) /\ l' = l + n /\ text' = text + n /\ reach' = Highest(reach, l + n)
    BY <2>1 DEF StrAddl
  <2>3. AllocatedFor(l, a, n) \in Nat /\ AllocatedFor(l, a, n) >= a /\ l + n < AllocatedFor(l, a, n)
    BY <1>2, Room
  <2> QED BY <1>2, <2>2, <2>3 DEF Highest, StrInv, StrFits
<1>4. CASE \E n \in 0..3 : StrAddFmt(n)
  <2>1. PICK n \in 0..3 : StrAddFmt(n)
    BY <1>4
  <2> DEFINE first == AllocatedFor(l, a, 1)
             second == AllocatedFor(l, first, n + 1)
  <2>2. /\ IF n < first - l
            THEN a' = first /\ reach' = Highest(reach, l + n) /\ l' = l + n
            ELSE /\ a' = second /\ reach' = Highest(reach, l + n)
                 /\ l' = IF n < second - l THEN l + n ELSE l
        /\ text' = text + n
    BY <2>1 DEF StrAddFmt
  <2>3. first \in Nat /\ first >= a /\ l + 1 < first
    BY <1>2, Room
  <2> HIDE DEF first
  <2>4. second \in Nat /\ second >= first /\ l + (n + 1) < second
    <3>1. first \in Nat /\ (first = 0 => l = 0) /\ (first > 0 => l < first) /\ l \in Nat /\ n + 1 \in Nat
      BY <1>2, <2>3
    <3> QED BY <3>1, Room
  <2> HIDE DEF second
  <2> QED BY <1>2, <2>2, <2>3, <2>4 DEF Highest, StrInv, StrFits
<1>5. CASE \E c \in 1..2 : StrChop(c)
  BY <1>2, <1>5 DEF StrChop, StrInv, StrFits
<1> QED BY <1>3, <1>4, <1>5 DEF StrNext

LEMMA StrInits == StrInit => StrInv
BY DEF StrInit, StrInv, StrFits
-----------------------------------------------------------------------------
(* The sets of bits.                                                          *)

\* Division leaves a remainder that is smaller than the byte.
LEMMA Division ==
  ASSUME NEW p \in Nat
  PROVE  /\ p \div ByteSize \in Nat /\ p % ByteSize \in 0..(ByteSize - 1)
         /\ p = ByteSize * (p \div ByteSize) + (p % ByteSize)
<1>1. ByteSize \in Nat \ {0}
  BY ContainersAssumption
<1> QED BY <1>1

\* A position is in the first byte or a later one.
LEMMA ByteIsNumber ==
  ASSUME NEW p \in Nat
  PROVE  ByteOf(p) \in Nat \ {0}
<1>1. p \div ByteSize \in Nat
  BY Division
<1> QED BY <1>1 DEF ByteOf

\* Byte and bit of a position name it.
LEMMA BitsDiffer ==
  ASSUME NEW p \in Nat, NEW q \in Nat, ByteOf(p) = ByteOf(q), p % ByteSize = q % ByteSize
  PROVE  p = q
<1>1. p \div ByteSize = q \div ByteSize
  BY Division DEF ByteOf
<1>2. ByteSize * (p \div ByteSize) = ByteSize * (q \div ByteSize)
  BY <1>1, Zenon
<1> QED BY <1>2, Division

\* The bytes of a larger set are not fewer, and the last position is in one.
LEMMA BytesSuffice ==
  ASSUME NEW n \in Nat, NEW p \in Nat, p < n
  PROVE  MEM_SIZE(n) \in Nat /\ ByteOf(p) \in 1..MEM_SIZE(n)
<1> DEFINE B == ByteSize
           x == p \div B
           y == n \div B
<1>1. B \in Nat \ {0} /\ x \in Nat /\ y \in Nat /\ p % B \in 0..(B - 1) /\ n % B \in 0..(B - 1)
      /\ p = B * x + (p % B) /\ n = B * y + (n % B)
  BY ContainersAssumption, Division
<1>2. MEM_SIZE(n) = y + (IF n % B # 0 THEN 1 ELSE 0) /\ ByteOf(p) = x + 1
  BY DEF MEM_SIZE, ByteOf
<1> HIDE DEF B, x, y
<1>3. x <= y
  <2>1. SUFFICES ASSUME x >= y + 1
                 PROVE  FALSE
    BY <1>1
  <2>2. B * x >= B * (y + 1)
    BY <1>1, <2>1
  <2>3. B * (y + 1) = B * y + B
    BY <1>1
  <2>4. B * x \in Int /\ B * y \in Int
    BY <1>1
  <2> QED BY <1>1, <2>2, <2>3, <2>4
<1>4. x = y => n % B # 0
  <2>1. B * x \in Int
    BY <1>1
  <2> QED BY <1>1, <2>1
<1> QED BY <1>1, <1>2, <1>3, <1>4

\* Bits beyond the size are clear, so that a set may grow over them.
BitsAre(mem, set) ==
  \A p \in Nat : ByteOf(p) <= Len(mem) => (p % ByteSize \in mem[ByteOf(p)] <=> p \in set)
MarksAre ==
  \A p \in Nat, b \in Bits : (p < Len(msetinfo) /\ b \in msetinfo[p + 1]) <=> <<p, b>> \in marks

SetInv ==
  /\ setinfo \in Seq(SUBSET Nat) /\ set_size \in Nat /\ Len(setinfo) = MEM_SIZE(set_size)
  /\ members \subseteq Nat /\ \A p \in members : p < set_size
  /\ BitsAre(setinfo, members)
  /\ msetinfo \in Seq(SUBSET Bits) /\ MarksAre

LEMMA SetAgrees == SetInv => SetIsSet
<1> SUFFICES ASSUME SetInv
             PROVE  SetIsSet
  OBVIOUS
<1>1. Positions \subseteq Nat /\ set_size \in Nat /\ Len(setinfo) = MEM_SIZE(set_size)
  BY ContainersAssumption DEF SetInv
<1>2. \A p \in 0..(set_size - 1) : ByteOf(p) <= Len(setinfo)
  <2> SUFFICES ASSUME NEW p \in 0..(set_size - 1)
               PROVE  ByteOf(p) <= Len(setinfo)
    OBVIOUS
  <2>1. p \in Nat /\ p < set_size
    BY <1>1
  <2>2. MEM_SIZE(set_size) \in Nat /\ ByteOf(p) \in 1..MEM_SIZE(set_size)
    BY <1>1, <2>1, BytesSuffice
  <2> QED BY <1>1, <2>2
<1>3. \A p \in Positions : SetIn(p) = (p \in members)
  <2> SUFFICES ASSUME NEW p \in Positions
               PROVE  SetIn(p) = (p \in members)
    OBVIOUS
  <2>1. p \in Nat
    BY <1>1
  <2>2. CASE p < set_size
    <3>1. ByteOf(p) <= Len(setinfo)
      BY <1>1, <1>2, <2>1, <2>2
    <3>2. p % ByteSize \in setinfo[ByteOf(p)] <=> p \in members
      BY <2>1, <3>1, Zenon DEF SetInv, BitsAre
    <3>3. SetIn(p) <=> p \in members
      BY <2>2, <3>2, Zenon DEF SetIn
    <3> QED BY <3>3, SMT DEF SetIn
  <2>3. CASE ~(p < set_size)
    <3>1. p \notin members
      BY <2>3, Zenon DEF SetInv
    <3>2. SetIn(p) <=> p \in members
      BY <2>3, <3>1, Zenon DEF SetIn
    <3> QED BY <3>2, SMT DEF SetIn
  <2> QED BY <2>2, <2>3
<1>4. \A p \in Positions, b \in Bits : MsetIn(p, b) = (<<p, b>> \in marks)
  <2> SUFFICES ASSUME NEW p \in Positions, NEW b \in Bits
               PROVE  MsetIn(p, b) = (<<p, b>> \in marks)
    OBVIOUS
  <2>1. p \in Nat
    BY <1>1
  <2>2. MsetIn(p, b) <=> <<p, b>> \in marks
    BY <2>1, Zenon DEF SetInv, MarksAre, MsetIn
  <2> QED BY <2>2, SMT DEF MsetIn
<1> QED BY <1>2, <1>3, <1>4, Zenon DEF SetIsSet

\* A set that is made large enough for a position has the bits it had.
LEMMA ResizedOK ==
  ASSUME SetInv, NEW p \in Nat
  PROVE  /\ SetResizeAsNeeded(p).mem \in Seq(SUBSET Nat) /\ SetResizeAsNeeded(p).size \in Nat
         /\ Len(SetResizeAsNeeded(p).mem) = MEM_SIZE(SetResizeAsNeeded(p).size)
         /\ p < SetResizeAsNeeded(p).size /\ set_size <= SetResizeAsNeeded(p).size
         /\ BitsAre(SetResizeAsNeeded(p).mem, members)
<1>1. /\ setinfo \in Seq(SUBSET Nat) /\ set_size \in Nat /\ Len(setinfo) = MEM_SIZE(set_size)
      /\ members \subseteq Nat /\ \A q \in members : q < set_size
      /\ BitsAre(setinfo, members)
  BY DEF SetInv
<1>2. CASE ~(p >= set_size)
  <2>1. SetResizeAsNeeded(p) = [mem |-> setinfo, size |-> set_size]
    BY <1>2 DEF SetResizeAsNeeded
  <2>2. SetResizeAsNeeded(p).mem = setinfo /\ SetResizeAsNeeded(p).size = set_size
    BY <2>1
  <2>3. p < set_size
    BY <1>1, <1>2
  <2> QED BY <1>1, <2>2, <2>3
<1>3. CASE p >= set_size
  <2> DEFINE mem == Resized(setinfo, MEM_SIZE(p + 1))
  <2>1. SetResizeAsNeeded(p) = [mem |-> mem, size |-> p + 1]
    BY <1>3 DEF SetResizeAsNeeded
  <2>2. SetResizeAsNeeded(p).mem = mem /\ SetResizeAsNeeded(p).size = p + 1
    BY <2>1
  <2>3. MEM_SIZE(p + 1) \in Nat
    BY BytesSuffice
  <2>4. mem \in Seq(SUBSET Nat) /\ Len(mem) = MEM_SIZE(p + 1)
        /\ \A i \in 1..Len(mem) : mem[i] = IF i <= Len(setinfo) THEN setinfo[i] ELSE {}
    <3> DEFINE m == MEM_SIZE(p + 1)
    <3>1. mem = [i \in 1..m |-> IF i <= Len(setinfo) THEN setinfo[i] ELSE {}]
      BY DEF Resized
    <3> HIDE DEF m, mem
    <3>2. m \in Nat
      BY <2>3 DEF m
    <3> QED BY <1>1, <3>1, <3>2 DEF m
  <2> HIDE DEF mem
  <2>5. BitsAre(mem, members)
    <3> SUFFICES ASSUME NEW q \in Nat, ByteOf(q) <= Len(mem)
                 PROVE  q % ByteSize \in mem[ByteOf(q)] <=> q \in members
      BY DEF BitsAre
    <3>1. ByteOf(q) \in 1..Len(mem)
      BY <2>3, <2>4, ByteIsNumber
    <3>2. CASE ByteOf(q) <= Len(setinfo)
      <4>1. mem[ByteOf(q)] = setinfo[ByteOf(q)]
        BY <2>4, <3>1, <3>2
      <4> QED BY <1>1, <3>2, <4>1, Zenon DEF BitsAre
    <3>3. CASE ~(ByteOf(q) <= Len(setinfo))
      <4>1. mem[ByteOf(q)] = {}
        BY <2>4, <3>1, <3>3
      <4>2. ~(q < set_size)
        BY <1>1, <3>3, BytesSuffice
      <4> QED BY <1>1, <4>1, <4>2
    <3> QED BY <3>2, <3>3
  <2> QED BY <1>1, <1>3, <2>2, <2>4, <2>5
<1> QED BY <1>2, <1>3

\* Setting or clearing the bit of a position puts it in or takes it out.
LEMMA SetChangeOK ==
  ASSUME SetInv, NEW p \in Nat, NEW r, r = SetResizeAsNeeded(p), NEW in \in BOOLEAN,
         set_size' = r.size,
         setinfo' = [r.mem EXCEPT ![ByteOf(p)] = IF in THEN @ \cup {p % ByteSize} ELSE @ \ {p % ByteSize}],
         members' = IF in THEN members \cup {p} ELSE members \ {p},
         UNCHANGED <<msetinfo, marks>>
  PROVE  SetInv'
<1>1. /\ r.mem \in Seq(SUBSET Nat) /\ r.size \in Nat /\ Len(r.mem) = MEM_SIZE(r.size)
      /\ p < r.size /\ set_size <= r.size /\ BitsAre(r.mem, members)
  BY ResizedOK
<1>2. /\ members \subseteq Nat /\ (\A q \in members : q < set_size) /\ set_size \in Nat
      /\ msetinfo \in Seq(SUBSET Bits) /\ MarksAre
  BY DEF SetInv
<1>3. ByteOf(p) \in 1..Len(r.mem)
  BY <1>1, BytesSuffice
<1>4. p % ByteSize \in Nat
  BY Division, ContainersAssumption
<1>5. /\ setinfo' \in Seq(SUBSET Nat) /\ Len(setinfo') = Len(r.mem)
      /\ \A i \in 1..Len(r.mem) : i # ByteOf(p) => setinfo'[i] = r.mem[i]
      /\ setinfo'[ByteOf(p)] = IF in THEN r.mem[ByteOf(p)] \cup {p % ByteSize} ELSE r.mem[ByteOf(p)] \ {p % ByteSize}
  <2> DEFINE x == IF in THEN r.mem[ByteOf(p)] \cup {p % ByteSize} ELSE r.mem[ByteOf(p)] \ {p % ByteSize}
  <2>1. x \in SUBSET Nat
    BY <1>1, <1>3, <1>4
  <2>2. setinfo' = [r.mem EXCEPT ![ByteOf(p)] = x]
    OBVIOUS
  <2> HIDE DEF x
  <2>3. setinfo'[ByteOf(p)] = x /\ setinfo' \in Seq(SUBSET Nat) /\ Len(setinfo') = Len(r.mem)
        /\ \A i \in 1..Len(r.mem) : i # ByteOf(p) => setinfo'[i] = r.mem[i]
    <3> DEFINE mem == r.mem
               k == ByteOf(p)
               new == setinfo'
    <3>1. mem \in Seq(SUBSET Nat) /\ k \in 1..Len(mem) /\ new = [mem EXCEPT ![k] = x]
      BY <1>1, <1>3, <2>2
    <3> HIDE DEF mem, k, new
    <3>2. new[k] = x /\ new \in Seq(SUBSET Nat) /\ Len(new) = Len(mem)
          /\ \A i \in 1..Len(mem) : i # k => new[i] = mem[i]
      BY <2>1, <3>1
    <3> QED BY <3>2 DEF mem, k, new
  <2> QED BY <2>3 DEF x
<1>6. members' \subseteq Nat /\ \A q \in members' : q < set_size'
  <2> DEFINE z == r.size
  <2>1. z \in Nat /\ p < z /\ set_size <= z /\ set_size' = z /\ set_size \in Nat
    BY <1>1, <1>2
  <2> HIDE DEF z
  <2>2. \A q \in members' : q \in Nat /\ (q = p \/ q < set_size)
    BY <1>2
  <2> QED BY <2>1, <2>2
<1>7. BitsAre(setinfo', members')
  <2> SUFFICES ASSUME NEW q \in Nat, ByteOf(q) <= Len(setinfo')
               PROVE  q % ByteSize \in setinfo'[ByteOf(q)] <=> q \in members'
    BY DEF BitsAre
  <2>1. ByteOf(q) \in 1..Len(r.mem)
    <3>1. ByteOf(q) <= Len(r.mem)
      BY <1>5, Zenon
    <3>2. Len(r.mem) \in Nat
      BY <1>1
    <3>3. ByteOf(q) \in Nat \ {0}
      BY ByteIsNumber
    <3> QED BY <3>1, <3>2, <3>3
  <2>2. q % ByteSize \in r.mem[ByteOf(q)] <=> q \in members
    BY <1>1, <2>1 DEF BitsAre
  <2>3. CASE ByteOf(q) = ByteOf(p)
    <3>1. q % ByteSize = p % ByteSize <=> q = p
      BY <2>3, BitsDiffer
    <3>2. setinfo'[ByteOf(q)] = IF in THEN r.mem[ByteOf(q)] \cup {p % ByteSize} ELSE r.mem[ByteOf(q)] \ {p % ByteSize}
      BY <1>5, <2>3, Zenon
    <3> QED BY <2>2, <3>1, <3>2
  <2>4. CASE ByteOf(q) # ByteOf(p)
    <3>1. q # p
      BY <2>4
    <3>2. setinfo'[ByteOf(q)] = r.mem[ByteOf(q)]
      BY <1>5, <2>1, <2>4
    <3> QED BY <2>2, <3>1, <3>2
  <2> QED BY <2>3, <2>4
<1>8. MarksAre'
  BY <1>2 DEF MarksAre
<1>9. Len(setinfo') = MEM_SIZE(set_size')
  BY <1>1, <1>5
<1> QED BY <1>1, <1>2, <1>5, <1>6, <1>7, <1>8, <1>9 DEF SetInv, BitsAre, MEM_SIZE, ByteOf

LEMMA MarkOK ==
  ASSUME SetInv, NEW p \in Nat, NEW bit \in Bits, MsetAdd(p, bit)
  PROVE  SetInv'
<1> DEFINE n == IF p >= Len(msetinfo) THEN p + 1 ELSE Len(msetinfo)
           mem == Resized(msetinfo, n)
           new == msetinfo'
<1>1. msetinfo \in Seq(SUBSET Bits) /\ Len(msetinfo) \in Nat /\ MarksAre
  BY DEF SetInv
<1>2. n \in Nat /\ p + 1 \in 1..n /\ n >= Len(msetinfo)
  BY <1>1
<1>3. new = [mem EXCEPT ![p + 1] = @ \cup {bit}] /\ marks' = marks \cup {<<p, bit>>}
      /\ UNCHANGED <<setinfo, set_size, members>>
  BY DEF MsetAdd
<1>4. mem = [i \in 1..n |-> IF i <= Len(msetinfo) THEN msetinfo[i] ELSE {}]
  BY DEF Resized
<1> HIDE DEF n, mem, new
<1>5. /\ mem \in Seq(SUBSET Bits) /\ Len(mem) = n
      /\ \A i \in 1..n : mem[i] = IF i <= Len(msetinfo) THEN msetinfo[i] ELSE {}
  BY <1>1, <1>2, <1>4
<1>6. /\ new \in Seq(SUBSET Bits) /\ Len(new) = n
      /\ \A i \in 1..n : i # p + 1 => new[i] = mem[i]
      /\ new[p + 1] = mem[p + 1] \cup {bit}
  <2> DEFINE x == mem[p + 1] \cup {bit}
  <2>1. x \in SUBSET Bits
    BY <1>2, <1>5
  <2>2. new = [mem EXCEPT ![p + 1] = x]
    BY <1>3
  <2> HIDE DEF x
  <2>3. new[p + 1] = x /\ new \in Seq(SUBSET Bits) /\ Len(new) = n
        /\ \A i \in 1..n : i # p + 1 => new[i] = mem[i]
    BY <1>2, <1>5, <2>1, <2>2
  <2> QED BY <2>3 DEF x
<1>7. ASSUME NEW q \in Nat, NEW b \in Bits
      PROVE  (q < n /\ b \in new[q + 1]) <=> <<q, b>> \in marks \cup {<<p, bit>>}
  <2>1. (q < Len(msetinfo) /\ b \in msetinfo[q + 1]) <=> <<q, b>> \in marks
    BY <1>1 DEF MarksAre
  <2>2. CASE q < n
    <3>1. q + 1 \in 1..n
      BY <1>2, <2>2
    <3>2. b \in mem[q + 1] <=> <<q, b>> \in marks
      <4>1. CASE q < Len(msetinfo)
        BY <1>1, <1>5, <2>1, <3>1, <4>1
      <4>2. CASE ~(q < Len(msetinfo))
        BY <1>1, <1>5, <2>1, <3>1, <4>2
      <4> QED BY <4>1, <4>2
    <3>3. CASE q = p
      <4>1. b \in new[q + 1] <=> (b \in mem[q + 1] \/ b = bit)
        BY <1>6, <3>3
      <4> QED BY <2>2, <3>2, <3>3, <4>1
    <3>4. CASE q # p
      <4>1. new[q + 1] = mem[q + 1]
        BY <1>6, <3>1, <3>4
      <4> QED BY <2>2, <3>2, <3>4, <4>1
    <3> QED BY <3>3, <3>4
  <2>3. CASE ~(q < n)
    <3>1. q # p /\ ~(q < Len(msetinfo))
      BY <1>1, <1>2, <2>3
    <3> QED BY <2>1, <2>3, <3>1
  <2> QED BY <2>2, <2>3
<1>8. MarksAre'
  BY <1>3, <1>6, <1>7 DEF MarksAre, new
<1> QED BY <1>3, <1>6, <1>8 DEF SetInv, BitsAre, MEM_SIZE, ByteOf, new

LEMMA SetStep == SetInv /\ SetNext => SetInv'
<1> SUFFICES ASSUME SetInv, SetNext
             PROVE  SetInv'
  OBVIOUS
<1>1. CASE SetClear
  <2> DEFINE new == setinfo'
  <2>1. setinfo \in Seq(SUBSET Nat) /\ set_size \in Nat /\ Len(setinfo) = MEM_SIZE(set_size)
    BY DEF SetInv
  <2>2. new = [i \in 1..Len(setinfo) |-> {}]
    BY <1>1, <2>1 DEF SetClear
  <2> HIDE DEF new
  <2>3. new \in Seq(SUBSET Nat) /\ Len(new) = Len(setinfo) /\ \A i \in 1..Len(new) : new[i] = {}
    BY <2>1, <2>2
  <2>4. \A p \in Nat : ByteOf(p) <= Len(new) => ~(p % ByteSize \in new[ByteOf(p)])
    <3> SUFFICES ASSUME NEW p \in Nat, ByteOf(p) <= Len(new)
                 PROVE  ~(p % ByteSize \in new[ByteOf(p)])
      OBVIOUS
    <3>1. ByteOf(p) \in 1..Len(new)
      BY <2>3, ByteIsNumber
    <3> QED BY <2>3, <3>1
  <2>5. members' = {} /\ UNCHANGED <<set_size, msetinfo, marks>>
    BY <1>1 DEF SetClear
  <2>6. BitsAre(setinfo, members)'
    BY <2>4, <2>5 DEF BitsAre, new, ByteOf
  <2> QED BY <2>1, <2>3, <2>5, <2>6 DEF SetInv, MarksAre, MEM_SIZE, new
<1>2. CASE \E p \in Positions : SetAdd(p)
  <2>1. PICK p \in Positions : SetAdd(p)
    BY <1>2
  <2>2. p \in Nat
    BY ContainersAssumption
  <2> DEFINE r == SetResizeAsNeeded(p)
  <2>3. /\ set_size' = r.size
        /\ setinfo' = [r.mem EXCEPT ![ByteOf(p)] = IF TRUE THEN @ \cup {p % ByteSize} ELSE @ \ {p % ByteSize}]
        /\ members' = IF TRUE THEN members \cup {p} ELSE members \ {p}
        /\ UNCHANGED <<msetinfo, marks>>
    BY <2>1 DEF SetAdd
  <2> QED BY <2>2, <2>3, SetChangeOK
<1>3. CASE \E p \in Positions : SetRemove(p)
  <2>1. PICK p \in Positions : SetRemove(p)
    BY <1>3
  <2>2. p \in Nat
    BY ContainersAssumption
  <2> DEFINE r == SetResizeAsNeeded(p)
  <2>3. /\ set_size' = r.size
        /\ setinfo' = [r.mem EXCEPT ![ByteOf(p)] = IF FALSE THEN @ \cup {p % ByteSize} ELSE @ \ {p % ByteSize}]
        /\ members' = IF FALSE THEN members \cup {p} ELSE members \ {p}
        /\ UNCHANGED <<msetinfo, marks>>
    BY <2>1 DEF SetRemove
  <2> QED BY <2>2, <2>3, SetChangeOK
<1>4. CASE \E p \in Positions, b \in Bits : MsetAdd(p, b)
  <2>1. PICK p \in Positions, b \in Bits : MsetAdd(p, b)
    BY <1>4
  <2>2. p \in Nat
    BY ContainersAssumption
  <2> QED BY <2>1, <2>2, MarkOK
<1> QED BY <1>1, <1>2, <1>3, <1>4 DEF SetNext

LEMMA SetInits == SetInit => SetInv
<1> SUFFICES ASSUME SetInit
             PROVE  SetInv
  OBVIOUS
<1>1. setinfo = <<>> /\ set_size = 0 /\ members = {} /\ msetinfo = <<>> /\ marks = {}
  BY DEF SetInit
<1>2. MEM_SIZE(0) = 0
  <2>1. 0 \div ByteSize = 0 /\ 0 % ByteSize = 0
    BY ContainersAssumption
  <2> QED BY <2>1 DEF MEM_SIZE
<1>3. BitsAre(<<>>, {})
  <2>1. \A p \in Nat : ~(ByteOf(p) <= 0)
    BY ByteIsNumber
  <2>2. Len(<<>>) = 0
    OBVIOUS
  <2> QED BY <2>1, <2>2, Zenon DEF BitsAre
<1> QED BY <1>1, <1>2, <1>3 DEF SetInv, MarksAre
-----------------------------------------------------------------------------
(* The hash table.                                                            *)

\* Taking out an element moves those behind it one forward.
LEMMA TakenOut ==
  ASSUME NEW S, NEW s \in Seq(S), NEW n \in 1..Len(s)
  PROVE  /\ RemoveAt(s, n) \in Seq(S) /\ Len(RemoveAt(s, n)) = Len(s) - 1
         /\ \A j \in 1..(Len(s) - 1) : RemoveAt(s, n)[j] = IF j < n THEN s[j] ELSE s[j + 1]
<1> DEFINE x == SubSeq(s, 1, n - 1)
           y == SubSeq(s, n + 1, Len(s))
<1>1. x \in Seq(S) /\ Len(x) = n - 1 /\ \A j \in 1..(n - 1) : x[j] = s[j]
  BY SubSeqProperties
<1>2. y \in Seq(S) /\ Len(y) = Len(s) - n /\ \A j \in 1..(Len(s) - n) : y[j] = s[n + j]
  BY SubSeqProperties
<1>3. RemoveAt(s, n) = x \o y
  BY DEF RemoveAt
<1> HIDE DEF x, y
<1>4. Len(s) \in Nat /\ Len(x) \in Nat /\ Len(y) \in Nat
  BY <1>1, <1>2
<1>5. /\ x \o y \in Seq(S) /\ Len(x \o y) = Len(x) + Len(y)
      /\ \A j \in 1..(Len(x) + Len(y)) : (x \o y)[j] = IF j <= Len(x) THEN x[j] ELSE y[j - Len(x)]
  <2>1. x \in Seq(S) /\ y \in Seq(S)
    BY <1>1, <1>2
  <2> QED BY <2>1, ConcatProperties
<1>6. Len(x) + Len(y) = Len(s) - 1
  BY <1>1, <1>2, <1>4
<1>7. ASSUME NEW j \in 1..(Len(s) - 1)
      PROVE  (x \o y)[j] = IF j < n THEN s[j] ELSE s[j + 1]
  <2>1. CASE j < n
    <3>1. j \in 1..(n - 1) /\ j <= Len(x) /\ j \in 1..(Len(x) + Len(y))
      BY <1>1, <1>4, <1>6, <2>1
    <3>2. (x \o y)[j] = x[j]
      BY <1>5, <3>1
    <3> QED BY <1>1, <2>1, <3>1, <3>2
  <2>2. CASE ~(j < n)
    <3>1. j - (n - 1) \in 1..(Len(s) - n) /\ ~(j <= Len(x)) /\ j \in 1..(Len(x) + Len(y)) /\ j - Len(x) = j - (n - 1)
      BY <1>1, <1>4, <1>6, <2>2
    <3>2. (x \o y)[j] = y[j - (n - 1)]
      BY <1>5, <3>1
    <3>3. n + (j - (n - 1)) = j + 1
      OBVIOUS
    <3>4. y[j - (n - 1)] = s[n + (j - (n - 1))]
      BY <1>2, <3>1
    <3> QED BY <2>2, <3>2, <3>3, <3>4
  <2> QED BY <2>1, <2>2
<1> QED BY <1>3, <1>5, <1>6, <1>7

\* Putting in an element moves those behind it one back.
LEMMA PutIn ==
  ASSUME NEW S, NEW s \in Seq(S), NEW n \in 1..(Len(s) + 1), NEW e \in S
  PROVE  /\ InsertAt(s, n, e) \in Seq(S) /\ Len(InsertAt(s, n, e)) = Len(s) + 1
         /\ \A j \in 1..(Len(s) + 1) :
              InsertAt(s, n, e)[j] = IF j < n THEN s[j] ELSE IF j = n THEN e ELSE s[j - 1]
<1> DEFINE x == SubSeq(s, 1, n - 1)
           y == SubSeq(s, n, Len(s))
<1>1. x \in Seq(S) /\ Len(x) = n - 1 /\ \A j \in 1..(n - 1) : x[j] = s[j]
  BY SubSeqProperties
<1>2. y \in Seq(S) /\ Len(y) = Len(s) - n + 1 /\ \A j \in 1..(Len(s) - n + 1) : y[j] = s[n + j - 1]
  BY SubSeqProperties
<1>3. InsertAt(s, n, e) = (x \o <<e>>) \o y
  BY DEF InsertAt
<1> HIDE DEF x, y
<1>4. x \o <<e>> \in Seq(S) /\ Len(x \o <<e>>) = n
      /\ \A j \in 1..n : (x \o <<e>>)[j] = IF j < n THEN x[j] ELSE e
  BY <1>1
<1> DEFINE z == x \o <<e>>
<1>5. z \in Seq(S) /\ Len(z) = n /\ \A j \in 1..n : z[j] = IF j < n THEN x[j] ELSE e
  BY <1>4
<1> HIDE DEF z
<1>6. /\ z \o y \in Seq(S) /\ Len(z \o y) = Len(s) + 1
      /\ \A j \in 1..(Len(s) + 1) : (z \o y)[j] = IF j <= n THEN z[j] ELSE y[j - n]
  BY <1>2, <1>5
<1>7. InsertAt(s, n, e) = z \o y
  BY <1>3 DEF z
<1>8. ASSUME NEW j \in 1..(Len(s) + 1)
      PROVE  (z \o y)[j] = IF j < n THEN s[j] ELSE IF j = n THEN e ELSE s[j - 1]
  <2>1. CASE j <= n
    BY <1>1, <1>5, <1>6, <2>1
  <2>2. CASE j > n
    <3>1. (z \o y)[j] = y[j - n]
      BY <1>6, <2>2
    <3>2. y[j - n] = s[n + (j - n) - 1]
      BY <1>2, <2>2
    <3> QED BY <2>2, <3>1, <3>2
  <2>3. j <= n \/ j > n
    OBVIOUS
  <2> QED BY <2>1, <2>2, <2>3, Zenon
<1> QED BY <1>6, <1>7, <1>8

Entry == [key : Keys, ptr : Values]
Put(f, k, value) == [j \in DOMAIN f \cup {k} |-> IF j = k THEN value ELSE f[j]]
Without(m, k) == [j \in DOMAIN m \ {k} |-> m[j]]

\* A chain holds each key of its slot that there is once, with its value, and
\* no others.
KeysDiffer(c) == \A i, j \in 1..Len(c) : c[i].key = c[j].key => i = j
Holds(c, s, m) ==
  \A i \in 1..Len(c) : SlotOf[c[i].key] = s /\ c[i].key \in DOMAIN m /\ m[c[i].key] = c[i].ptr
HoldsAll(c, s, m) == \A k \in DOMAIN m : SlotOf[k] = s => \E i \in 1..Len(c) : c[i].key = k
ChainIs(c, s, m) == c \in Seq(Entry) /\ KeysDiffer(c) /\ Holds(c, s, m) /\ HoldsAll(c, s, m)

HashInv ==
  /\ DOMAIN chains = Slots /\ \A s \in Slots : ChainIs(chains[s], s, map)
  /\ chains = [s \in Slots |-> chains[s]]
  /\ DOMAIN map \subseteq Keys /\ IsFiniteSet(DOMAIN map) /\ size = Cardinality(DOMAIN map)

\* The same, for a sequence by any name.
IsPutIn(S, s, n, e, t) ==
  /\ t \in Seq(S) /\ Len(t) = Len(s) + 1
  /\ \A j \in 1..(Len(s) + 1) : t[j] = IF j < n THEN s[j] ELSE IF j = n THEN e ELSE s[j - 1]

LEMMA PutInIs ==
  ASSUME NEW S, NEW s \in Seq(S), NEW n \in 1..(Len(s) + 1), NEW e \in S
  PROVE  IsPutIn(S, s, n, e, InsertAt(s, n, e))
BY PutIn DEF IsPutIn

\* A key is looked for from the beginning of its chain.
LEMMA IndexFinds ==
  ASSUME NEW c \in Seq(Entry), NEW k
  PROVE  \/ IndexIn(c, k) \in 1..Len(c) /\ c[IndexIn(c, k)].key = k
         \/ IndexIn(c, k) = 0 /\ \A i \in 1..Len(c) : c[i].key # k
<1> DEFINE I == {i \in 1..Len(c) : c[i].key = k}
<1>1. IndexIn(c, k) = IF I # {} THEN Min(I) ELSE 0
  BY DEF IndexIn, SelectInSeq
<1>2. CASE I = {}
  BY <1>1, <1>2
<1>3. CASE I # {}
  <2>1. I \in SUBSET Nat
    OBVIOUS
  <2>2. \E n \in I : \A m \in I : n <= m
    BY <1>3, <2>1, Least
  <2>3. Min(I) \in I
    <3> HIDE DEF I
    <3> QED BY <2>2 DEF Min
  <2> QED BY <1>1, <1>3, <2>3
<1> QED BY <1>2, <1>3

\* A change of another key leaves a chain alone.
LEMMA OtherChains ==
  ASSUME NEW c, NEW s, NEW m, ChainIs(c, s, m), NEW k, SlotOf[k] # s, NEW v
  PROVE  ChainIs(c, s, Put(m, k, v)) /\ ChainIs(c, s, Without(m, k))
<1>1. \A i \in 1..Len(c) : c[i].key # k
  BY DEF ChainIs, Holds
<1>2. DOMAIN Put(m, k, v) = DOMAIN m \cup {k} /\ DOMAIN Without(m, k) = DOMAIN m \ {k}
      /\ \A j \in DOMAIN m : j # k => Put(m, k, v)[j] = m[j] /\ Without(m, k)[j] = m[j]
  BY DEF Put, Without
<1>3. Holds(c, s, Put(m, k, v)) /\ Holds(c, s, Without(m, k))
  BY <1>1, <1>2 DEF ChainIs, Holds
<1>4. HoldsAll(c, s, Put(m, k, v)) /\ HoldsAll(c, s, Without(m, k))
  BY <1>2 DEF ChainIs, HoldsAll
<1> QED BY <1>3, <1>4 DEF ChainIs

LEMMA ChainAppends ==
  ASSUME NEW k \in Keys, NEW v \in Values, NEW m, NEW c, ChainIs(c, SlotOf[k], m),
         \A i \in 1..Len(c) : c[i].key # k
  PROVE  ChainIs(Append(c, [key |-> k, ptr |-> v]), SlotOf[k], Put(m, k, v))
<1> DEFINE e == [key |-> k, ptr |-> v]
           d == Append(c, e)
<1>1. e \in Entry /\ e.key = k /\ e.ptr = v
  BY DEF Entry
<1>2. c \in Seq(Entry) /\ KeysDiffer(c) /\ Holds(c, SlotOf[k], m) /\ HoldsAll(c, SlotOf[k], m)
  BY DEF ChainIs
<1> HIDE DEF e
<1>3. d \in Seq(Entry) /\ Len(d) = Len(c) + 1 /\ d[Len(c) + 1] = e /\ \A i \in 1..Len(c) : d[i] = c[i]
  BY <1>1, <1>2
<1> HIDE DEF d
<1>4. DOMAIN Put(m, k, v) = DOMAIN m \cup {k} /\ Put(m, k, v)[k] = v
      /\ \A j \in DOMAIN m : j # k => Put(m, k, v)[j] = m[j]
  BY DEF Put
<1>5. Len(c) \in Nat /\ \A i \in 1..(Len(c) + 1) : i = Len(c) + 1 \/ i \in 1..Len(c)
  BY <1>2
<1>6. KeysDiffer(d)
  <2> SUFFICES ASSUME NEW i \in 1..(Len(c) + 1), NEW j \in 1..(Len(c) + 1), d[i].key = d[j].key
               PROVE  i = j
    BY <1>3 DEF KeysDiffer
  <2>1. CASE i \in 1..Len(c) /\ j \in 1..Len(c)
    BY <1>2, <1>3, <2>1 DEF KeysDiffer
  <2>2. CASE i = Len(c) + 1 /\ j \in 1..Len(c)
    BY <1>1, <1>3, <2>2
  <2>3. CASE i \in 1..Len(c) /\ j = Len(c) + 1
    BY <1>1, <1>3, <2>3
  <2> QED BY <1>5, <2>1, <2>2, <2>3
<1>7. Holds(d, SlotOf[k], Put(m, k, v))
  <2> SUFFICES ASSUME NEW i \in 1..(Len(c) + 1)
               PROVE  /\ SlotOf[d[i].key] = SlotOf[k] /\ d[i].key \in DOMAIN Put(m, k, v)
                      /\ Put(m, k, v)[d[i].key] = d[i].ptr
    BY <1>3 DEF Holds
  <2>1. CASE i = Len(c) + 1
    BY <1>1, <1>3, <1>4, <2>1
  <2>2. CASE i \in 1..Len(c)
    BY <1>2, <1>3, <1>4, <2>2 DEF Holds
  <2> QED BY <1>5, <2>1, <2>2
<1>8. HoldsAll(d, SlotOf[k], Put(m, k, v))
  <2> SUFFICES ASSUME NEW j \in DOMAIN m \cup {k}, SlotOf[j] = SlotOf[k]
               PROVE  \E i \in 1..(Len(c) + 1) : d[i].key = j
    BY <1>3, <1>4 DEF HoldsAll
  <2>1. CASE j = k
    <3>1. d[Len(c) + 1].key = k /\ Len(c) + 1 \in 1..(Len(c) + 1)
      BY <1>1, <1>3, <1>5
    <3> QED BY <2>1, <3>1
  <2>2. CASE j # k
    <3>1. PICK i \in 1..Len(c) : c[i].key = j
      BY <1>2, <2>2 DEF HoldsAll
    <3> QED BY <1>3, <1>5, <3>1
  <2> QED BY <2>1, <2>2
<1> QED BY <1>3, <1>6, <1>7, <1>8 DEF ChainIs, d, e

LEMMA ChainUpdates ==
  ASSUME NEW k \in Keys, NEW v \in Values, NEW m, NEW c, ChainIs(c, SlotOf[k], m),
         NEW n \in 1..Len(c), c[n].key = k
  PROVE  ChainIs([c EXCEPT ![n].ptr = v], SlotOf[k], Put(m, k, v))
<1> DEFINE d == [c EXCEPT ![n].ptr = v]
<1>1. c \in Seq(Entry) /\ KeysDiffer(c) /\ Holds(c, SlotOf[k], m) /\ HoldsAll(c, SlotOf[k], m)
  BY DEF ChainIs
<1>2. \A i \in 1..Len(c) : c[i] \in Entry
  BY <1>1
<1>3. d \in Seq(Entry) /\ Len(d) = Len(c) /\ d[n].ptr = v
      /\ \A i \in 1..Len(c) : d[i].key = c[i].key /\ (i # n => d[i].ptr = c[i].ptr)
  <2> DEFINE e == [c[n] EXCEPT !.ptr = v]
  <2>1. e \in Entry /\ e.key = c[n].key /\ e.ptr = v
    BY <1>2 DEF Entry
  <2>2. d = [c EXCEPT ![n] = e]
    OBVIOUS
  <2> HIDE DEF e, d
  <2>3. d \in Seq(Entry) /\ Len(d) = Len(c) /\ d[n] = e /\ \A i \in 1..Len(c) : i # n => d[i] = c[i]
    BY <1>1, <2>1, <2>2
  <2> QED BY <2>1, <2>3
<1> HIDE DEF d
<1>4. DOMAIN Put(m, k, v) = DOMAIN m \cup {k} /\ Put(m, k, v)[k] = v
      /\ \A j \in DOMAIN m : j # k => Put(m, k, v)[j] = m[j]
  BY DEF Put
<1>5. KeysDiffer(d)
  BY <1>1, <1>3 DEF KeysDiffer
<1>6. Holds(d, SlotOf[k], Put(m, k, v))
  <2> SUFFICES ASSUME NEW i \in 1..Len(c)
               PROVE  /\ SlotOf[d[i].key] = SlotOf[k] /\ d[i].key \in DOMAIN Put(m, k, v)
                      /\ Put(m, k, v)[d[i].key] = d[i].ptr
    BY <1>3 DEF Holds
  <2>1. d[i].key = c[i].key /\ SlotOf[c[i].key] = SlotOf[k] /\ c[i].key \in DOMAIN m /\ m[c[i].key] = c[i].ptr
    BY <1>1, <1>3 DEF Holds
  <2>2. CASE i = n
    BY <1>3, <1>4, <2>1, <2>2
  <2>3. CASE i # n
    <3>1. c[i].key # k
      BY <1>1, <2>3 DEF KeysDiffer
    <3> QED BY <1>3, <1>4, <2>1, <2>3, <3>1
  <2> QED BY <2>2, <2>3
<1>7. HoldsAll(d, SlotOf[k], Put(m, k, v))
  BY <1>1, <1>3, <1>4 DEF HoldsAll
<1> QED BY <1>3, <1>5, <1>6, <1>7 DEF ChainIs, d

LEMMA ChainRemoves ==
  ASSUME NEW k \in Keys, NEW m, NEW c, ChainIs(c, SlotOf[k], m), NEW n \in 1..Len(c), c[n].key = k
  PROVE  ChainIs(RemoveAt(c, n), SlotOf[k], Without(m, k))
<1> DEFINE d == RemoveAt(c, n)
<1>1. c \in Seq(Entry) /\ KeysDiffer(c) /\ Holds(c, SlotOf[k], m) /\ HoldsAll(c, SlotOf[k], m)
  BY DEF ChainIs
<1>2. Len(c) \in Nat
  BY <1>1
<1>3. d \in Seq(Entry) /\ Len(d) = Len(c) - 1
      /\ \A j \in 1..(Len(c) - 1) : d[j] = IF j < n THEN c[j] ELSE c[j + 1]
  BY <1>1, TakenOut
<1> HIDE DEF d
<1> DEFINE Old(j) == IF j < n THEN j ELSE j + 1
<1>4. \A j \in 1..(Len(c) - 1) : Old(j) \in 1..Len(c) /\ Old(j) # n /\ d[j] = c[Old(j)]
  BY <1>2, <1>3
<1>5. \A i, j \in 1..(Len(c) - 1) : Old(i) = Old(j) => i = j
  BY <1>2
<1>6. DOMAIN Without(m, k) = DOMAIN m \ {k} /\ \A j \in DOMAIN m : j # k => Without(m, k)[j] = m[j]
  BY DEF Without
<1>7. KeysDiffer(d)
  <2> SUFFICES ASSUME NEW i \in 1..(Len(c) - 1), NEW j \in 1..(Len(c) - 1), d[i].key = d[j].key
               PROVE  i = j
    BY <1>3 DEF KeysDiffer
  <2>1. Old(i) \in 1..Len(c) /\ Old(j) \in 1..Len(c) /\ c[Old(i)].key = c[Old(j)].key
    BY <1>4
  <2> HIDE DEF Old
  <2>2. Old(i) = Old(j)
    BY <1>1, <2>1 DEF KeysDiffer
  <2> QED BY <1>5, <2>2
<1>8. Holds(d, SlotOf[k], Without(m, k))
  <2> SUFFICES ASSUME NEW i \in 1..(Len(c) - 1)
               PROVE  /\ SlotOf[d[i].key] = SlotOf[k] /\ d[i].key \in DOMAIN Without(m, k)
                      /\ Without(m, k)[d[i].key] = d[i].ptr
    BY <1>3 DEF Holds
  <2> DEFINE o == Old(i)
  <2>1. o \in 1..Len(c) /\ o # n /\ d[i] = c[o]
    BY <1>4
  <2> HIDE DEF o
  <2>2. c[o].key # k
    BY <1>1, <2>1 DEF KeysDiffer
  <2> QED BY <1>1, <1>6, <2>1, <2>2 DEF Holds
<1>9. HoldsAll(d, SlotOf[k], Without(m, k))
  <2> SUFFICES ASSUME NEW j \in DOMAIN m, j # k, SlotOf[j] = SlotOf[k]
               PROVE  \E i \in 1..(Len(c) - 1) : d[i].key = j
    BY <1>3, <1>6 DEF HoldsAll
  <2>1. PICK i \in 1..Len(c) : c[i].key = j
    BY <1>1 DEF HoldsAll
  <2>2. i # n
    BY <2>1
  <2>3. CASE i < n
    <3>1. i \in 1..(Len(c) - 1) /\ d[i] = c[i]
      BY <1>2, <1>3, <2>3
    <3> QED BY <2>1, <3>1
  <2>4. CASE i > n
    <3>1. i - 1 \in 1..(Len(c) - 1) /\ ~(i - 1 < n) /\ (i - 1) + 1 = i
      BY <1>2, <2>4
    <3>2. d[i - 1] = c[i]
      BY <1>3, <3>1
    <3> QED BY <2>1, <3>1, <3>2
  <2>5. i \in Int /\ n \in Int
    OBVIOUS
  <2> QED BY <2>2, <2>3, <2>4, <2>5
<1> QED BY <1>3, <1>7, <1>8, <1>9 DEF ChainIs, d

LEMMA HashStep == HashInv /\ HashNext => HashInv'
<1> SUFFICES ASSUME HashInv, HashNext
             PROVE  HashInv'
  OBVIOUS
<1>1. /\ DOMAIN chains = Slots /\ \A s \in Slots : ChainIs(chains[s], s, map)
      /\ chains = [s \in Slots |-> chains[s]]
      /\ DOMAIN map \subseteq Keys /\ IsFiniteSet(DOMAIN map) /\ size = Cardinality(DOMAIN map)
  BY DEF HashInv
<1>2. ASSUME NEW k \in Keys, HashDelete(k)
      PROVE  HashInv'
  <2> DEFINE s == SlotOf[k]
             i == IndexIn(chains[s], k)
             c == chains[s]
  <2>1. /\ i # 0 /\ chains' = [chains EXCEPT ![s] = RemoveAt(c, i)] /\ size' = size - 1
        /\ map' = Without(map, k)
    BY <1>2 DEF HashDelete, Without
  <2>2. s \in Slots
    BY DEF Slots
  <2>3. ChainIs(c, s, map)
    BY <1>1, <2>2
  <2>4. i \in 1..Len(c) /\ c[i].key = k
    <3>1. c \in Seq(Entry)
      BY <2>3 DEF ChainIs
    <3> QED BY <2>1, <3>1, IndexFinds
  <2>5. ChainIs(RemoveAt(c, i), s, map')
    BY <2>1, <2>3, <2>4, ChainRemoves
  <2>6. k \in DOMAIN map
    BY <2>3, <2>4 DEF ChainIs, Holds
  <2> HIDE DEF s, i, c
  <2>7. \A r \in Slots : r # s => ChainIs(chains[r], r, map')
    BY <1>1, <2>1, OtherChains DEF s
  <2>8. DOMAIN chains' = Slots /\ chains' = [r \in Slots |-> chains'[r]]
        /\ \A r \in Slots : chains'[r] = IF r = s THEN RemoveAt(c, i) ELSE chains[r]
    BY <1>1, <2>1, <2>2
  <2>9. \A r \in Slots : ChainIs(chains'[r], r, map')
    BY <2>5, <2>7, <2>8
  <2>10. DOMAIN map' = DOMAIN map \ {k}
    BY <2>1 DEF Without
  <2>11. IsFiniteSet(DOMAIN map') /\ size' = Cardinality(DOMAIN map')
    BY <1>1, <2>1, <2>6, <2>10, FS_RemoveElement
  <2> QED BY <1>1, <2>8, <2>9, <2>10, <2>11 DEF HashInv, Slots, ChainIs, KeysDiffer, Holds, HoldsAll
<1>3. ASSUME NEW k \in Keys, NEW v \in Values, HashAddOrUpdate(k, v)
      PROVE  HashInv'
  <2> DEFINE s == SlotOf[k]
             i == IndexIn(chains[s], k)
             c == chains[s]
             d == IF i # 0 THEN [c EXCEPT ![i].ptr = v] ELSE Append(c, [key |-> k, ptr |-> v])
  <2>1. /\ chains' = [chains EXCEPT ![s] = d] /\ size' = IF i # 0 THEN size ELSE size + 1
        /\ map' = Put(map, k, v)
    BY <1>3 DEF HashAddOrUpdate, Put
  <2>2. s \in Slots
    BY DEF Slots
  <2>3. ChainIs(c, s, map)
    BY <1>1, <2>2
  <2>4. \/ i # 0 /\ i \in 1..Len(c) /\ c[i].key = k
        \/ i = 0 /\ \A j \in 1..Len(c) : c[j].key # k
    <3>1. c \in Seq(Entry)
      BY <2>3 DEF ChainIs
    <3> QED BY <3>1, IndexFinds
  <2>5. ChainIs(d, s, Put(map, k, v))
    <3>1. CASE i # 0
      BY <2>3, <2>4, <3>1, ChainUpdates
    <3>2. CASE i = 0
      BY <2>3, <2>4, <3>2, ChainAppends
    <3> QED BY <3>1, <3>2
  <2>6. i # 0 <=> k \in DOMAIN map
    BY <2>3, <2>4 DEF ChainIs, Holds, HoldsAll
  <2> HIDE DEF s, i, c, d
  <2>7. \A r \in Slots : r # s => ChainIs(chains[r], r, map')
    BY <1>1, <2>1, OtherChains DEF s
  <2>8. DOMAIN chains' = Slots /\ chains' = [r \in Slots |-> chains'[r]]
        /\ \A r \in Slots : chains'[r] = IF r = s THEN d ELSE chains[r]
    BY <1>1, <2>1, <2>2
  <2>9. \A r \in Slots : ChainIs(chains'[r], r, map')
    BY <2>1, <2>5, <2>7, <2>8
  <2>10. DOMAIN map' = DOMAIN map \cup {k}
    BY <2>1 DEF Put
  <2>11. IsFiniteSet(DOMAIN map') /\ size' = Cardinality(DOMAIN map')
    BY <1>1, <2>1, <2>6, <2>10, FS_AddElement
  <2> QED BY <1>1, <2>8, <2>9, <2>10, <2>11 DEF HashInv, Slots, ChainIs, KeysDiffer, Holds, HoldsAll
<1> QED BY <1>2, <1>3 DEF HashNext

LEMMA HashInits == HashInit => HashInv
<1> SUFFICES ASSUME HashInit
             PROVE  HashInv
  OBVIOUS
<1>1. chains = [s \in Slots |-> <<>>] /\ size = 0 /\ map = <<>>
  BY DEF HashInit
<1>2. DOMAIN <<>> = {}
  OBVIOUS
<1>3. IsFiniteSet(DOMAIN map) /\ size = Cardinality(DOMAIN map) /\ DOMAIN map = {}
  BY <1>1, <1>2, FS_EmptySet
<1>4. \A s \in Slots : ChainIs(chains[s], s, map)
  BY <1>1, <1>3 DEF ChainIs, KeysDiffer, Holds, HoldsAll
<1> QED BY <1>1, <1>3, <1>4 DEF HashInv

LEMMA HashAgrees == HashInv => HashIsFunction
<1> SUFFICES ASSUME HashInv
             PROVE  HashIsFunction
  OBVIOUS
<1>1. ASSUME NEW k \in Keys
      PROVE  HashFind(k) = IF k \in DOMAIN map THEN map[k] ELSE NULL
  <2> DEFINE s == SlotOf[k]
             c == chains[s]
             i == IndexIn(c, k)
  <2>1. s \in Slots
    BY DEF Slots
  <2>2. ChainIs(c, s, map)
    BY <2>1 DEF HashInv
  <2>3. \/ i # 0 /\ i \in 1..Len(c) /\ c[i].key = k
        \/ i = 0 /\ \A j \in 1..Len(c) : c[j].key # k
    <3>1. c \in Seq(Entry)
      BY <2>2 DEF ChainIs
    <3> QED BY <3>1, IndexFinds
  <2>4. HashFind(k) = IF i = 0 THEN NULL ELSE c[i].ptr
    BY DEF HashFind
  <2> HIDE DEF i, c
  <2>5. CASE i # 0
    BY <2>2, <2>3, <2>4, <2>5 DEF ChainIs, Holds
  <2>6. CASE i = 0
    BY <2>2, <2>3, <2>4, <2>6 DEF ChainIs, HoldsAll
  <2> QED BY <2>5, <2>6
<1> QED BY <1>1 DEF HashIsFunction, HashInv
-----------------------------------------------------------------------------
(* The linked list.                                                           *)

Place(s, i) == IF i \in 1..Len(s) THEN s[i] ELSE NULL
Link(before, after) == [prev |-> before, next |-> after]
Once(s) == \A i, j \in 1..Len(s) : s[i] = s[j] => i = j
Linked(h, s) ==
  /\ s \in Seq(Cells) /\ Once(s)
  /\ DOMAIN h = {s[i] : i \in 1..Len(s)}
  /\ \A i \in 1..Len(s) : h[s[i]] = Link(Place(s, i - 1), Place(s, i + 1))

ListInv == Linked(cells, list) /\ head = Place(list, 1) /\ tail = Place(list, Len(list)) /\ count = Len(list)

\* A walk that begins at from and takes the links finds w.
Walks(w, N, way) ==
  \A i \in 1..N : w[i] = IF way = "next" THEN cells[w[i - 1]].next ELSE cells[w[i - 1]].prev

LEMMA WalkFinds ==
  ASSUME NEW N \in Nat, NEW from, NEW way, NEW w, w[0] = from, Walks(w, N, way)
  PROVE  Jump(from, N, way) = w[N]
<1> DEFINE G(f) == [i \in 0..N |-> IF i = 0 THEN from
                      ELSE IF way = "next" THEN cells[f[i - 1]].next ELSE cells[f[i - 1]].prev]
           e == CHOOSE f : f = G(f)
           h == [i \in 0..N |-> w[i]]
<1>1. Jump(from, N, way) = e[N]
  BY DEF Jump
<1>2. h = G(h)
  <2> SUFFICES ASSUME NEW i \in 0..N
               PROVE  h[i] = IF i = 0 THEN from
                             ELSE IF way = "next" THEN cells[h[i - 1]].next ELSE cells[h[i - 1]].prev
    BY Zenon
  <2>1. h[i] = w[i] /\ (i # 0 => i \in 1..N /\ h[i - 1] = w[i - 1])
    OBVIOUS
  <2> QED BY <2>1 DEF Walks
<1>3. e = G(e)
  <2> HIDE DEF G, h
  <2> QED BY <1>2, Zenon
<1>4. e[0] = from /\ \A i \in 1..N : e[i] = IF way = "next" THEN cells[e[i - 1]].next ELSE cells[e[i - 1]].prev
  <2> HIDE DEF e
  <2>1. \A i \in 0..N : e[i] = IF i = 0 THEN from
                               ELSE IF way = "next" THEN cells[e[i - 1]].next ELSE cells[e[i - 1]].prev
    BY <1>3, Zenon
  <2> QED BY <2>1
<1> HIDE DEF e
<1> DEFINE S == {i \in Nat : i <= N => e[i] = w[i]}
<1>5. 0 \in S
  BY <1>4
<1>6. \A i \in Nat : i \in S => i + 1 \in S
  <2> SUFFICES ASSUME NEW i \in S, i + 1 <= N
               PROVE  e[i + 1] = w[i + 1]
    OBVIOUS
  <2>1. e[i] = w[i] /\ i + 1 \in 1..N /\ (i + 1) - 1 = i
    OBVIOUS
  <2> QED BY <1>4, <2>1 DEF Walks
<1> HIDE DEF S
<1>7. N \in S
  BY <1>5, <1>6, Induction
<1> QED BY <1>1, <1>7 DEF S

LEMMA ListAgrees == ListInv => ListIsSequence
<1> SUFFICES ASSUME ListInv
             PROVE  ListIsSequence
  OBVIOUS
<1> DEFINE n == Len(list)
<1>1. /\ list \in Seq(Cells) /\ n \in Nat /\ DOMAIN cells = {list[i] : i \in 1..n}
      /\ head = Place(list, 1) /\ tail = Place(list, n) /\ count = n
  BY DEF ListInv, Linked
<1>2. \A i \in 1..n : cells[list[i]] = Link(Place(list, i - 1), Place(list, i + 1))
  BY DEF ListInv, Linked
<1>3. \A i \in 1..n : cells[list[i]].prev = Place(list, i - 1) /\ cells[list[i]].next = Place(list, i + 1)
  <2>1. \A x, y : Link(x, y).prev = x /\ Link(x, y).next = y
    BY DEF Link
  <2> QED BY <1>2, <2>1
<1>4. \A i \in 1..n : Place(list, i) = list[i]
  BY DEF Place
<1>5. ~(0 \in 1..n) /\ ~(n + 1 \in 1..n)
  BY <1>1
<1>6. Place(list, 0) = NULL /\ Place(list, n + 1) = NULL
  BY <1>5 DEF Place
<1>7. list = <<>> <=> n = 0
  BY <1>1
<1>8. DOMAIN cells = ToSet(list)
  BY <1>1 DEF ToSet
<1>9. head = (IF list = <<>> THEN NULL ELSE list[1]) /\ tail = (IF list = <<>> THEN NULL ELSE list[n])
  BY <1>1, <1>7 DEF Place
<1>10. ASSUME NEW i \in 1..n
       PROVE  Jump(head, i - 1, "next") = list[i]
  <2> DEFINE w == [j \in 0..(i - 1) |-> list[j + 1]]
  <2>1. i - 1 \in Nat /\ 1 \in 1..n
    BY <1>1
  <2>2. w[0] = head /\ w[i - 1] = list[i]
    BY <1>1, <1>4, <2>1
  <2>3. ASSUME NEW j \in 1..(i - 1)
        PROVE  w[j] = IF "next" = "next" THEN cells[w[j - 1]].next ELSE cells[w[j - 1]].prev
    <3>1. j \in 1..n /\ j + 1 \in 1..n /\ w[j] = list[j + 1] /\ w[j - 1] = list[j]
      BY <1>1
    <3> QED BY <1>3, <1>4, <3>1
  <2> HIDE DEF w
  <2>4. Walks(w, i - 1, "next")
    BY <2>3, Zenon DEF Walks
  <2> QED BY <2>1, <2>2, <2>4, WalkFinds, Zenon
<1>11. ASSUME NEW i \in 1..n
       PROVE  Jump(tail, n - i, "prev") = list[i]
  <2> DEFINE w == [j \in 0..(n - i) |-> list[n - j]]
  <2>1. n - i \in Nat /\ n \in 1..n /\ n - 0 = n /\ n - (n - i) = i
    BY <1>1
  <2>2. w[0] = tail /\ w[n - i] = list[i]
    BY <1>1, <1>4, <2>1
  <2>3. ASSUME NEW j \in 1..(n - i)
        PROVE  w[j] = IF "prev" = "next" THEN cells[w[j - 1]].next ELSE cells[w[j - 1]].prev
    <3>1. n - j \in 1..n /\ (n - j) + 1 \in 1..n /\ w[j] = list[n - j] /\ w[j - 1] = list[(n - j) + 1]
          /\ ((n - j) + 1) - 1 = n - j
      BY <1>1
    <3>2. cells[list[(n - j) + 1]].prev = Place(list, ((n - j) + 1) - 1)
      BY <1>3, <3>1
    <3> QED BY <1>4, <3>1, <3>2
  <2> HIDE DEF w
  <2>4. Walks(w, n - i, "prev")
    BY <2>3, Zenon DEF Walks
  <2> QED BY <2>1, <2>2, <2>4, WalkFinds, Zenon
<1>12. ASSUME n # 0
       PROVE  cells[tail].next = NULL /\ cells[head].prev = NULL
  <2>1. 1 \in 1..n /\ n \in 1..n /\ 1 - 1 = 0
    BY <1>1, <1>12
  <2>2. head = list[1] /\ tail = list[n]
    BY <1>1, <1>4, <2>1
  <2>3. cells[list[1]].prev = Place(list, 1 - 1) /\ cells[list[n]].next = Place(list, n + 1)
    BY <1>3, <2>1
  <2> QED BY <1>6, <2>1, <2>2, <2>3
<1> QED BY <1>1, <1>7, <1>8, <1>9, <1>10, <1>11, <1>12 DEF ListIsSequence

IsLink(c) == c = Link(c.prev, c.next)

LEMMA Links == \A x, y : Link(x, y).prev = x /\ Link(x, y).next = y /\ IsLink(Link(x, y))
BY DEF Link, IsLink

\* Setting one link of a cell, or of none.
LEMMA LinkSet ==
  ASSUME NEW h, \A x \in DOMAIN h : x # NULL /\ IsLink(h[x]), NEW b, NEW to
  PROVE  /\ DOMAIN LinkNext(h, b, to) = DOMAIN h /\ DOMAIN LinkPrev(h, b, to) = DOMAIN h
         /\ \A x \in DOMAIN h :
              /\ LinkNext(h, b, to)[x] = Link(h[x].prev, IF x = b THEN to ELSE h[x].next)
              /\ LinkPrev(h, b, to)[x] = Link(IF x = b THEN to ELSE h[x].prev, h[x].next)
<1>1. CASE b = NULL
  BY <1>1 DEF LinkNext, LinkPrev, IsLink
<1>2. CASE b # NULL
  <2>1. LinkNext(h, b, to) = [h EXCEPT ![b].next = to] /\ LinkPrev(h, b, to) = [h EXCEPT ![b].prev = to]
    BY <1>2 DEF LinkNext, LinkPrev
  <2> SUFFICES ASSUME NEW x \in DOMAIN h
               PROVE  /\ [h EXCEPT ![b].next = to][x] = Link(h[x].prev, IF x = b THEN to ELSE h[x].next)
                      /\ [h EXCEPT ![b].prev = to][x] = Link(IF x = b THEN to ELSE h[x].prev, h[x].next)
    BY <2>1
  <2>2. h[x] = [prev |-> h[x].prev, next |-> h[x].next]
    BY DEF IsLink, Link
  <2>3. CASE x = b
    <3> DEFINE p == h[x].prev
               q == h[x].next
    <3>1. h[b] = [prev |-> p, next |-> q]
      BY <2>2, <2>3
    <3> HIDE DEF p, q
    <3>2. [h[b] EXCEPT !.next = to] = [prev |-> p, next |-> to]
          /\ [h[b] EXCEPT !.prev = to] = [prev |-> to, next |-> q]
      BY <3>1
    <3>3. [h EXCEPT ![b].next = to][x] = [h[b] EXCEPT !.next = to]
          /\ [h EXCEPT ![b].prev = to][x] = [h[b] EXCEPT !.prev = to]
      BY <2>3
    <3> QED BY <2>3, <3>2, <3>3 DEF Link, p, q
  <2>4. CASE x # b
    <3>1. [h EXCEPT ![b].next = to][x] = h[x] /\ [h EXCEPT ![b].prev = to][x] = h[x]
      BY <2>4
    <3> QED BY <2>4, <3>1 DEF IsLink
  <2> QED BY <2>3, <2>4
<1> QED BY <1>1, <1>2

\* The cells after n was put in at place p of s.
HasInserted(h, s, n, p, g) ==
  /\ DOMAIN g = DOMAIN h \cup {n}
  /\ g[n] = Link(Place(s, p - 1), Place(s, p))
  /\ \A i \in 1..Len(s) : g[s[i]] = Link(IF i = p THEN n ELSE Place(s, i - 1),
                                         IF i = p - 1 THEN n ELSE Place(s, i + 1))

LEMMA InsertLinked ==
  ASSUME NEW h, NEW s, Linked(h, s), NEW n \in Cells \ DOMAIN h, NEW p \in 1..(Len(s) + 1),
         NEW g, HasInserted(h, s, n, p, g)
  PROVE  Linked(g, InsertAt(s, p, n))
<1> DEFINE t == InsertAt(s, p, n)
<1>1. s \in Seq(Cells) /\ Once(s) /\ Len(s) \in Nat /\ DOMAIN h = {s[i] : i \in 1..Len(s)}
  BY DEF Linked
<1>2. /\ t \in Seq(Cells) /\ Len(t) = Len(s) + 1
      /\ \A j \in 1..(Len(s) + 1) : t[j] = IF j < p THEN s[j] ELSE IF j = p THEN n ELSE s[j - 1]
  <2>1. s \in Seq(Cells) /\ n \in Cells /\ p \in 1..(Len(s) + 1)
    BY <1>1
  <2>2. IsPutIn(Cells, s, p, n, t)
    BY ONLY <2>1, PutInIs, Zenon
  <2> QED BY ONLY <2>2, Zenon DEF IsPutIn
<1> HIDE DEF t
<1>3. \A i \in 1..Len(s) : s[i] # n
  BY <1>1
<1>4. Once(t)
  <2> SUFFICES ASSUME NEW i \in 1..(Len(s) + 1), NEW j \in 1..(Len(s) + 1), t[i] = t[j]
               PROVE  i = j
    BY <1>2 DEF Once
  <2> DEFINE Old(x) == IF x < p THEN x ELSE x - 1
  <2>1. \A x \in 1..(Len(s) + 1) : x # p => Old(x) \in 1..Len(s) /\ t[x] = s[Old(x)]
    BY <1>1, <1>2
  <2>2. \A x, y \in 1..(Len(s) + 1) : x # p /\ y # p /\ Old(x) = Old(y) => x = y
    BY <1>1
  <2> HIDE DEF Old
  <2>3. t[p] = n
    BY <1>2
  <2>4. CASE i = p \/ j = p
    BY <1>3, <2>1, <2>3, <2>4
  <2>5. CASE i # p /\ j # p
    <3>1. Old(i) = Old(j)
      BY <1>1, <2>1, <2>5 DEF Once
    <3> QED BY <2>2, <2>5, <3>1
  <2> QED BY <2>4, <2>5
<1>5. DOMAIN g = {t[i] : i \in 1..Len(t)}
  <2>1. \A x \in DOMAIN g : \E i \in 1..Len(t) : x = t[i]
    <3> SUFFICES ASSUME NEW x \in DOMAIN g
                 PROVE  \E i \in 1..Len(t) : x = t[i]
      OBVIOUS
    <3>1. CASE x = n
      BY <1>2, <3>1
    <3>2. CASE x # n
      <4>1. PICK i \in 1..Len(s) : x = s[i]
        BY <1>1, <3>2 DEF HasInserted
      <4>2. CASE i < p
        <5>1. i \in 1..(Len(s) + 1)
          BY <1>1
        <5> QED BY <1>2, <4>1, <4>2, <5>1
      <4>3. CASE ~(i < p)
        <5>1. i + 1 \in 1..(Len(s) + 1) /\ ~(i + 1 < p) /\ i + 1 # p /\ (i + 1) - 1 = i
          BY <1>1, <4>3
        <5> QED BY <1>2, <4>1, <5>1
      <4> QED BY <4>2, <4>3
    <3> QED BY <3>1, <3>2
  <2>2. \A i \in 1..Len(t) : t[i] \in DOMAIN g
    <3> SUFFICES ASSUME NEW i \in 1..(Len(s) + 1)
                 PROVE  t[i] \in DOMAIN h \cup {n}
      BY <1>2 DEF HasInserted
    <3>1. CASE i < p
      BY <1>1, <1>2, <3>1
    <3>2. CASE i = p
      BY <1>2, <3>2
    <3>3. CASE i > p
      <4>1. i - 1 \in 1..Len(s) /\ t[i] = s[i - 1]
        BY <1>1, <1>2, <3>3
      <4> QED BY <1>1, <4>1
    <3>4. i \in Int /\ p \in Int
      OBVIOUS
    <3> QED BY <3>1, <3>2, <3>3, <3>4
  <2> QED BY <2>1, <2>2
<1>6. \A i \in 1..Len(t) : g[t[i]] = Link(Place(t, i - 1), Place(t, i + 1))
  <2> SUFFICES ASSUME NEW i \in 1..(Len(s) + 1)
               PROVE  g[t[i]] = Link(Place(t, i - 1), Place(t, i + 1))
    BY <1>2
  <2>1. \A x \in Int : Place(t, x) = IF x < p THEN Place(s, x) ELSE IF x = p THEN n ELSE Place(s, x - 1)
    <3> SUFFICES ASSUME NEW x \in Int
                 PROVE  Place(t, x) = IF x < p THEN Place(s, x) ELSE IF x = p THEN n ELSE Place(s, x - 1)
      OBVIOUS
    <3>1. CASE x \in 1..(Len(s) + 1)
      BY <1>1, <1>2, <3>1 DEF Place
    <3>2. CASE ~(x \in 1..(Len(s) + 1))
      BY <1>1, <1>2, <3>2 DEF Place
    <3> QED BY <3>1, <3>2
  <2>2. CASE i = p
    BY <1>2, <2>1, <2>2 DEF HasInserted
  <2>3. CASE i < p
    <3>1. i \in 1..Len(s) /\ t[i] = s[i] /\ i # p
      BY <1>1, <1>2, <2>3
    <3>2. g[s[i]] = Link(Place(s, i - 1), IF i = p - 1 THEN n ELSE Place(s, i + 1))
      BY <3>1 DEF HasInserted
    <3>3. Place(t, i - 1) = Place(s, i - 1)
      BY <2>1, <2>3
    <3>4. Place(t, i + 1) = IF i = p - 1 THEN n ELSE Place(s, i + 1)
      BY <2>1, <2>3
    <3> QED BY <3>1, <3>2, <3>3, <3>4
  <2>4. CASE i > p
    <3> DEFINE o == i - 1
    <3>1. o \in 1..Len(s) /\ t[i] = s[o] /\ o # p - 1
      BY <1>1, <1>2, <2>4
    <3>2. g[s[o]] = Link(IF o = p THEN n ELSE Place(s, o - 1), Place(s, o + 1))
      BY <3>1 DEF HasInserted
    <3>3. Place(t, i - 1) = IF o = p THEN n ELSE Place(s, o - 1)
      BY <2>1, <2>4
    <3>4. Place(t, i + 1) = Place(s, o + 1)
      BY <2>1, <2>4
    <3> QED BY <3>1, <3>2, <3>3, <3>4
  <2>5. i \in Int /\ p \in Int
    OBVIOUS
  <2> QED BY <2>2, <2>3, <2>4, <2>5
<1> QED BY <1>2, <1>4, <1>5, <1>6 DEF Linked, t

\* The cells after that at place p of s was taken out.
HasRemoved(h, s, p, g) ==
  /\ DOMAIN g = DOMAIN h \ {s[p]}
  /\ \A i \in 1..Len(s) : i # p => g[s[i]] = Link(Place(s, IF i = p + 1 THEN p - 1 ELSE i - 1),
                                                  Place(s, IF i = p - 1 THEN p + 1 ELSE i + 1))

LEMMA RemoveLinked ==
  ASSUME NEW h, NEW s, Linked(h, s), NEW p \in 1..Len(s), NEW g, HasRemoved(h, s, p, g)
  PROVE  Linked(g, RemoveAt(s, p))
<1> DEFINE t == RemoveAt(s, p)
           Old(x) == IF x < p THEN x ELSE x + 1
<1>1. s \in Seq(Cells) /\ Once(s) /\ Len(s) \in Nat /\ DOMAIN h = {s[i] : i \in 1..Len(s)}
  BY DEF Linked
<1>2. /\ t \in Seq(Cells) /\ Len(t) = Len(s) - 1
      /\ \A j \in 1..(Len(s) - 1) : t[j] = IF j < p THEN s[j] ELSE s[j + 1]
  <2>1. s \in Seq(Cells) /\ p \in 1..Len(s)
    BY <1>1
  <2> QED BY ONLY <2>1, TakenOut
<1> HIDE DEF t
<1>3. \A x \in 1..(Len(s) - 1) : Old(x) \in 1..Len(s) /\ Old(x) # p /\ t[x] = s[Old(x)]
  BY <1>1, <1>2
<1>4. \A x, y \in 1..(Len(s) - 1) : Old(x) = Old(y) => x = y
  BY <1>1
<1>5. \A i \in 1..Len(s) : i # p => \E x \in 1..(Len(s) - 1) : Old(x) = i
  <2> SUFFICES ASSUME NEW i \in 1..Len(s), i # p
               PROVE  \E x \in 1..(Len(s) - 1) : Old(x) = i
    OBVIOUS
  <2>1. CASE i < p
    <3>1. i \in 1..(Len(s) - 1) /\ Old(i) = i
      BY <1>1, <2>1
    <3> QED BY <3>1
  <2>2. CASE ~(i < p)
    <3>1. i - 1 \in 1..(Len(s) - 1) /\ Old(i - 1) = i
      BY <1>1, <2>2
    <3> QED BY <3>1
  <2> QED BY <2>1, <2>2
<1>6. \A x \in Int : Place(t, x) = Place(s, Old(x))
  <2> SUFFICES ASSUME NEW x \in Int
               PROVE  Place(t, x) = Place(s, Old(x))
    OBVIOUS
  <2>1. CASE x \in 1..(Len(s) - 1)
    <3>1. Place(t, x) = t[x]
      BY <1>2, <2>1 DEF Place
    <3>2. Place(s, Old(x)) = s[Old(x)]
      BY <1>3, <2>1 DEF Place
    <3> QED BY <1>3, <2>1, <3>1, <3>2
  <2>2. CASE ~(x \in 1..(Len(s) - 1))
    <3>1. ~(Old(x) \in 1..Len(s))
      BY <1>1, <2>2
    <3> QED BY <1>2, <2>2, <3>1 DEF Place
  <2> QED BY <2>1, <2>2
<1>7. \A x \in Int : (x = p => Old(x - 1) = p - 1 /\ Old(x) = p + 1)
                     /\ (x > p => Old(x) = x + 1 /\ Old(x - 1) = x /\ Old(x + 1) = x + 2)
                     /\ (x < p => Old(x) = x /\ Old(x - 1) = x - 1
                                  /\ Old(x + 1) = IF x = p - 1 THEN p + 1 ELSE x + 1)
  OBVIOUS
<1> HIDE DEF Old
<1>8. Once(t)
  <2> SUFFICES ASSUME NEW i \in 1..(Len(s) - 1), NEW j \in 1..(Len(s) - 1), t[i] = t[j]
               PROVE  i = j
    BY <1>2 DEF Once
  <2>1. Old(i) = Old(j)
    BY <1>1, <1>3 DEF Once
  <2> QED BY <1>4, <2>1
<1>9. DOMAIN g = {t[i] : i \in 1..Len(t)}
  <2>1. \A i \in 1..Len(t) : t[i] \in DOMAIN g
    BY <1>1, <1>2, <1>3 DEF Once, HasRemoved
  <2>2. \A c \in DOMAIN g : \E i \in 1..Len(t) : c = t[i]
    <3> SUFFICES ASSUME NEW c \in DOMAIN g
                 PROVE  \E i \in 1..Len(t) : c = t[i]
      OBVIOUS
    <3>1. PICK i \in 1..Len(s) : c = s[i] /\ i # p
      BY <1>1 DEF HasRemoved
    <3>2. PICK x \in 1..(Len(s) - 1) : Old(x) = i
      BY <1>5, <3>1
    <3> QED BY <1>2, <1>3, <3>1, <3>2
  <2> QED BY <2>1, <2>2
<1>10. \A i \in 1..Len(t) : g[t[i]] = Link(Place(t, i - 1), Place(t, i + 1))
  <2> SUFFICES ASSUME NEW i \in 1..(Len(s) - 1)
               PROVE  g[t[i]] = Link(Place(t, i - 1), Place(t, i + 1))
    BY <1>2
  <2> DEFINE o == Old(i)
  <2>1. o \in 1..Len(s) /\ o # p /\ t[i] = s[o]
    BY <1>3
  <2>2. g[t[i]] = Link(Place(s, IF o = p + 1 THEN p - 1 ELSE o - 1),
                       Place(s, IF o = p - 1 THEN p + 1 ELSE o + 1))
    BY <2>1 DEF HasRemoved
  <2>3. Place(t, i - 1) = Place(s, Old(i - 1)) /\ Place(t, i + 1) = Place(s, Old(i + 1))
    BY <1>6
  <2>4. Old(i - 1) = (IF o = p + 1 THEN p - 1 ELSE o - 1) /\ Old(i + 1) = IF o = p - 1 THEN p + 1 ELSE o + 1
    <3>1. i \in Int /\ p \in Int
      OBVIOUS
    <3> QED BY <3>1 DEF Old
  <2> QED BY <2>2, <2>3, <2>4
<1> QED BY <1>2, <1>8, <1>9, <1>10 DEF Linked, t

\* What the code finds at a cell: where it is in the list, and its links.
LEMMA CellsFound ==
  ASSUME ListInv, NEW e \in DOMAIN cells
  PROVE  /\ PlaceOf(e) \in 1..Len(list) /\ list[PlaceOf(e)] = e
         /\ cells[e].prev = Place(list, PlaceOf(e) - 1) /\ cells[e].next = Place(list, PlaceOf(e) + 1)
<1>1. \E i \in 1..Len(list) : list[i] = e
  BY DEF ListInv, Linked
<1>2. PlaceOf(e) \in 1..Len(list) /\ list[PlaceOf(e)] = e
  BY <1>1 DEF PlaceOf
<1>3. cells[e] = Link(Place(list, PlaceOf(e) - 1), Place(list, PlaceOf(e) + 1))
  BY <1>2, Zenon DEF ListInv, Linked
<1> QED BY <1>2, <1>3, Links

LEMMA FirstInserted ==
  ASSUME ListInv, count = 0, NEW n \in Cells, InsertFirst(n), count' = count + 1
  PROVE  ListInv'
<1>1. list \in Seq(Cells) /\ Len(list) = 0 /\ DOMAIN cells = {list[i] : i \in 1..Len(list)}
  BY DEF ListInv, Linked
<1>2. DOMAIN cells = {}
  BY <1>1
<1>3. cells' = [x \in {n} |-> Link(NULL, NULL)] /\ head' = n /\ tail' = n /\ list' = <<n>> /\ count' = 1
  BY <1>1, <1>2 DEF InsertFirst, Alloc, Link, ListInv
<1> DEFINE s == <<n>>
<1>4. s \in Seq(Cells) /\ Len(s) = 1 /\ s[1] = n
  OBVIOUS
<1> HIDE DEF s
<1>5. Place(s, 0) = NULL /\ Place(s, 1) = n /\ Place(s, 2) = NULL
  BY <1>4 DEF Place
<1>6. \A i \in 1..Len(s) : i = 1
  BY <1>4
<1>7. Linked(cells', s)
  <2>1. DOMAIN cells' = {s[i] : i \in 1..Len(s)}
    BY <1>3, <1>4
  <2>2. cells'[s[1]] = Link(NULL, NULL)
    BY <1>3, <1>4
  <2>3. \A i \in 1..Len(s) : cells'[s[i]] = Link(Place(s, i - 1), Place(s, i + 1))
    <3>1. 1 - 1 = 0 /\ 1 + 1 = 2
      OBVIOUS
    <3> QED BY <1>5, <1>6, <2>2, <3>1
  <2> QED BY <1>4, <1>6, <2>1, <2>3 DEF Linked, Once
<1>8. list' = s
  BY <1>3 DEF s
<1> QED BY <1>3, <1>4, <1>5, <1>7, <1>8 DEF ListInv, Linked, Once, Place

LEMMA Facts ==
  ASSUME ListInv
  PROVE  /\ list \in Seq(Cells) /\ Len(list) \in Nat /\ count = Len(list) /\ Once(list) /\ Linked(cells, list)
         /\ DOMAIN cells = {list[i] : i \in 1..Len(list)} /\ DOMAIN cells \subseteq Cells
         /\ head = Place(list, 1) /\ tail = Place(list, Len(list))
         /\ \A i \in 1..Len(list) : cells[list[i]] = Link(Place(list, i - 1), Place(list, i + 1))
         /\ \A i \in 1..Len(list) : Place(list, i) = list[i] /\ list[i] # NULL
         /\ \A i \in Int : ~(i \in 1..Len(list)) => Place(list, i) = NULL
BY ContainersAssumption DEF ListInv, Linked, Place

\* A cell is in one place.
LEMMA PlaceIs ==
  ASSUME ListInv, NEW i \in 1..Len(list)
  PROVE  \A j \in Int : list[i] = Place(list, j) <=> i = j
<1> SUFFICES ASSUME NEW j \in Int
             PROVE  list[i] = Place(list, j) <=> i = j
  OBVIOUS
<1>1. list[i] # NULL /\ Once(list)
  BY Facts
<1>2. CASE j \in 1..Len(list)
  <2>1. Place(list, j) = list[j]
    BY <1>2 DEF Place
  <2> QED BY <1>1, <1>2, <2>1 DEF Once
<1>3. CASE ~(j \in 1..Len(list))
  <2>1. Place(list, j) = NULL
    BY <1>3 DEF Place
  <2> QED BY <1>1, <1>3, <2>1
<1> QED BY <1>2, <1>3

\* A cell that was allocated and linked from both sides, with links around it,
\* is inserted: what insert_next and insert_prev do.
LEMMA LinkedIn ==
  ASSUME ListInv, NEW n \in Cells \ DOMAIN cells, NEW p \in 1..(Len(list) + 1), NEW x, NEW y,
         x = Place(list, p - 1), y = Place(list, p)
  PROVE  /\ HasInserted(cells, list, n, p, LinkNext(LinkPrev(Alloc(n, Link(x, y)), y, n), x, n))
         /\ HasInserted(cells, list, n, p, LinkPrev(LinkNext(Alloc(n, Link(x, y)), x, n), y, n))
<1> DEFINE h == Alloc(n, Link(x, y))
           h1 == LinkPrev(h, y, n)
           g1 == LinkNext(h1, x, n)
           h2 == LinkNext(h, x, n)
           g2 == LinkPrev(h2, y, n)
<1>1. DOMAIN h = DOMAIN cells \cup {n} /\ h[n] = Link(x, y) /\ \A c \in DOMAIN cells : h[c] = cells[c]
  BY DEF Alloc
<1> HIDE DEF h, h1, h2, g1, g2
<1>2. \A c \in DOMAIN h : c # NULL /\ IsLink(h[c])
  <2> SUFFICES ASSUME NEW c \in DOMAIN h
               PROVE  c # NULL /\ IsLink(h[c])
    OBVIOUS
  <2>1. c # NULL
    BY <1>1, Facts, ContainersAssumption
  <2>2. CASE c = n
    BY <1>1, <2>1, <2>2, Links
  <2>3. CASE c # n
    <3>1. PICK i \in 1..Len(list) : c = list[i]
      BY <1>1, <2>3, Facts
    <3>2. h[c] = Link(Place(list, i - 1), Place(list, i + 1))
      BY <1>1, <2>3, <3>1, Facts
    <3> QED BY <2>1, <3>2, Links
  <2> QED BY <2>1, <2>2, <2>3
<1>3. DOMAIN h1 = DOMAIN h /\ DOMAIN h2 = DOMAIN h
      /\ \A c \in DOMAIN h : /\ h1[c] = Link(IF c = y THEN n ELSE h[c].prev, h[c].next)
                             /\ h2[c] = Link(h[c].prev, IF c = x THEN n ELSE h[c].next)
  BY <1>2, LinkSet DEF h1, h2
<1>4. \A c \in DOMAIN h : c # NULL /\ IsLink(h1[c]) /\ IsLink(h2[c])
  BY <1>2, <1>3, Links
<1>5. DOMAIN g1 = DOMAIN h
      /\ \A c \in DOMAIN h : g1[c] = Link(h1[c].prev, IF c = x THEN n ELSE h1[c].next)
  BY <1>3, <1>4, LinkSet DEF g1
<1>6. DOMAIN g2 = DOMAIN h
      /\ \A c \in DOMAIN h : g2[c] = Link(IF c = y THEN n ELSE h2[c].prev, h2[c].next)
  BY <1>3, <1>4, LinkSet DEF g2
<1>7. \A c \in DOMAIN h :
        /\ g1[c] = Link(IF c = y THEN n ELSE h[c].prev, IF c = x THEN n ELSE h[c].next)
        /\ g2[c] = Link(IF c = y THEN n ELSE h[c].prev, IF c = x THEN n ELSE h[c].next)
  BY <1>3, <1>5, <1>6, Links
<1>8. x # n /\ y # n
  <2>1. \A i \in Int : Place(list, i) \in DOMAIN cells \cup {NULL}
    BY Facts DEF Place
  <2> QED BY <2>1, ContainersAssumption
<1>9. h[n].prev = x /\ h[n].next = y
  BY <1>1, Links
<1>10. g1[n] = Link(x, y) /\ g2[n] = Link(x, y)
  BY <1>1, <1>7, <1>8, <1>9
<1>11. ASSUME NEW i \in 1..Len(list)
       PROVE  /\ list[i] \in DOMAIN h /\ (list[i] = y <=> i = p) /\ (list[i] = x <=> i = p - 1)
              /\ h[list[i]].prev = Place(list, i - 1) /\ h[list[i]].next = Place(list, i + 1)
  <2>1. list[i] \in DOMAIN cells /\ list[i] # NULL
    BY Facts
  <2>2. h[list[i]] = Link(Place(list, i - 1), Place(list, i + 1))
    BY <1>1, <2>1, Facts
  <2>3. \A j \in Int : list[i] = Place(list, j) <=> i = j
    BY PlaceIs
  <2>4. p \in Int /\ p - 1 \in Int
    OBVIOUS
  <2> QED BY <1>1, <2>1, <2>2, <2>3, <2>4, Links
<1>12. /\ \A i \in 1..Len(list) : g1[list[i]] = Link(IF i = p THEN n ELSE Place(list, i - 1),
                                                     IF i = p - 1 THEN n ELSE Place(list, i + 1))
       /\ \A i \in 1..Len(list) : g2[list[i]] = Link(IF i = p THEN n ELSE Place(list, i - 1),
                                                     IF i = p - 1 THEN n ELSE Place(list, i + 1))
  <2> SUFFICES ASSUME NEW i \in 1..Len(list)
               PROVE  /\ g1[list[i]] = Link(IF i = p THEN n ELSE Place(list, i - 1),
                                            IF i = p - 1 THEN n ELSE Place(list, i + 1))
                      /\ g2[list[i]] = Link(IF i = p THEN n ELSE Place(list, i - 1),
                                            IF i = p - 1 THEN n ELSE Place(list, i + 1))
    BY Zenon
  <2>1. g1[list[i]] = Link(IF list[i] = y THEN n ELSE h[list[i]].prev, IF list[i] = x THEN n ELSE h[list[i]].next)
        /\ g2[list[i]] = Link(IF list[i] = y THEN n ELSE h[list[i]].prev, IF list[i] = x THEN n ELSE h[list[i]].next)
    BY <1>7, <1>11
  <2> QED BY <1>11, <2>1
<1>13. HasInserted(cells, list, n, p, g1)
  BY <1>1, <1>5, <1>10, <1>12 DEF HasInserted
<1>14. HasInserted(cells, list, n, p, g2)
  BY <1>1, <1>6, <1>10, <1>12 DEF HasInserted
<1> QED BY <1>13, <1>14 DEF h, h1, h2, g1, g2

\* The list after an insertion, once its ends are right.
LEMMA Inserted ==
  ASSUME ListInv, NEW n \in Cells \ DOMAIN cells, NEW p \in 1..(Len(list) + 1),
         HasInserted(cells, list, n, p, cells'), list' = InsertAt(list, p, n), count' = count + 1,
         head' = IF p = 1 THEN n ELSE head, tail' = IF p = Len(list) + 1 THEN n ELSE tail, count # 0
  PROVE  ListInv'
<1> DEFINE t == InsertAt(list, p, n)
           g == cells'
<1>1. list \in Seq(Cells) /\ Len(list) \in Nat /\ Len(list) # 0 /\ n \in Cells
  BY Facts
<1>2. Linked(g, t)
  BY InsertLinked, Facts
<1>3. /\ t \in Seq(Cells) /\ Len(t) = Len(list) + 1
      /\ \A j \in 1..(Len(list) + 1) : t[j] = IF j < p THEN list[j] ELSE IF j = p THEN n ELSE list[j - 1]
  <2>1. list \in Seq(Cells) /\ n \in Cells /\ p \in 1..(Len(list) + 1)
    BY <1>1
  <2>2. IsPutIn(Cells, list, p, n, t)
    BY ONLY <2>1, PutInIs, Zenon
  <2> QED BY ONLY <2>2, Zenon DEF IsPutIn
<1> HIDE DEF t, g
<1>4. 1 \in 1..(Len(list) + 1) /\ Len(list) + 1 \in 1..(Len(list) + 1) /\ (Len(list) + 1) - 1 = Len(list)
      /\ 1 \in 1..Len(list) /\ Len(list) \in 1..Len(list)
  BY <1>1
<1>5. Place(t, 1) = t[1] /\ Place(t, Len(t)) = t[Len(list) + 1]
  BY <1>3, <1>4 DEF Place
<1>6. head = list[1] /\ tail = list[Len(list)]
  BY <1>4, Facts
<1>7. t[1] = IF p = 1 THEN n ELSE list[1]
  BY <1>3, <1>4
<1>8. t[Len(list) + 1] = IF p = Len(list) + 1 THEN n ELSE list[Len(list)]
  BY <1>1, <1>3, <1>4
<1>9. head' = Place(t, 1) /\ tail' = Place(t, Len(t)) /\ count' = Len(t)
  BY <1>3, <1>5, <1>6, <1>7, <1>8, Facts
<1>10. list' = t /\ cells' = g
  BY DEF t, g
<1> QED BY <1>2, <1>9, <1>10 DEF ListInv, Linked, Once, Place

LEMMA InsertNextOK == \A given : ListInv /\ InsertNext(given) => ListInv'
<1> SUFFICES ASSUME NEW given, ListInv, InsertNext(given)
             PROVE  ListInv'
  OBVIOUS
<1> DEFINE e == IF given = NULL THEN tail ELSE given
           n == CHOOSE c \in Fresh : TRUE
           p == PlaceOf(e) + 1
           after == cells[e].next
<1>1. n \in Cells \ DOMAIN cells
  BY DEF InsertNext, Fresh
<1>2. count' = count + 1 /\ given \in DOMAIN cells \cup {NULL}
  BY DEF InsertNext
<1>3. CASE count = 0
  <2>1. InsertFirst(n)
    BY <1>3 DEF InsertNext
  <2> HIDE DEF n
  <2> QED BY <1>1, <1>2, <1>3, <2>1, FirstInserted
<1>4. CASE count # 0
  <2>1. /\ cells' = LinkNext(LinkPrev(Alloc(n, Link(e, after)), after, n), e, n)
        /\ tail' = IF after = NULL THEN n ELSE tail
        /\ list' = InsertAt(list, p, n)
        /\ head' = head
    BY <1>4 DEF InsertNext, Link
  <2>2. Len(list) \in 1..Len(list) /\ Len(list) \in Nat
    BY <1>4, Facts
  <2>3. tail = list[Len(list)] /\ tail # NULL /\ tail \in DOMAIN cells
    BY <2>2, Facts
  <2>4. e \in DOMAIN cells
    BY <1>2, <2>3
  <2>5. /\ PlaceOf(e) \in 1..Len(list) /\ list[PlaceOf(e)] = e
        /\ after = Place(list, PlaceOf(e) + 1)
    BY <2>4, CellsFound
  <2> HIDE DEF n, e, after
  <2>6. p \in 1..(Len(list) + 1) /\ p - 1 = PlaceOf(e) /\ p # 1
    BY <2>2, <2>5
  <2>7. e = Place(list, p - 1) /\ after = Place(list, p)
    BY <2>5, <2>6, Facts
  <2>8. after = NULL <=> p = Len(list) + 1
    <3>1. p \in 1..Len(list) \/ (p = Len(list) + 1 /\ ~(p \in 1..Len(list)) /\ p \in Int)
      BY <2>2, <2>6
    <3>2. p \in 1..Len(list) => p # Len(list) + 1
      BY <2>2
    <3> HIDE DEF p
    <3> QED BY <2>7, <3>1, <3>2, Facts
  <2> HIDE DEF p
  <2>9. HasInserted(cells, list, n, p, cells')
    BY <1>1, <2>1, <2>6, <2>7, LinkedIn
  <2> QED BY <1>1, <1>2, <1>4, <2>1, <2>6, <2>8, <2>9, Inserted
<1> QED BY <1>3, <1>4

LEMMA InsertPrevOK == \A given : ListInv /\ InsertPrev(given) => ListInv'
<1> SUFFICES ASSUME NEW given, ListInv, InsertPrev(given)
             PROVE  ListInv'
  OBVIOUS
<1> DEFINE e == IF given = NULL THEN head ELSE given
           n == CHOOSE c \in Fresh : TRUE
           p == PlaceOf(e)
           before == cells[e].prev
<1>1. n \in Cells \ DOMAIN cells
  BY DEF InsertPrev, Fresh
<1>2. count' = count + 1 /\ given \in DOMAIN cells \cup {NULL}
  BY DEF InsertPrev
<1>3. CASE count = 0
  <2>1. InsertFirst(n)
    BY <1>3 DEF InsertPrev
  <2> HIDE DEF n
  <2> QED BY <1>1, <1>2, <1>3, <2>1, FirstInserted
<1>4. CASE count # 0
  <2>1. /\ cells' = LinkPrev(LinkNext(Alloc(n, Link(before, e)), before, n), e, n)
        /\ head' = IF before = NULL THEN n ELSE head
        /\ list' = InsertAt(list, p, n)
        /\ tail' = tail
    BY <1>4 DEF InsertPrev, Link
  <2>2. 1 \in 1..Len(list) /\ Len(list) \in Nat
    BY <1>4, Facts
  <2>3. head = list[1] /\ head # NULL /\ head \in DOMAIN cells
    BY <2>2, Facts
  <2>4. e \in DOMAIN cells
    BY <1>2, <2>3
  <2>5. p \in 1..Len(list) /\ list[p] = e /\ before = Place(list, p - 1)
    BY <2>4, CellsFound
  <2> HIDE DEF n, e, before, p
  <2>6. p \in 1..(Len(list) + 1) /\ p # Len(list) + 1
    BY <2>2, <2>5
  <2>7. e = Place(list, p)
    BY <2>5, Facts
  <2>8. before = NULL <=> p = 1
    <3>1. (p - 1 \in 1..Len(list) /\ p # 1) \/ (p = 1 /\ ~(p - 1 \in 1..Len(list)) /\ p - 1 \in Int)
      BY <2>2, <2>5
    <3> QED BY <2>5, <3>1, Facts
  <2>9. HasInserted(cells, list, n, p, cells')
    BY <1>1, <2>1, <2>5, <2>6, <2>7, LinkedIn
  <2> QED BY <1>1, <1>2, <1>4, <2>1, <2>6, <2>8, <2>9, Inserted
<1> QED BY <1>3, <1>4

LEMMA RemoveCellOK == \A e : ListInv /\ RemoveCell(e) => ListInv'
<1> SUFFICES ASSUME NEW e, ListInv, RemoveCell(e)
             PROVE  ListInv'
  OBVIOUS
<1> DEFINE before == cells[e].prev
           after == cells[e].next
           linked == IF e = head THEN LinkPrev(cells, after, NULL)
                     ELSE LinkPrev(LinkNext(cells, before, after), after, before)
           p == PlaceOf(e)
           n == Len(list)
           g == cells'
           t == RemoveAt(list, p)
<1>1. /\ e \in DOMAIN cells /\ g = [c \in DOMAIN cells \ {e} |-> linked[c]]
      /\ head' = IF e = head THEN after ELSE head
      /\ tail' = IF after = NULL THEN (IF e = head THEN NULL ELSE before) ELSE tail
      /\ list' = t /\ count' = count - 1
  BY DEF RemoveCell
<1>2. p \in 1..n /\ list[p] = e /\ before = Place(list, p - 1) /\ after = Place(list, p + 1) /\ n \in Nat
  BY <1>1, CellsFound, Facts
<1>3. e = head <=> p = 1
  <2>1. 1 \in 1..n
    BY <1>2
  <2>2. head = list[1]
    BY <2>1, Facts
  <2>3. Once(list)
    BY Facts
  <2> HIDE DEF p
  <2> QED BY <1>2, <2>1, <2>2, <2>3 DEF Once
<1> HIDE DEF p, g, before, after
<1>4. \A c \in DOMAIN cells : c # NULL /\ IsLink(cells[c])
  BY Facts, Links
<1>5. DOMAIN linked = DOMAIN cells
      /\ \A c \in DOMAIN cells : linked[c] = Link(IF c = after THEN before ELSE cells[c].prev,
                                                  IF c = before THEN after ELSE cells[c].next)
  <2>1. CASE e = head
    <3>1. before = NULL
      <4>1. p - 1 = 0 /\ ~(0 \in 1..n) /\ 0 \in Int
        BY <1>3, <2>1
      <4> HIDE DEF n
      <4> QED BY <1>2, <4>1, Facts DEF n
    <3>2. linked = LinkPrev(cells, after, before)
      BY <2>1, <3>1
    <3> HIDE DEF linked
    <3> QED BY <1>4, <3>1, <3>2, LinkSet
  <2>2. CASE e # head
    <3> DEFINE h == LinkNext(cells, before, after)
    <3>1. DOMAIN h = DOMAIN cells
          /\ \A c \in DOMAIN cells : h[c] = Link(cells[c].prev, IF c = before THEN after ELSE cells[c].next)
      BY <1>4, LinkSet
    <3> HIDE DEF h
    <3>2. \A c \in DOMAIN h : c # NULL /\ IsLink(h[c])
      BY <1>4, <3>1, Links
    <3>3. linked = LinkPrev(h, after, before)
      BY <2>2 DEF h
    <3> HIDE DEF linked
    <3>4. DOMAIN linked = DOMAIN h
          /\ \A c \in DOMAIN h : linked[c] = Link(IF c = after THEN before ELSE h[c].prev, h[c].next)
      BY <3>2, <3>3, LinkSet
    <3> QED BY <3>1, <3>4, Links
  <2> QED BY <2>1, <2>2
<1> HIDE DEF linked
<1>6. ASSUME NEW i \in 1..n, i # p
      PROVE  g[list[i]] = Link(Place(list, IF i = p + 1 THEN p - 1 ELSE i - 1),
                               Place(list, IF i = p - 1 THEN p + 1 ELSE i + 1))
  <2>1. list[i] \in DOMAIN cells /\ list[i] # e
    BY <1>2, <1>6, Facts DEF Once
  <2>2. \A j \in Int : list[i] = Place(list, j) <=> i = j
    BY PlaceIs
  <2>3. (list[i] = after <=> i = p + 1) /\ (list[i] = before <=> i = p - 1)
    <3>1. p + 1 \in Int /\ p - 1 \in Int
      BY <1>2
    <3> QED BY <1>2, <2>2, <3>1
  <2>4. cells[list[i]].prev = Place(list, i - 1) /\ cells[list[i]].next = Place(list, i + 1)
    <3>1. cells[list[i]] = Link(Place(list, i - 1), Place(list, i + 1))
      BY Facts
    <3> QED BY <3>1, Links
  <2>5. g[list[i]] = linked[list[i]]
    BY <1>1, <2>1
  <2>6. linked[list[i]] = Link(IF list[i] = after THEN before ELSE cells[list[i]].prev,
                               IF list[i] = before THEN after ELSE cells[list[i]].next)
    BY <1>5, <2>1
  <2> QED BY <1>2, <2>3, <2>4, <2>5, <2>6
<1>7. HasRemoved(cells, list, p, g)
  BY <1>1, <1>2, <1>6 DEF HasRemoved
<1>8. Linked(g, t)
  BY <1>2, <1>7, RemoveLinked, Facts
<1>9. Len(t) = n - 1 /\ \A j \in 1..(n - 1) : t[j] = IF j < p THEN list[j] ELSE list[j + 1]
  <2>1. list \in Seq(Cells) /\ p \in 1..Len(list)
    BY <1>2, Facts
  <2> QED BY ONLY <2>1, TakenOut
<1> HIDE DEF t
<1>10. head' = Place(t, 1)
  <2>1. CASE p = 1
    <3>1. head' = Place(list, 2)
      BY <1>1, <1>2, <1>3, <2>1
    <3>2. Place(list, 2) = Place(t, 1)
      BY <1>2, <1>9, <2>1 DEF Place
    <3> QED BY <3>1, <3>2
  <2>2. CASE p # 1
    <3>1. head' = Place(list, 1)
      BY <1>1, <1>3, <2>2, Facts
    <3>2. Place(list, 1) = Place(t, 1)
      BY <1>2, <1>9, <2>2 DEF Place
    <3> QED BY <3>1, <3>2
  <2> QED BY <2>1, <2>2
<1>11. after = NULL <=> p = n
  <2>1. (p + 1 \in 1..n /\ p # n) \/ (p = n /\ ~(p + 1 \in 1..n) /\ p + 1 \in Int)
    BY <1>2
  <2> QED BY <1>2, <2>1, Facts
<1>12. tail' = Place(t, Len(t))
  <2>1. CASE p # n
    <3>1. tail' = Place(list, n)
      BY <1>1, <1>11, <2>1, Facts
    <3>2. Place(list, n) = Place(t, n - 1)
      BY <1>2, <1>9, <2>1 DEF Place
    <3> QED BY <1>9, <3>1, <3>2
  <2>2. CASE p = n /\ p = 1
    <3>1. tail' = NULL
      BY <1>1, <1>3, <1>11, <2>2
    <3>2. Place(t, Len(t)) = NULL
      BY <1>9, <2>2 DEF Place
    <3> QED BY <3>1, <3>2
  <2>3. CASE p = n /\ p # 1
    <3>1. tail' = Place(list, n - 1)
      BY <1>1, <1>2, <1>3, <1>11, <2>3
    <3>2. Place(list, n - 1) = Place(t, n - 1)
      BY <1>2, <1>9, <2>3 DEF Place
    <3> QED BY <1>9, <3>1, <3>2
  <2> QED BY <2>1, <2>2, <2>3
<1>13. count' = Len(t)
  BY <1>1, <1>9, Facts
<1>14. list' = t /\ cells' = g
  BY <1>1 DEF g
<1> QED BY <1>8, <1>10, <1>12, <1>13, <1>14 DEF ListInv, Linked, Once, Place

LEMMA ListStep == ListInv /\ ListNext => ListInv'
BY InsertNextOK, InsertPrevOK, RemoveCellOK, Zenon DEF ListNext

LEMMA ListInits == ListInit => ListInv
<1> SUFFICES ASSUME ListInit
             PROVE  ListInv
  OBVIOUS
<1>1. cells = <<>> /\ head = NULL /\ tail = NULL /\ count = 0 /\ list = <<>>
  BY DEF ListInit
<1>2. Len(<<>>) = 0 /\ DOMAIN <<>> = {} /\ <<>> \in Seq(Cells)
  OBVIOUS
<1>3. \A i \in Int : ~(i \in 1..0)
  OBVIOUS
<1> QED BY <1>1, <1>2, <1>3 DEF ListInv, Linked, Once, Place
-----------------------------------------------------------------------------
(* All of them.                                                               *)

ContainersInv == ListInv /\ HashInv /\ SetInv /\ StrInv
containersVars == <<listVars, hashVars, setVars, strVars>>

LEMMA ContainersKept ==
  /\ ListInv /\ UNCHANGED listVars => ListInv'
  /\ HashInv /\ UNCHANGED hashVars => HashInv'
  /\ SetInv /\ UNCHANGED setVars => SetInv'
  /\ StrInv /\ UNCHANGED strVars => StrInv'
<1>1. ListInv /\ UNCHANGED listVars => ListInv'
  BY DEF listVars, ListInv, Linked, Once, Place
<1>2. HashInv /\ UNCHANGED hashVars => HashInv'
  BY DEF hashVars, HashInv
<1>3. SetInv /\ UNCHANGED setVars => SetInv'
  BY DEF setVars, SetInv, MarksAre
<1>4. StrInv /\ UNCHANGED strVars => StrInv'
  BY DEF strVars, StrInv, StrFits
<1> QED BY <1>1, <1>2, <1>3, <1>4

\* The list is the same walked from either end, a key of the hash is found with
\* the value given last, a set has what was added and not removed, and nothing is
\* written past what a string has allocated, after any calls of llist.c, hash.c,
\* set.c and str.c, whatever is kept in them.
THEOREM ContainersAreRight == ContainersSpec => []ContainersAgree
<1>1. ContainersInit => ContainersInv
  BY ListInits, HashInits, SetInits, StrInits, Zenon DEF ContainersInit, ContainersInv
<1>2. ContainersInv /\ [ContainersNext]_containersVars => ContainersInv'
  BY ListStep, HashStep, SetStep, StrStep, ContainersKept, Zenon
     DEF ContainersInv, ContainersNext, containersVars
<1>3. ContainersInv => ContainersAgree
  BY ListAgrees, HashAgrees, SetAgrees, Zenon DEF ContainersInv, ContainersAgree, StrInv
<1> QED BY <1>1, <1>2, <1>3, PTL DEF ContainersSpec, containersVars
-----------------------------------------------------------------------------
(* Looking names up.  What earlier commands left behind may be anything; what *)
(* matters is that an entry knows the data of the call before it, and that    *)
(* only the last of the commands that read can rely on what is active.        *)

CallsOfPHP == [data: Nat, table: Int, byPHP: BOOLEAN]
EntriesOfStack == [call: Nat, execute_data: Int, symbol_table: Int]
FramesAsked == [data: Nat, table: Int, hidden: BOOLEAN]
ReadingCommands == {"property_get", "property_value", "context_get"}
CommandsReading ==
  [command: ReadingCommands, context: Context, asked: FramesAsked, old_max_data: Int, level: Nat, disturbed: BOOLEAN]
ActivePlaces == [data: Int, entry: Int, table: Int]

InspectionTypeOK ==
  /\ engine \in Seq(CallsOfPHP) /\ stack \in Seq(EntriesOfStack) /\ calls \in Nat
  /\ active \in ActivePlaces /\ max_data \in Int
  /\ reading \in Seq(CommandsReading)

\* The entries are those of the calls that run.
StackMatches ==
  /\ Len(stack) = Len(engine) /\ Len(engine) > 0
  /\ \A i \in 1..Len(engine) :
       /\ stack[i].call = engine[i].data
       /\ stack[i].symbol_table \in {None, engine[i].table}
       /\ i > 1 => stack[i].execute_data = IF engine[i].byPHP THEN NoFunction ELSE engine[i - 1].data

\* Every command but the last has been interrupted; the last finds active what
\* fits it until it is.
ActiveFitsTheLast ==
  \A i \in 1..Len(reading) :
    \/ reading[i].disturbed
    \/ i = Len(reading) /\ RightPlaces(reading[i].command, reading[i].context, reading[i].asked, active)

\* The first command that puts a size back puts back the one that was wanted.
SizeComesBack ==
  /\ ~PropertyIsRead => max_data = wanted
  /\ \A i \in 1..Len(reading) :
       reading[i].command # "context_get" /\ (\A j \in 1..(i - 1) : reading[j].command = "context_get")
         => reading[i].old_max_data = wanted

LookupFits == ~lookup.disturbed => RightPlaces(lookup.command, lookup.context, lookup.asked, lookup.in)

InspectionInv == InspectionTypeOK /\ StackMatches /\ ActiveFitsTheLast /\ SizeComesBack /\ LookupFits

\* Lookups of nothing are right.
LEMMA NothingLookedUp == ASSUME lookup' = NoLookup PROVE LookupFits'
BY DEF LookupFits, RightPlaces, NoLookup

\* The calls are told apart by their place.
LEMMA PlacesOfCalls ==
  ASSUME InspectionTypeOK, StackMatches
  PROVE  /\ Len(engine) \in Nat /\ Len(stack) \in Nat /\ Len(reading) \in Nat
         /\ \A i \in 1..Len(engine) : engine[i] \in CallsOfPHP /\ stack[i] \in EntriesOfStack
         /\ Last(engine) = engine[Len(engine)]
<1>1. Len(engine) \in Nat /\ Len(stack) \in Nat /\ Len(reading) \in Nat
  BY LenProperties DEF InspectionTypeOK
<1>2. \A i \in 1..Len(engine) : engine[i] \in CallsOfPHP /\ stack[i] \in EntriesOfStack
  BY <1>1, ElementOfSeq DEF InspectionTypeOK, StackMatches
<1> QED BY <1>1, <1>2 DEF Last

LEMMA RecordsOfCalls ==
  /\ \A d \in Nat, t \in Int, b \in BOOLEAN : [data |-> d, table |-> t, byPHP |-> b] \in CallsOfPHP
  /\ \A d \in Nat, t \in Int, b \in BOOLEAN : [data |-> d, table |-> t, hidden |-> b] \in FramesAsked
BY DEF CallsOfPHP, FramesAsked

LEMMA InterruptedIs ==
  ASSUME NEW commands \in Seq(CommandsReading)
  PROVE  /\ Interrupted(commands) \in Seq(CommandsReading) /\ Len(Interrupted(commands)) = Len(commands)
         /\ \A i \in 1..Len(commands) :
              /\ Interrupted(commands)[i].disturbed
              /\ Interrupted(commands)[i].command = commands[i].command
              /\ Interrupted(commands)[i].old_max_data = commands[i].old_max_data
<1> DEFINE n == Len(commands)
           then == [i \in 1..n |-> [commands[i] EXCEPT !.disturbed = TRUE]]
<1>1. n \in Nat /\ DOMAIN commands = 1..n /\ \A i \in 1..n : commands[i] \in CommandsReading
  BY LenProperties, ElementOfSeq
<1>2. Interrupted(commands) = then
  BY <1>1, Zenon DEF Interrupted
<1>3. \A i \in 1..n : /\ then[i] \in CommandsReading /\ then[i].disturbed
                      /\ then[i].command = commands[i].command
                      /\ then[i].old_max_data = commands[i].old_max_data
  BY <1>1 DEF CommandsReading
<1> HIDE DEF n
<1>4. then \in Seq(CommandsReading) /\ Len(then) = n
  BY <1>1, <1>3
<1> QED BY <1>2, <1>3, <1>4 DEF n

\* What was fit stays fit when the last command has been interrupted.
LEMMA InterruptedFits ==
  ASSUME InspectionInv, reading' = Interrupted(reading), wanted' = wanted
  PROVE  /\ reading' \in Seq(CommandsReading) /\ ActiveFitsTheLast'
         /\ max_data' = max_data => SizeComesBack'
<1>1. /\ reading' \in Seq(CommandsReading) /\ Len(reading') = Len(reading) /\ Len(reading) \in Nat
      /\ \A i \in 1..Len(reading) : /\ reading'[i].disturbed
                                    /\ reading'[i].command = reading[i].command
                                    /\ reading'[i].old_max_data = reading[i].old_max_data
  BY InterruptedIs, LenProperties DEF InspectionInv, InspectionTypeOK
<1>2. DOMAIN reading = 1..Len(reading) /\ DOMAIN reading' = 1..Len(reading)
  BY <1>1, LenProperties DEF InspectionInv, InspectionTypeOK
<1>3. ActiveFitsTheLast'
  BY <1>1 DEF ActiveFitsTheLast
<1>4. PropertyIsRead' <=> PropertyIsRead
  BY <1>1, <1>2 DEF PropertyIsRead
<1>5. max_data' = max_data => SizeComesBack'
  BY <1>1, <1>4 DEF InspectionInv, SizeComesBack
<1> QED BY <1>1, <1>3, <1>5
-----------------------------------------------------------------------------
\* The frame of a depth, as its entry and that of the call it made tell it.
LEMMA FrameIsAsked ==
  ASSUME InspectionTypeOK, StackMatches, NEW depth, IsDepth(depth)
  PROVE  /\ FrameAsked("locals", depth) \in FramesAsked
         /\ EntryAt(depth) \in EntriesOfStack /\ DataAt(depth) \in Int
         /\ EntryAt(depth).call = FrameAsked("locals", depth).data
         /\ EntryAt(depth).symbol_table \in {None, FrameAsked("locals", depth).table}
         /\ DataAt(depth) = IF FrameAsked("locals", depth).hidden THEN NoFunction
                            ELSE FrameAsked("locals", depth).data
<1> DEFINE n == Len(engine)
           i == n - depth
<1>1. /\ n \in Nat /\ n > 0 /\ Len(stack) = n /\ Last(engine) = engine[n]
      /\ \A j \in 1..n : engine[j] \in CallsOfPHP /\ stack[j] \in EntriesOfStack
  BY PlacesOfCalls DEF StackMatches
<1>2. depth \in Int /\ depth >= 0 /\ i \in 1..n /\ (depth > 0 => i + 1 \in 2..n /\ n - (depth - 1) = i + 1)
  BY <1>1 DEF IsDepth
<1>3. /\ stack[i].call = engine[i].data /\ stack[i].symbol_table \in {None, engine[i].table}
      /\ depth > 0 => stack[i + 1].execute_data = IF engine[i + 1].byPHP THEN NoFunction ELSE engine[i].data
  <2>1. depth > 0 => i + 1 \in 1..n /\ i + 1 > 1 /\ i + 1 - 1 = i
    BY <1>1, <1>2
  <2>2. \A j \in 1..n :
          /\ stack[j].call = engine[j].data /\ stack[j].symbol_table \in {None, engine[j].table}
          /\ j > 1 => stack[j].execute_data = IF engine[j].byPHP THEN NoFunction ELSE engine[j - 1].data
    BY DEF StackMatches
  <2> HIDE DEF i, n
  <2>3. ASSUME depth > 0
        PROVE  stack[i + 1].execute_data = IF engine[i + 1].byPHP THEN NoFunction ELSE engine[i].data
    <3> DEFINE k == i + 1
    <3>1. k \in 1..n /\ k > 1 /\ k - 1 = i
      BY <1>1, <1>2, <2>1, <2>3
    <3> HIDE DEF k
    <3>2. stack[k].execute_data = IF engine[k].byPHP THEN NoFunction ELSE engine[k - 1].data
      BY <2>2, <3>1
    <3> QED BY <3>1, <3>2 DEF k
  <2> QED BY <1>2, <2>2, <2>3
<1>4. /\ EntryAt(depth) = stack[i]
      /\ FrameAsked("locals", depth) =
           [data |-> engine[i].data, table |-> engine[i].table,
            hidden |-> depth > 0 /\ engine[i + 1].byPHP]
  BY <1>1 DEF EntryAt, FrameAsked
<1>5. DataAt(depth) = IF depth > 0 THEN stack[i + 1].execute_data ELSE engine[n].data
  BY <1>1, <1>2 DEF DataAt, EntryAt
<1>6. depth = 0 => engine[n].data = engine[i].data
  BY <1>1, <1>2
<1> HIDE DEF i, n
<1>7. engine[i] \in CallsOfPHP /\ stack[i] \in EntriesOfStack
      /\ (depth > 0 => engine[i + 1] \in CallsOfPHP /\ stack[i + 1] \in EntriesOfStack)
  <2>1. depth > 0 => i + 1 \in 1..n
    BY <1>1, <1>2
  <2> QED BY <1>1, <1>2, <2>1
<1>8. FrameAsked("locals", depth) \in FramesAsked
  <2>1. engine[i].data \in Nat /\ engine[i].table \in Int
    BY <1>7 DEF CallsOfPHP
  <2>2. (depth > 0 /\ engine[i + 1].byPHP) \in BOOLEAN
    BY <1>2, <1>7 DEF CallsOfPHP
  <2> QED BY <1>4, <2>1, <2>2, RecordsOfCalls, Zenon
<1>9. DataAt(depth) \in Int /\ DataAt(depth) = IF depth > 0 /\ engine[i + 1].byPHP THEN NoFunction ELSE engine[i].data
  BY <1>2, <1>3, <1>5, <1>6, <1>7 DEF CallsOfPHP, NoFunction
<1>10. /\ FrameAsked("locals", depth).data = engine[i].data
       /\ FrameAsked("locals", depth).table = engine[i].table
       /\ FrameAsked("locals", depth).hidden = (depth > 0 /\ engine[i + 1].byPHP)
  BY <1>4
<1>11. DataAt(depth) = IF FrameAsked("locals", depth).hidden THEN NoFunction
                       ELSE FrameAsked("locals", depth).data
  BY <1>9, <1>10, Zenon
<1> QED BY <1>3, <1>4, <1>7, <1>8, <1>9, <1>10, <1>11

\* A command about one name makes active what fits it.
LEMMA ActivatedFits ==
  ASSUME InspectionTypeOK, StackMatches, NEW command, command # "context_get",
         NEW context \in Context, NEW depth, context = "locals" => IsDepth(depth)
  PROVE  /\ Activated(context, depth) \in ActivePlaces /\ FrameAsked(context, depth) \in FramesAsked
         /\ RightPlaces(command, context, FrameAsked(context, depth), Activated(context, depth))
<1>1. CASE context = "locals"
  <2>1. Activated(context, depth) =
          [data |-> DataAt(depth), entry |-> EntryAt(depth).call, table |-> EntryAt(depth).symbol_table]
    BY <1>1, Zenon DEF Activated
  <2>2. EntryAt(depth).call \in Int /\ EntryAt(depth).symbol_table \in Int
    BY <1>1, FrameIsAsked DEF EntriesOfStack
  <2> QED BY <1>1, <2>1, <2>2, FrameIsAsked DEF ActivePlaces, RightPlaces
<1>2. CASE context = "superglobals"
  <2>1. Activated(context, depth) = [active EXCEPT !.table = Globals]
    BY <1>2, Zenon DEF Activated
  <2>2. FrameAsked(context, depth) = NoFrame
    BY <1>2 DEF FrameAsked
  <2>3. NoFrame \in FramesAsked
    BY DEF NoFrame, FramesAsked, None
  <2>4. /\ Activated(context, depth) \in ActivePlaces /\ Activated(context, depth).table = Globals
    BY <2>1 DEF InspectionTypeOK, ActivePlaces, Globals
  <2> QED BY <1>2, <2>2, <2>3, <2>4 DEF RightPlaces
<1>3. CASE context = "constants"
  <2>1. Activated(context, depth) = active
    BY <1>3, Zenon DEF Activated
  <2>2. FrameAsked(context, depth) = NoFrame /\ NoFrame \in FramesAsked
    BY <1>3 DEF FrameAsked, NoFrame, FramesAsked, None
  <2> QED BY <1>3, <2>1, <2>2 DEF InspectionTypeOK, RightPlaces
<1> QED BY <1>1, <1>2, <1>3 DEF Context
-----------------------------------------------------------------------------
\* Commands leave the program where it is.
LEMMA ProgramStays ==
  ASSUME InspectionInv, UNCHANGED <<engine, stack, calls>>, active' \in ActivePlaces, max_data' \in Int,
         reading' \in Seq(CommandsReading), ActiveFitsTheLast', SizeComesBack', LookupFits'
  PROVE  InspectionInv'
BY DEF InspectionInv, InspectionTypeOK, StackMatches

\* Steps of the program leave the commands where they are.
LEMMA CommandsStay ==
  ASSUME InspectionInv, UNCHANGED <<active, max_data, wanted, reading>>, lookup' = NoLookup,
         engine' \in Seq(CallsOfPHP), stack' \in Seq(EntriesOfStack), calls' \in Nat, StackMatches'
  PROVE  InspectionInv'
BY NothingLookedUp
   DEF InspectionInv, InspectionTypeOK, ActiveFitsTheLast, SizeComesBack, PropertyIsRead

LEMMA CallSteps ==
  ASSUME InspectionInv, Call
  PROVE  InspectionInv'
<1> DEFINE n == Len(engine)
<1>1. PICK includes \in BOOLEAN, byPHP \in BOOLEAN :
        /\ calls' = calls + 1
        /\ engine' = Append(engine, [data |-> calls', byPHP |-> byPHP,
                                     table |-> IF includes THEN Last(engine).table ELSE None])
        /\ stack' = Append(stack, [call |-> calls',
                                   symbol_table |-> IF includes THEN Last(engine).table ELSE None,
                                   execute_data |-> IF byPHP THEN NoFunction ELSE Last(engine).data])
  BY DEF Call
<1>2. /\ n \in Nat /\ n > 0 /\ Len(stack) = n /\ Last(engine) = engine[n] /\ engine[n] \in CallsOfPHP
      /\ engine \in Seq(CallsOfPHP) /\ stack \in Seq(EntriesOfStack) /\ calls \in Nat
  BY PlacesOfCalls DEF InspectionInv, InspectionTypeOK, StackMatches
<1> HIDE DEF n
<1> DEFINE table == IF includes THEN engine[n].table ELSE None
           frame == [data |-> calls', table |-> table, byPHP |-> byPHP]
           entry == [call |-> calls', symbol_table |-> table,
                     execute_data |-> IF byPHP THEN NoFunction ELSE engine[n].data]
<1>3. calls' \in Nat /\ frame \in CallsOfPHP /\ entry \in EntriesOfStack
  <2>1. calls' \in Nat /\ engine[n].data \in Nat /\ table \in Int
    BY <1>1, <1>2 DEF CallsOfPHP, None
  <2>2. (IF byPHP THEN NoFunction ELSE engine[n].data) \in Int
    BY <2>1 DEF NoFunction
  <2> HIDE DEF table
  <2> QED BY <2>1, <2>2, RecordsOfCalls DEF EntriesOfStack
<1>4. engine' = Append(engine, frame) /\ stack' = Append(stack, entry)
  BY <1>1, <1>2
<1>5. frame.data = calls' /\ frame.table = table /\ frame.byPHP = byPHP
      /\ entry.call = calls' /\ entry.symbol_table = table
      /\ entry.execute_data = IF byPHP THEN NoFunction ELSE engine[n].data
  OBVIOUS
<1> HIDE DEF frame, entry, table
<1>6. /\ engine' \in Seq(CallsOfPHP) /\ Len(engine') = n + 1 /\ engine'[n + 1] = frame
      /\ stack' \in Seq(EntriesOfStack) /\ Len(stack') = n + 1 /\ stack'[n + 1] = entry
      /\ \A i \in 1..n : engine'[i] = engine[i] /\ stack'[i] = stack[i]
  BY <1>2, <1>3, <1>4, AppendProperties DEF n
<1>7. StackMatches'
  <2>1. Len(stack') = Len(engine') /\ Len(engine') > 0
    BY <1>2, <1>6
  <2>2. ASSUME NEW i \in 1..n
        PROVE  /\ stack'[i].call = engine'[i].data
               /\ stack'[i].symbol_table \in {None, engine'[i].table}
               /\ i > 1 => stack'[i].execute_data = IF engine'[i].byPHP THEN NoFunction ELSE engine'[i - 1].data
    <3>1. i > 1 => i - 1 \in 1..n
      BY <1>2
    <3> QED BY <1>6, <3>1 DEF InspectionInv, StackMatches, n
  <2>3. /\ stack'[n + 1].call = engine'[n + 1].data
        /\ stack'[n + 1].symbol_table \in {None, engine'[n + 1].table}
        /\ stack'[n + 1].execute_data = IF engine'[n + 1].byPHP THEN NoFunction ELSE engine'[n].data
    BY <1>2, <1>5, <1>6
  <2>4. ASSUME NEW i \in 1..Len(engine')
        PROVE  /\ stack'[i].call = engine'[i].data
               /\ stack'[i].symbol_table \in {None, engine'[i].table}
               /\ i > 1 => stack'[i].execute_data = IF engine'[i].byPHP THEN NoFunction ELSE engine'[i - 1].data
    <3>1. i \in 1..n \/ (i = n + 1 /\ i - 1 = n)
      BY <1>2, <1>6
    <3>2. CASE i \in 1..n
      BY <2>2, <3>2
    <3>3. CASE i = n + 1 /\ i - 1 = n
      BY <2>3, <3>3
    <3> QED BY <3>1, <3>2, <3>3
  <2> QED BY <2>1, <2>4 DEF StackMatches
<1> QED BY <1>3, <1>6, <1>7, CommandsStay DEF Call

LEMMA TableSteps ==
  ASSUME InspectionInv, BuildTable
  PROVE  InspectionInv'
<1> DEFINE n == Len(engine)
<1>1. /\ n \in Nat /\ n > 0 /\ Last(engine) = engine[n] /\ engine \in Seq(CallsOfPHP)
      /\ \A i \in 1..n : engine[i] \in CallsOfPHP
  BY PlacesOfCalls DEF InspectionInv, InspectionTypeOK, StackMatches
<1>2. engine[n].table = None /\ engine' = [engine EXCEPT ![n].table = engine[n].data]
  BY <1>1 DEF BuildTable
<1>3. DOMAIN engine = 1..n
  BY <1>1
<1> HIDE DEF n
<1>4. Len(engine') = n /\ engine' \in Seq(CallsOfPHP)
  <2> DEFINE Then(i) == IF i = n THEN [engine[n] EXCEPT !.table = engine[n].data] ELSE engine[i]
  <2>1. engine' = [i \in 1..n |-> Then(i)]
    BY <1>2, <1>3
  <2>2. [engine[n] EXCEPT !.table = engine[n].data] \in CallsOfPHP
    <3>1. engine[n] \in CallsOfPHP
      BY <1>1
    <3>2. /\ engine[n].data \in Nat /\ engine[n].byPHP \in BOOLEAN
          /\ [engine[n] EXCEPT !.table = engine[n].data] =
               [data |-> engine[n].data, table |-> engine[n].data, byPHP |-> engine[n].byPHP]
      BY <3>1 DEF CallsOfPHP
    <3>3. engine[n].data \in Int
      BY <3>2
    <3> QED BY <3>2, <3>3, RecordsOfCalls
  <2>3. \A i \in 1..n : Then(i) \in CallsOfPHP
    BY <1>1, <2>2
  <2> HIDE DEF Then
  <2>4. engine' \in [1..n -> CallsOfPHP]
    BY <2>1, <2>3, Zenon
  <2> QED BY <1>1, <2>4
<1>5. \A i \in 1..n : /\ engine'[i].data = engine[i].data /\ engine'[i].byPHP = engine[i].byPHP
                      /\ engine'[i].table = engine[i].table \/ engine[i].table = None
  BY <1>1, <1>2, <1>3 DEF CallsOfPHP
<1>6. StackMatches'
  <2>1. Len(stack) = n /\ stack' = stack
    BY DEF InspectionInv, StackMatches, BuildTable, n
  <2>2. ASSUME NEW i \in 1..n
        PROVE  /\ stack[i].call = engine'[i].data
               /\ stack[i].symbol_table \in {None, engine'[i].table}
               /\ i > 1 => stack[i].execute_data = IF engine'[i].byPHP THEN NoFunction ELSE engine'[i - 1].data
    <3>1. i > 1 => i - 1 \in 1..n
      BY <1>1
    <3> QED BY <1>5, <3>1 DEF InspectionInv, StackMatches, n
  <2> QED BY <1>1, <1>4, <2>1, <2>2 DEF StackMatches
<1> QED BY <1>4, <1>6, CommandsStay DEF BuildTable, InspectionInv, InspectionTypeOK

\* What is left of a sequence without its last element.
LEMMA FrontIs ==
  ASSUME NEW S, NEW s \in Seq(S), Len(s) > 0
  PROVE  /\ Front(s) \in Seq(S) /\ Len(Front(s)) = Len(s) - 1
         /\ \A i \in 1..(Len(s) - 1) : Front(s)[i] = s[i]
<1> DEFINE n == Len(s) - 1
<1>1. n \in Nat /\ Front(s) = SubSeq(s, 1, n) /\ n - 1 + 1 = n
  BY LenProperties DEF Front
<1>2. \A i \in 1..n : s[i] \in S
  BY <1>1, ElementOfSeq
<1> HIDE DEF n
<1>3. SubSeq(s, 1, n) \in Seq(S) /\ Len(SubSeq(s, 1, n)) = n
  BY <1>1, <1>2, SubSeqProperties
<1>4. \A i \in 1..n : SubSeq(s, 1, n)[i] = s[i]
  BY <1>1, <1>2, SubSeqProperties
<1> QED BY <1>1, <1>3, <1>4 DEF n

LEMMA ReturnSteps ==
  ASSUME InspectionInv, Return
  PROVE  InspectionInv'
<1> DEFINE n == Len(engine)
<1>1. /\ n \in Nat /\ Len(stack) = n /\ n > 1 /\ engine \in Seq(CallsOfPHP) /\ stack \in Seq(EntriesOfStack)
      /\ calls' = calls /\ calls \in Nat
  BY PlacesOfCalls DEF InspectionInv, InspectionTypeOK, StackMatches, Return
<1>2. /\ engine' \in Seq(CallsOfPHP) /\ Len(engine') = n - 1
      /\ stack' \in Seq(EntriesOfStack) /\ Len(stack') = n - 1
      /\ \A i \in 1..(n - 1) : engine'[i] = engine[i] /\ stack'[i] = stack[i]
  BY <1>1, FrontIs DEF Return
<1>3. StackMatches'
  <2>1. ASSUME NEW i \in 1..(n - 1)
        PROVE  /\ stack'[i].call = engine'[i].data
               /\ stack'[i].symbol_table \in {None, engine'[i].table}
               /\ i > 1 => stack'[i].execute_data = IF engine'[i].byPHP THEN NoFunction ELSE engine'[i - 1].data
    <3>1. i \in 1..n /\ (i > 1 => i - 1 \in 1..(n - 1))
      BY <1>1
    <3> HIDE DEF n
    <3> QED BY <1>2, <3>1 DEF InspectionInv, StackMatches, n
  <2> QED BY <1>1, <1>2, <2>1 DEF StackMatches
<1> QED BY <1>1, <1>2, <1>3, CommandsStay DEF Return

LEMMA RequestSteps ==
  ASSUME InspectionInv, NextRequest
  PROVE  InspectionInv'
<1>1. /\ calls' \in Nat /\ max_data' = InitialSize /\ wanted' = InitialSize /\ reading' = <<>>
      /\ lookup' = NoLookup /\ active' = [active EXCEPT !.table = None] /\ active \in ActivePlaces
      /\ engine' = <<Main(calls')>> /\ stack' = <<EntryOfMain(calls')>>
  BY DEF NextRequest, InspectionInv, InspectionTypeOK
<1>2. Main(calls') \in CallsOfPHP /\ EntryOfMain(calls') \in EntriesOfStack
  BY <1>1 DEF Main, EntryOfMain, CallsOfPHP, EntriesOfStack, Globals, None
<1>3. engine' \in Seq(CallsOfPHP) /\ stack' \in Seq(EntriesOfStack) /\ Len(engine') = 1 /\ Len(stack') = 1
      /\ engine'[1] = Main(calls') /\ stack'[1] = EntryOfMain(calls')
  BY <1>1, <1>2
<1>4. StackMatches'
  BY <1>3 DEF StackMatches, Main, EntryOfMain
<1>5. active' \in ActivePlaces /\ max_data' \in Int /\ reading' \in Seq(CommandsReading)
  BY <1>1 DEF ActivePlaces, None, InitialSize
<1>6. ActiveFitsTheLast' /\ SizeComesBack'
  BY <1>1 DEF ActiveFitsTheLast, SizeComesBack
<1> QED BY <1>1, <1>3, <1>4, <1>5, <1>6, NothingLookedUp DEF InspectionInv, InspectionTypeOK
-----------------------------------------------------------------------------
\* A command that begins to read interrupts the others; the size it will put back
\* is the one that was wanted if none of them does.
LEMMA ReadingFits ==
  ASSUME InspectionInv, NEW command \in ReadingCommands, NEW context \in Context, NEW depth,
         Reads(command, context, depth), FrameAsked(context, depth) \in FramesAsked,
         RightPlaces(command, context, FrameAsked(context, depth), active'),
         wanted' = wanted, command = "context_get" => max_data' = max_data
  PROVE  /\ reading' \in Seq(CommandsReading) /\ ActiveFitsTheLast' /\ SizeComesBack' /\ LookupFits'
<1> DEFINE n == Len(reading)
           begun == [command |-> command, context |-> context, asked |-> FrameAsked(context, depth),
                     old_max_data |-> max_data, level |-> Len(stack), disturbed |-> FALSE]
<1>1. /\ n \in Nat /\ reading \in Seq(CommandsReading) /\ max_data \in Int /\ Len(stack) \in Nat
      /\ DOMAIN reading = 1..n
  BY LenProperties DEF InspectionInv, InspectionTypeOK
<1>2. reading' = Append(Interrupted(reading), begun)
      /\ lookup' = [command |-> command, context |-> context, asked |-> FrameAsked(context, depth),
                    disturbed |-> FALSE, in |-> active']
  BY DEF Reads, LookedUp
<1>3. begun \in CommandsReading
  BY <1>1 DEF CommandsReading
<1>4. /\ begun.command = command /\ begun.context = context /\ begun.asked = FrameAsked(context, depth)
      /\ begun.old_max_data = max_data
  OBVIOUS
<1> HIDE DEF n, begun
<1>5. /\ reading' \in Seq(CommandsReading) /\ Len(reading') = n + 1 /\ reading'[n + 1] = begun
      /\ \A i \in 1..n : /\ reading'[i].disturbed
                         /\ reading'[i].command = reading[i].command
                         /\ reading'[i].old_max_data = reading[i].old_max_data
  <2>1. /\ Interrupted(reading) \in Seq(CommandsReading) /\ Len(Interrupted(reading)) = n
        /\ \A i \in 1..n : /\ Interrupted(reading)[i].disturbed
                           /\ Interrupted(reading)[i].command = reading[i].command
                           /\ Interrupted(reading)[i].old_max_data = reading[i].old_max_data
    BY <1>1, InterruptedIs DEF n
  <2> QED BY <1>1, <1>2, <1>3, <2>1, AppendProperties
<1>6. \A i \in 1..Len(reading') : i \in 1..n \/ i = n + 1
  BY <1>1, <1>5
<1>7. ActiveFitsTheLast'
  BY <1>4, <1>5, <1>6 DEF ActiveFitsTheLast
<1>8. LookupFits'
  BY <1>2 DEF LookupFits
<1>9. SizeComesBack'
  <2>1. DOMAIN reading' = 1..(n + 1) /\ n + 1 \in 1..(n + 1) /\ \A i \in 1..n : i \in 1..(n + 1)
    BY <1>1, <1>5, LenProperties
  <2>2. ~PropertyIsRead' => command = "context_get" /\ ~PropertyIsRead
    BY <1>1, <1>4, <1>5, <2>1 DEF PropertyIsRead
  <2>3. ~PropertyIsRead' => max_data' = wanted'
    BY <2>2 DEF InspectionInv, SizeComesBack
  <2>4. ASSUME NEW i \in 1..n, reading'[i].command # "context_get",
               \A j \in 1..(i - 1) : reading'[j].command = "context_get"
        PROVE  reading'[i].old_max_data = wanted'
    <3>1. \A j \in 1..(i - 1) : j \in 1..n
      BY <1>1
    <3> QED BY <1>5, <2>4, <3>1 DEF InspectionInv, SizeComesBack, n
  <2>5. ASSUME \A j \in 1..n : reading'[j].command = "context_get"
        PROVE  reading'[n + 1].old_max_data = wanted'
    <3>1. \A j \in 1..n : reading[j].command = "context_get"
      BY <1>1, <1>5, <2>5
    <3> QED BY <1>1, <1>4, <1>5, <3>1 DEF InspectionInv, SizeComesBack, PropertyIsRead
  <2>6. ASSUME NEW i \in 1..Len(reading'), reading'[i].command # "context_get",
               \A j \in 1..(i - 1) : reading'[j].command = "context_get"
        PROVE  reading'[i].old_max_data = wanted'
    <3>1. CASE i \in 1..n
      BY <2>4, <2>6, <3>1
    <3>2. CASE i = n + 1
      <4>1. i - 1 = n
        BY <1>1, <3>2
      <4> QED BY <2>5, <2>6, <3>2, <4>1
    <3> QED BY <1>6, <3>1, <3>2
  <2> QED BY <2>3, <2>6 DEF SizeComesBack
<1> QED BY <1>5, <1>7, <1>8, <1>9

LEMMA NameSteps ==
  ASSUME InspectionInv, PropertyGet \/ PropertyValue \/ PropertySet
  PROVE  InspectionInv'
<1>1. InspectionTypeOK /\ StackMatches /\ max_data \in Int
  BY DEF InspectionInv, InspectionTypeOK
<1>2. Sizes \subseteq Int
  BY <1>1, InspectionAssumption DEF Sizes
<1>3. CASE PropertyGet
  <2>1. PICK context \in Context, depth \in 0..MaxCalls, m \in Sizes :
          /\ CanAsk(context, depth)
          /\ active' = Activated(context, depth)
          /\ max_data' = m
          /\ Reads("property_get", context, depth)
    BY <1>3 DEF PropertyGet
  <2>2. UNCHANGED <<engine, stack, calls, wanted>>
    BY <1>3 DEF PropertyGet
  <2>3. /\ active' \in ActivePlaces /\ FrameAsked(context, depth) \in FramesAsked
        /\ RightPlaces("property_get", context, FrameAsked(context, depth), active')
    BY <1>1, <2>1, ActivatedFits DEF CanAsk
  <2>4. reading' \in Seq(CommandsReading) /\ ActiveFitsTheLast' /\ SizeComesBack' /\ LookupFits'
    <3>1. "property_get" \in ReadingCommands /\ "property_get" # "context_get"
      BY DEF ReadingCommands
    <3> QED BY <2>1, <2>2, <2>3, <3>1, ReadingFits
  <2> QED BY <1>2, <2>1, <2>2, <2>3, <2>4, ProgramStays
<1>4. CASE PropertyValue
  <2>1. PICK context \in Context \ {"constants"}, depth \in 0..MaxCalls, m \in Sizes :
          /\ CanAsk(context, depth)
          /\ active' = Activated(context, depth)
          /\ IF m < 0 THEN reading' = Interrupted(reading) /\ lookup' = NoLookup /\ max_data' = max_data
             ELSE max_data' = m /\ Reads("property_value", context, depth)
    BY <1>4 DEF PropertyValue
  <2>2. UNCHANGED <<engine, stack, calls, wanted>>
    BY <1>4 DEF PropertyValue
  <2>3. /\ active' \in ActivePlaces /\ FrameAsked(context, depth) \in FramesAsked
        /\ RightPlaces("property_value", context, FrameAsked(context, depth), active')
    BY <1>1, <2>1, ActivatedFits DEF CanAsk
  <2>4. CASE m < 0
    <3>1. reading' = Interrupted(reading) /\ lookup' = NoLookup /\ max_data' = max_data
      BY <2>1, <2>4
    <3>2. reading' \in Seq(CommandsReading) /\ ActiveFitsTheLast' /\ SizeComesBack'
      BY <2>2, <3>1, InterruptedFits
    <3> QED BY <1>1, <2>2, <2>3, <3>1, <3>2, NothingLookedUp, ProgramStays
  <2>5. CASE ~(m < 0)
    <3>1. max_data' = m /\ Reads("property_value", context, depth)
      BY <2>1, <2>5
    <3>2. reading' \in Seq(CommandsReading) /\ ActiveFitsTheLast' /\ SizeComesBack' /\ LookupFits'
      <4>1. "property_value" \in ReadingCommands /\ "property_value" # "context_get" /\ context \in Context
        BY DEF ReadingCommands
      <4> QED BY <2>1, <2>2, <2>3, <3>1, <4>1, ReadingFits
    <3> QED BY <1>2, <2>1, <2>2, <2>3, <3>1, <3>2, ProgramStays
  <2> QED BY <2>4, <2>5
<1>5. CASE PropertySet
  <2> DEFINE In(d) == [active' EXCEPT !.data = IF d > 0 THEN @ ELSE Last(engine).data]
  <2>1. PICK context \in Context \ {"constants"}, depth \in 0..MaxCalls, decoded \in BOOLEAN :
          /\ context = "locals" => IsDepth(depth)
          /\ active' = Activated(context, depth)
          /\ IF ~decoded THEN lookup' = NoLookup
             ELSE LookedUp("property_set", context, FrameAsked(context, depth), FALSE, In(depth))
    BY <1>5 DEF PropertySet
  <2>2. UNCHANGED <<engine, stack, calls, max_data, wanted>> /\ reading' = Interrupted(reading)
    BY <1>5 DEF PropertySet
  <2>3. /\ active' \in ActivePlaces
        /\ RightPlaces("property_set", context, FrameAsked(context, depth), active')
    BY <1>1, <2>1, ActivatedFits
  <2>4. reading' \in Seq(CommandsReading) /\ ActiveFitsTheLast' /\ SizeComesBack'
    BY <2>2, InterruptedFits
  <2>5. /\ In(depth).entry = active'.entry /\ In(depth).table = active'.table
        /\ In(depth).data = IF depth > 0 THEN active'.data ELSE Last(engine).data
    BY <2>3 DEF ActivePlaces
  \* With no depth, what is current is the frame that was asked for.
  <2>6. context = "locals" => In(depth).data = active'.data
    <3>1. context = "locals" => active' = [data |-> DataAt(depth), entry |-> EntryAt(depth).call,
                                           table |-> EntryAt(depth).symbol_table]
      BY <2>1 DEF Activated
    <3>2. context = "locals" /\ ~(depth > 0) => active'.data = Last(engine).data
      BY <3>1 DEF DataAt
    <3> QED BY <2>5, <3>2
  <2> HIDE DEF In
  <2>7. RightPlaces("property_set", context, FrameAsked(context, depth), In(depth))
    BY <2>3, <2>5, <2>6 DEF RightPlaces
  <2>8. LookupFits'
    <3>1. CASE decoded
      BY <2>1, <2>7, <3>1 DEF LookedUp, LookupFits
    <3>2. CASE ~decoded
      BY <2>1, <3>2, NothingLookedUp
    <3> QED BY <3>1, <3>2
  <2> QED BY <1>1, <2>2, <2>3, <2>4, <2>8, ProgramStays
<1> QED BY <1>3, <1>4, <1>5

\* The last command ends: those before it have been interrupted.
LEMMA OthersGoOn ==
  ASSUME InspectionInv, reading # <<>>, reading' = Front(reading), wanted' = wanted,
         max_data' = IF Last(reading).command = "context_get" THEN max_data ELSE Last(reading).old_max_data
  PROVE  /\ reading' \in Seq(CommandsReading) /\ ActiveFitsTheLast' /\ SizeComesBack' /\ max_data' \in Int
<1> DEFINE n == Len(reading)
<1>1. /\ n \in Nat /\ n > 0 /\ reading \in Seq(CommandsReading) /\ max_data \in Int /\ DOMAIN reading = 1..n
      /\ Last(reading) = reading[n]
  BY LenProperties, EmptySeq DEF InspectionInv, InspectionTypeOK, Last
<1>2. /\ reading' \in Seq(CommandsReading) /\ Len(reading') = n - 1
      /\ \A i \in 1..(n - 1) : reading'[i] = reading[i]
  BY <1>1, FrontIs
<1>3. reading[n] \in CommandsReading
  BY <1>1, ElementOfSeq
<1>4. max_data' \in Int
  BY <1>1, <1>3 DEF CommandsReading
<1> HIDE DEF n
<1>5. \A i \in 1..(n - 1) : i \in 1..n /\ i # n
  BY <1>1
<1>6. DOMAIN reading' = 1..(n - 1) /\ n \in 1..n /\ \A i \in 1..n : i \in 1..(n - 1) \/ i = n
  <2>1. DOMAIN reading' = 1..(n - 1)
    BY <1>2, LenProperties
  <2> QED BY <1>1, <2>1
<1>7. ActiveFitsTheLast'
  BY <1>2, <1>5 DEF InspectionInv, ActiveFitsTheLast, n
<1>8. SizeComesBack'
  <2>1. ASSUME ~PropertyIsRead'
        PROVE  max_data' = wanted
    <3>1. \A i \in 1..(n - 1) : reading[i].command = "context_get"
      BY <1>2, <1>6, <2>1 DEF PropertyIsRead
    <3>2. CASE reading[n].command = "context_get"
      BY <1>1, <1>6, <3>1, <3>2 DEF InspectionInv, SizeComesBack, PropertyIsRead
    <3>3. CASE reading[n].command # "context_get"
      BY <1>1, <1>6, <3>1, <3>3 DEF InspectionInv, SizeComesBack, n
    <3> QED BY <3>2, <3>3
  <2>2. ASSUME NEW i \in 1..(n - 1), reading'[i].command # "context_get",
               \A j \in 1..(i - 1) : reading'[j].command = "context_get"
        PROVE  reading'[i].old_max_data = wanted
    <3>1. i \in 1..n /\ \A j \in 1..(i - 1) : j \in 1..(n - 1)
      BY <1>1
    <3> QED BY <1>2, <2>2, <3>1 DEF InspectionInv, SizeComesBack, n
  <2> QED BY <1>2, <2>1, <2>2 DEF SizeComesBack
<1> QED BY <1>2, <1>4, <1>7, <1>8

LEMMA OtherSteps ==
  ASSUME InspectionInv, FeatureSet \/ PropertyHasBeenRead \/ ContextGet \/ NextName \/ ContextHasBeenShown
  PROVE  InspectionInv'
<1>1. /\ InspectionTypeOK /\ StackMatches /\ active \in ActivePlaces /\ max_data \in Int
      /\ reading \in Seq(CommandsReading)
  BY DEF InspectionInv, InspectionTypeOK
<1>2. active = [data |-> active.data, entry |-> active.entry, table |-> active.table]
      /\ active.data \in Int /\ active.entry \in Int /\ active.table \in Int
  BY <1>1 DEF ActivePlaces
<1>3. CASE FeatureSet
  <2>1. PICK m \in DataSizes : max_data' = m /\ wanted' = IF PropertyIsRead THEN wanted ELSE m
    BY <1>3 DEF FeatureSet
  <2>2. lookup' = NoLookup /\ UNCHANGED <<engine, stack, calls, active, reading>>
    BY <1>3 DEF FeatureSet
  <2>3. max_data' \in Int
    BY <2>1, InspectionAssumption
  <2>4. ActiveFitsTheLast' /\ (PropertyIsRead' <=> PropertyIsRead)
    BY <2>2 DEF InspectionInv, ActiveFitsTheLast, PropertyIsRead
  <2>5. DOMAIN reading = 1..Len(reading)
    BY <1>1, LenProperties
  <2>6. SizeComesBack'
    <3>1. CASE PropertyIsRead
      BY <2>1, <2>2, <2>4, <3>1 DEF InspectionInv, SizeComesBack
    <3>2. CASE ~PropertyIsRead
      BY <2>1, <2>2, <2>4, <2>5, <3>2 DEF SizeComesBack, PropertyIsRead
    <3> QED BY <3>1, <3>2
  <2> QED BY <1>1, <2>2, <2>3, <2>4, <2>6, NothingLookedUp, ProgramStays
<1>4. CASE PropertyHasBeenRead
  <2>1. /\ reading # <<>> /\ reading' = Front(reading) /\ Last(reading).command # "context_get"
        /\ max_data' = Last(reading).old_max_data /\ lookup' = NoLookup
        /\ UNCHANGED <<engine, stack, calls, active, wanted>>
    BY <1>4 DEF PropertyHasBeenRead, Returned
  <2>2. /\ reading' \in Seq(CommandsReading) /\ ActiveFitsTheLast' /\ SizeComesBack' /\ max_data' \in Int
    BY <2>1, OthersGoOn
  <2> QED BY <1>1, <2>1, <2>2, NothingLookedUp, ProgramStays
<1>5. CASE ContextGet
  <2> DEFINE In(context, depth) ==
               IF context = "locals" THEN [Activated(context, depth) EXCEPT !.entry = active.entry]
               ELSE [active EXCEPT !.data = None, !.table = Globals]
  <2>1. PICK context \in {"locals", "superglobals"}, depth \in 0..MaxCalls :
          /\ CanAsk(context, depth)
          /\ active' = In(context, depth)
          /\ Reads("context_get", context, depth)
    BY <1>5 DEF ContextGet
  <2>2. UNCHANGED <<engine, stack, calls, max_data, wanted>>
    BY <1>5 DEF ContextGet
  <2>3. /\ active' \in ActivePlaces /\ FrameAsked(context, depth) \in FramesAsked
        /\ RightPlaces("context_get", context, FrameAsked(context, depth), active')
    <3>1. CASE context = "locals"
      <4>1. /\ Activated(context, depth) \in ActivePlaces /\ FrameAsked(context, depth) \in FramesAsked
            /\ RightPlaces("property_get", context, FrameAsked(context, depth), Activated(context, depth))
        BY <1>1, <2>1, <3>1, ActivatedFits DEF CanAsk, Context
      <4>2. /\ active' \in ActivePlaces /\ active'.data = Activated(context, depth).data
            /\ active'.table = Activated(context, depth).table
        BY <1>2, <2>1, <3>1, <4>1 DEF ActivePlaces
      <4> QED BY <3>1, <4>1, <4>2 DEF RightPlaces
    <3>2. CASE context = "superglobals"
      <4>1. active' = [data |-> None, entry |-> active.entry, table |-> Globals]
        BY <1>2, <2>1, <3>2
      <4>2. FrameAsked(context, depth) = NoFrame /\ NoFrame \in FramesAsked
        BY <3>2 DEF FrameAsked, NoFrame, FramesAsked, None
      <4> QED BY <1>2, <3>2, <4>1, <4>2 DEF ActivePlaces, RightPlaces, None, Globals
    <3> QED BY <2>1, <3>1, <3>2
  <2>4. reading' \in Seq(CommandsReading) /\ ActiveFitsTheLast' /\ SizeComesBack' /\ LookupFits'
    <3>1. context \in Context /\ "context_get" \in ReadingCommands
      BY DEF Context, ReadingCommands
    <3> HIDE DEF In
    <3> QED BY <2>1, <2>2, <2>3, <3>1, ReadingFits
  <2> QED BY <1>1, <2>2, <2>3, <2>4, ProgramStays
<1>6. CASE NextName
  <2> DEFINE last == Last(reading)
  <2>1. /\ reading # <<>> /\ UNCHANGED <<engine, stack, calls, active, max_data, wanted, reading>>
        /\ last.command = "context_get"
        /\ lookup' = [command |-> "context_get", context |-> last.context, asked |-> last.asked,
                      disturbed |-> last.disturbed, in |-> active]
    BY <1>6 DEF NextName, Returned, LookedUp
  <2>2. Len(reading) \in 1..Len(reading) /\ last = reading[Len(reading)]
    BY <1>1, <2>1, LenProperties, EmptySeq DEF Last
  <2>3. last.disturbed \/ RightPlaces(last.command, last.context, last.asked, active)
    BY <2>2 DEF InspectionInv, ActiveFitsTheLast
  <2>4. LookupFits'
    BY <2>1, <2>3 DEF LookupFits
  <2>5. ActiveFitsTheLast' /\ SizeComesBack'
    BY <2>1 DEF InspectionInv, ActiveFitsTheLast, SizeComesBack, PropertyIsRead
  <2> QED BY <1>1, <2>1, <2>4, <2>5, ProgramStays
<1>7. CASE ContextHasBeenShown
  <2>1. /\ reading # <<>> /\ reading' = Front(reading) /\ Last(reading).command = "context_get"
        /\ lookup' = NoLookup /\ UNCHANGED <<engine, stack, calls, max_data, wanted>>
        /\ active' = [active EXCEPT !.data = IF Last(reading).context = "locals" THEN None ELSE @, !.table = None]
    BY <1>7 DEF ContextHasBeenShown, Returned
  <2>2. reading' \in Seq(CommandsReading) /\ ActiveFitsTheLast' /\ SizeComesBack' /\ max_data' \in Int
    BY <2>1, OthersGoOn
  <2>3. active' \in ActivePlaces
    <3>1. active' = [data |-> IF Last(reading).context = "locals" THEN None ELSE active.data,
                     entry |-> active.entry, table |-> None]
      BY <1>2, <2>1
    <3> QED BY <1>2, <3>1 DEF ActivePlaces, None
  <2> QED BY <2>1, <2>2, <2>3, NothingLookedUp, ProgramStays
<1> QED BY <1>3, <1>4, <1>5, <1>6, <1>7

LEMMA InspectionStarts == InspectionInit => InspectionInv
<1> SUFFICES ASSUME InspectionInit
             PROVE  InspectionInv
  OBVIOUS
<1>1. /\ engine = <<Main(1)>> /\ stack = <<EntryOfMain(1)>> /\ calls = 1 /\ active = Nowhere
      /\ max_data = InitialSize /\ wanted = InitialSize /\ reading = <<>> /\ lookup = NoLookup
  BY DEF InspectionInit
<1>2. Main(1) \in CallsOfPHP /\ EntryOfMain(1) \in EntriesOfStack
  BY DEF Main, EntryOfMain, CallsOfPHP, EntriesOfStack, Globals, None
<1>3. engine \in Seq(CallsOfPHP) /\ stack \in Seq(EntriesOfStack) /\ Len(engine) = 1 /\ Len(stack) = 1
      /\ engine[1] = Main(1) /\ stack[1] = EntryOfMain(1)
  BY <1>1, <1>2
<1>4. StackMatches
  BY <1>3 DEF StackMatches, Main, EntryOfMain
<1>5. InspectionTypeOK
  BY <1>1, <1>3 DEF InspectionTypeOK, ActivePlaces, Nowhere, None, InitialSize
<1>6. ActiveFitsTheLast /\ SizeComesBack
  BY <1>1 DEF ActiveFitsTheLast, SizeComesBack
<1>7. LookupFits
  BY <1>1 DEF LookupFits, RightPlaces, NoLookup
<1> QED BY <1>4, <1>5, <1>6, <1>7 DEF InspectionInv

\* Names are looked up in the frame or the context the client means, whatever
\* commands, calls, stops within commands and requests came before, and the size
\* of strings comes back (handler_dbgp.c:1786, 1813, 1934, 2022, 2186); what is
\* excepted is said with LooksWhereAsked.
THEOREM NamesLookedUpWhereAsked == InspectionSpec => []LooksWhereAsked
<1>1. InspectionInv /\ [InspectionNext]_inspectionVars => InspectionInv'
  <2> SUFFICES ASSUME InspectionInv, [InspectionNext]_inspectionVars
               PROVE  InspectionInv'
    OBVIOUS
  <2>1. CASE inspectionVars' = inspectionVars
    BY <2>1 DEF inspectionVars, InspectionInv, InspectionTypeOK, StackMatches, ActiveFitsTheLast,
                SizeComesBack, PropertyIsRead, LookupFits
  <2> QED BY <2>1, CallSteps, TableSteps, ReturnSteps, RequestSteps, NameSteps, OtherSteps
          DEF InspectionNext, ProgramGoesOn
<1>2. InspectionInv => LooksWhereAsked
  BY DEF InspectionInv, SizeComesBack, LookupFits, LooksWhereAsked
<1> QED BY <1>1, <1>2, InspectionStarts, PTL DEF InspectionSpec
-----------------------------------------------------------------------------
(* Commands.                                                                  *)

Char == STRING \cup {Space, Dash, Quote, Backslash}

\* The loop that takes the backslashes out goes by its turns w.
LEMMA LoopIs ==
  ASSUME NEW s \in Seq(Char), NEW w, w[0] = [source |-> 1, target |-> <<>>],
         \A n \in 1..Len(s) : w[n] = Turn(s, w[n - 1])
  PROVE  Stripped(s) = w[Len(s)].target
<1> DEFINE N == Len(s)
           G(f) == [n \in 0..N |-> IF n = 0 THEN [source |-> 1, target |-> <<>>] ELSE Turn(s, f[n - 1])]
           e == CHOOSE f : f = G(f)
           h == [n \in 0..N |-> w[n]]
<1>0. N \in Nat
  OBVIOUS
<1>1. Stripped(s) = e[N].target
  BY DEF Stripped
<1>2. h = G(h)
  <2> SUFFICES ASSUME NEW n \in 0..N
               PROVE  h[n] = IF n = 0 THEN [source |-> 1, target |-> <<>>] ELSE Turn(s, h[n - 1])
    BY Zenon
  <2>1. h[n] = w[n] /\ (n # 0 => n \in 1..N /\ h[n - 1] = w[n - 1])
    BY <1>0
  <2> HIDE DEF h, N
  <2>2. CASE n = 0
    BY <2>1, <2>2
  <2>3. CASE n # 0
    <3>1. w[n] = Turn(s, w[n - 1])
      BY <2>1, <2>3, Zenon DEF N
    <3> QED BY <2>1, <2>3, <3>1, Zenon
  <2> QED BY <2>2, <2>3
<1>3. e = G(e)
  <2> HIDE DEF G, h
  <2> QED BY <1>2, Zenon
<1>4. \A n \in 0..N : e[n] = IF n = 0 THEN [source |-> 1, target |-> <<>>] ELSE Turn(s, e[n - 1])
  <2> HIDE DEF e
  <2> QED BY <1>3, Zenon
<1> HIDE DEF e, h, G
<1> DEFINE S == {n \in Nat : n <= N => e[n] = w[n]}
<1>5. 0 \in S
  <2>1. 0 \in 0..N
    BY <1>0
  <2>2. e[0] = w[0]
    BY <1>4, <2>1, Zenon
  <2> QED BY <2>2
<1> HIDE DEF N
<1>6. ASSUME NEW n \in Nat, n \in S
      PROVE  n + 1 \in S
  <2> SUFFICES ASSUME n + 1 <= N
               PROVE  e[n + 1] = w[n + 1]
    OBVIOUS
  <2>1. e[n] = w[n] /\ n + 1 \in 0..N /\ n + 1 \in 1..N /\ (n + 1) - 1 = n /\ n + 1 # 0
    BY <1>0, <1>6
  <2>2. e[n + 1] = Turn(s, e[n])
    BY <1>4, <2>1, Zenon
  <2>3. w[n + 1] = Turn(s, w[n])
    BY <2>1, Zenon DEF N
  <2> QED BY <2>1, <2>2, <2>3, Zenon
<1> HIDE DEF S
<1>7. N \in S
  BY <1>0, <1>5, <1>6, Induction
<1>8. e[N] = w[N]
  BY <1>0, <1>7 DEF S
<1> QED BY <1>1, <1>8 DEF N

\* What a protected value is made of.
Pieces(v) == [i \in 1..Len(v) |-> Protect(v[i])]
Turned(v, n) == IF n <= Len(v)
                THEN [source |-> Len(TextOf(Pieces(v), n)) + 1, target |-> SubSeq(v, 1, n)]
                ELSE [source |-> Len(Protected(v)) + 1, target |-> v]

LEMMA ProtectIs ==
  ASSUME NEW c \in Char
  PROVE  /\ Protect(c) \in Seq(Char) /\ Len(Protect(c)) \in 1..2
         /\ c \in {Quote, Backslash} => Protect(c) = <<Backslash, c>>
         /\ c \notin {Quote, Backslash} => Protect(c) = <<c>>
<1>1. Backslash \in Char
  BY DEF Char
<1>2. Len(<<c>>) = 1 /\ Len(<<Backslash, c>>) = 2
  OBVIOUS
<1>3. <<c>> \in Seq(Char) /\ <<Backslash, c>> \in Seq(Char)
  BY <1>1
<1> QED BY <1>2, <1>3 DEF Protect

LEMMA ProtectedIs ==
  ASSUME NEW v \in Seq(Char)
  PROVE  /\ Protected(v) = TextOf(Pieces(v), Len(v)) /\ Protected(v) \in Seq(Char)
         /\ Pieces(v) \in [1..Len(v) -> Seq(Char)]
         /\ \A i \in 1..Len(v) : Pieces(v)[i] = Protect(v[i])
         /\ Len(TextOf(Pieces(v), 0)) = 0
         /\ \A n \in 0..Len(v) : Len(TextOf(Pieces(v), n)) \in n..Len(Protected(v))
         /\ \A n \in 1..Len(v) : /\ Len(TextOf(Pieces(v), n)) = Len(TextOf(Pieces(v), n - 1)) + Len(Protect(v[n]))
                                 /\ \A j \in 1..Len(Protect(v[n])) :
                                      Protected(v)[Len(TextOf(Pieces(v), n - 1)) + j] = Protect(v[n])[j]
<1> DEFINE N == Len(v)
           at(n) == Len(TextOf(Pieces(v), n))
<1>0. N \in Nat
  OBVIOUS
<1>1. Pieces(v) \in [1..N -> Seq(Char)] /\ \A i \in 1..N : Pieces(v)[i] = Protect(v[i])
  <2>1. \A i \in 1..N : v[i] \in Char
    OBVIOUS
  <2>2. \A i \in 1..N : Protect(v[i]) \in Seq(Char)
    BY <2>1, ProtectIs
  <2> HIDE DEF N
  <2> QED BY <2>2 DEF Pieces, N
<1>2. Protected(v) = TextOf(Pieces(v), N)
  <2>1. [i \in 1..N |-> Pieces(v)[i]] = [i \in 1..N |-> Protect(v[i])]
    BY DEF Pieces
  <2> HIDE DEF N
  <2> QED BY <2>1, Zenon DEF Protected, TextOf, N
<1>3. /\ TextOf(Pieces(v), 0) = <<>>
      /\ \A n \in 0..N : TextOf(Pieces(v), n) \in Seq(Char)
      /\ \A n \in 1..N : at(n) = at(n - 1) + Len(Pieces(v)[n])
      /\ \A n \in 0..N : at(n) <= at(N)
      /\ \A n \in 1..N : \A j \in 1..Len(Pieces(v)[n]) :
           TextOf(Pieces(v), N)[at(n - 1) + j] = Pieces(v)[n][j]
  <2>1. LaidOut(Char, Pieces(v), N)
    BY <1>0, <1>1, Located, Zenon
  <2> QED BY <2>1, Zenon DEF LaidOut
<1>4. at(0) = 0 /\ \A n \in 0..N : at(n) \in Nat
  BY <1>3
<1>5. \A n \in 1..N : at(n) = at(n - 1) + Len(Protect(v[n]))
  BY <1>1, <1>3, Zenon
<1>6. \A n \in 1..N : Len(Protect(v[n])) \in 1..2
  <2>1. \A i \in 1..N : v[i] \in Char
    OBVIOUS
  <2> QED BY <2>1, ProtectIs
<1> HIDE DEF at, N
<1> DEFINE S == {n \in Nat : n <= N => n <= at(n)}
<1>7. 0 \in S
  BY <1>4
<1>8. ASSUME NEW n \in Nat, n \in S
      PROVE  n + 1 \in S
  <2> SUFFICES ASSUME n + 1 <= N
               PROVE  n + 1 <= at(n + 1)
    OBVIOUS
  <2>1. n + 1 \in 1..N /\ (n + 1) - 1 = n /\ n \in 0..N /\ n <= at(n)
    BY <1>0, <1>8
  <2>2. at(n + 1) = at(n) + Len(Protect(v[n + 1]))
    BY <1>5, <2>1, Zenon
  <2>3. Len(Protect(v[n + 1])) \in 1..2 /\ at(n) \in Nat
    BY <1>4, <1>6, <2>1, Zenon
  <2>4. \A more \in 1..2 : \A from \in Nat : n <= from => n + 1 <= from + more
    OBVIOUS
  <2> QED BY <2>1, <2>2, <2>3, <2>4, Zenon
<1> HIDE DEF S
<1>9. \A n \in Nat : n \in S
  BY <1>7, <1>8, Induction
<1>10. \A n \in 0..N : n <= at(n)
  BY <1>0, <1>9 DEF S
<1>11. \A n \in 0..N : at(n) \in n..Len(Protected(v))
  <2>1. \A n \in 0..N : at(n) \in Nat /\ at(n) <= Len(Protected(v))
    BY <1>0, <1>2, <1>3, <1>4 DEF at
  <2> QED BY <1>0, <1>2, <1>10, <2>1
<1>12. \A n \in 1..N : \A j \in 1..Len(Protect(v[n])) :
         Protected(v)[at(n - 1) + j] = Protect(v[n])[j]
  BY <1>1, <1>2, <1>3, Zenon DEF at
<1>13. Protected(v) \in Seq(Char)
  BY <1>0, <1>2, <1>3
<1> QED BY <1>1, <1>2, <1>4, <1>5, <1>11, <1>12, <1>13 DEF at, N

\* A character that is no digit is not taken for one.
LEMMA NoDigits == ASSUME NEW s \in Seq(Char), s # <<>>, s[1] \notin Octal PROVE OctalDigits(s) = 0
<1> DEFINE P(n) == /\ n <= Len(s) /\ \A i \in 1..n : s[i] \in Octal
                   /\ n < 3 /\ n < Len(s) => s[n + 1] \notin Octal
<1>1. 0 \in 0..3 /\ P(0)
  OBVIOUS
<1>2. ASSUME NEW n \in 0..3, P(n)
      PROVE  n = 0
  <2>1. CASE n # 0
    <3>1. 1 \in 1..n
      BY <2>1
    <3> QED BY <1>2, <3>1
  <2> QED BY <2>1
<1>3. OctalDigits(s) = CHOOSE n \in 0..3 : P(n)
  BY DEF OctalDigits
<1> HIDE DEF P
<1> QED BY <1>1, <1>2, <1>3

\* A turn of the loop takes one protected character.
LEMMA TurnTakes ==
  ASSUME NEW v \in Seq(Char), NEW n \in 1..Len(v)
  PROVE  Turn(Protected(v), Turned(v, n - 1)) = Turned(v, n)
<1> DEFINE s == Protected(v)
           from == Len(TextOf(Pieces(v), n - 1))
           to == Len(TextOf(Pieces(v), n))
           c == v[n]
<1>1. /\ s \in Seq(Char) /\ from \in Nat /\ to = from + Len(Protect(c)) /\ to <= Len(s)
      /\ \A j \in 1..Len(Protect(c)) : s[from + j] = Protect(c)[j]
  <2>1. n - 1 \in 0..Len(v) /\ n \in 0..Len(v)
    OBVIOUS
  <2>2. from \in (n - 1)..Len(s) /\ to \in n..Len(s) /\ s \in Seq(Char)
    BY <2>1, ProtectedIs, Zenon
  <2>3. /\ to = from + Len(Protect(c))
        /\ \A j \in 1..Len(Protect(c)) : s[from + j] = Protect(c)[j]
    BY ProtectedIs, Zenon
  <2> HIDE DEF s, from, to
  <2> QED BY <2>2, <2>3
<1>2. c \in Char
  OBVIOUS
<1>3. Turned(v, n - 1) = [source |-> from + 1, target |-> SubSeq(v, 1, n - 1)]
  BY DEF Turned
<1>4. Turned(v, n) = [source |-> to + 1, target |-> SubSeq(v, 1, n)]
  BY DEF Turned
<1>5. Append(SubSeq(v, 1, n - 1), c) = SubSeq(v, 1, n)
  OBVIOUS
<1> DEFINE loop == Turned(v, n - 1)
<1>6. loop.source = from + 1 /\ loop.target = SubSeq(v, 1, n - 1)
  BY <1>3
<1> HIDE DEF s, from, to, c, loop
<1>7. CASE c \notin {Quote, Backslash}
  <2>1. Protect(c) = <<c>>
    BY <1>2, <1>7, ProtectIs
  <2>2. to = from + 1 /\ s[from + 1] = c
    BY <1>1, <2>1
  <2>3. ~(loop.source > Len(s)) /\ s[loop.source] # Backslash
    BY <1>1, <1>6, <1>7, <2>2
  <2>4. Turn(s, loop) = [source |-> loop.source + 1, target |-> Append(loop.target, s[loop.source])]
    BY <2>3, Zenon DEF Turn
  <2>5. Turn(s, loop) = [source |-> to + 1, target |-> SubSeq(v, 1, n)]
    BY <1>5, <1>6, <2>2, <2>4
  <2> QED BY <1>4, <2>5, Zenon DEF s, loop
<1>8. CASE c \in {Quote, Backslash}
  <2>1. Protect(c) = <<Backslash, c>>
    BY <1>2, <1>8, ProtectIs
  <2>2. to = from + 2 /\ s[from + 1] = Backslash /\ s[from + 2] = c
    <3>1. Len(Protect(c)) = 2 /\ Protect(c)[1] = Backslash /\ Protect(c)[2] = c
      BY <2>1
    <3> QED BY <1>1, <3>1
  <2>3. ~(loop.source > Len(s)) /\ s[loop.source] = Backslash /\ loop.source < Len(s)
        /\ loop.source + 1 = from + 2 /\ loop.source + 2 = to + 1 /\ from + 2 \in 1..Len(s) /\ Len(s) \in Nat
    BY <1>1, <1>6, <2>2
  <2> DEFINE rest == SubSeq(s, loop.source + 1, Len(s))
  <2>4. rest \in Seq(Char) /\ rest # <<>> /\ rest[1] = c
    <3>1. rest = SubSeq(s, from + 2, Len(s))
      BY <2>3
    <3>2. \A m \in 1..Len(s) : /\ SubSeq(s, m, Len(s)) \in Seq(Char) /\ SubSeq(s, m, Len(s)) # <<>>
                              /\ SubSeq(s, m, Len(s))[1] = s[m]
      <4> SUFFICES ASSUME NEW m \in 1..Len(s)
                   PROVE  /\ SubSeq(s, m, Len(s)) \in Seq(Char) /\ SubSeq(s, m, Len(s)) # <<>>
                          /\ SubSeq(s, m, Len(s))[1] = s[m]
        BY Zenon
      <4>1. /\ SubSeq(s, m, Len(s)) \in Seq(Char)
            /\ Len(SubSeq(s, m, Len(s))) = (Len(s) - m) + 1
        BY <1>1
      <4>2. SubSeq(s, m, Len(s))[1] = s[m]
        BY <1>1
      <4>3. Len(SubSeq(s, m, Len(s))) # 0
        BY <2>3, <4>1
      <4>4. Len(<<>>) = 0
        OBVIOUS
      <4> QED BY <4>1, <4>2, <4>3, <4>4, Zenon
    <3> HIDE DEF rest
    <3> QED BY <2>2, <2>3, <3>1, <3>2, Zenon
  <2>5. c \notin Octal /\ c \notin Escapes
    BY <1>8, CommandAssumption DEF Octal, Quote, Backslash
  <2> HIDE DEF rest
  <2>6. OctalDigits(rest) = 0
    BY <2>4, <2>5, NoDigits
  <2>7. Escaped(s[loop.source + 1]) = c
    BY <2>2, <2>3, <2>5 DEF Escaped
  <2>8. ~(OctalDigits(rest) > 0)
    BY <2>6
  <2>9. Turn(s, loop) = [source |-> loop.source + 2, target |-> Append(loop.target, Escaped(s[loop.source + 1]))]
    BY <2>3, <2>8, Zenon DEF Turn, rest
  <2>10. Turn(s, loop) = [source |-> to + 1, target |-> SubSeq(v, 1, n)]
    BY <1>5, <1>6, <2>3, <2>7, <2>9, Zenon
  <2> QED BY <1>4, <2>10, Zenon DEF s, loop
<1> QED BY <1>7, <1>8

\* What a client protects comes back as it was.
LEMMA StripsProtected ==
  ASSUME NEW v \in Seq(Char)
  PROVE  Stripped(Protected(v)) = v
<1> DEFINE s == Protected(v)
           w == [n \in 0..Len(s) |-> Turned(v, n)]
<1>1. /\ s \in Seq(Char) /\ Len(s) \in Nat /\ Len(v) \in Nat /\ Len(v) <= Len(s)
      /\ Len(TextOf(Pieces(v), 0)) = 0 /\ s = TextOf(Pieces(v), Len(v))
  <2>1. Len(v) \in 0..Len(v)
    OBVIOUS
  <2>2. /\ s \in Seq(Char) /\ s = TextOf(Pieces(v), Len(v)) /\ Len(TextOf(Pieces(v), 0)) = 0
        /\ Len(s) \in Len(v)..Len(s)
    BY <2>1, ProtectedIs, Zenon
  <2> HIDE DEF s
  <2> QED BY <2>2
<1> HIDE DEF s
<1>2. w[0] = [source |-> 1, target |-> <<>>]
  <2>1. Turned(v, 0) = [source |-> 1, target |-> <<>>]
    BY <1>1 DEF Turned
  <2> QED BY <1>1, <2>1
<1>3. ASSUME NEW n \in 1..Len(s)
      PROVE  w[n] = Turn(s, w[n - 1])
  <2>1. w[n] = Turned(v, n) /\ w[n - 1] = Turned(v, n - 1)
    BY <1>1
  <2>2. CASE n \in 1..Len(v)
    BY <2>1, <2>2, TurnTakes, Zenon DEF s
  <2>3. CASE n > Len(v)
    <3>1. Turned(v, n) = [source |-> Len(s) + 1, target |-> v]
      BY <2>3 DEF Turned, s
    <3>2. Turned(v, n - 1) = [source |-> Len(s) + 1, target |-> v]
      <4>1. CASE n - 1 = Len(v)
        <5>1. SubSeq(v, 1, Len(v)) = v
          OBVIOUS
        <5>2. n - 1 <= Len(v)
          BY <1>1, <4>1
        <5> QED BY <1>1, <4>1, <5>1, <5>2 DEF Turned
      <4>2. CASE ~(n - 1 <= Len(v))
        BY <4>2 DEF Turned, s
      <4> QED BY <1>1, <2>3, <4>1, <4>2
    <3>3. Turn(s, [source |-> Len(s) + 1, target |-> v]) = [source |-> Len(s) + 1, target |-> v]
      BY <1>1 DEF Turn
    <3> QED BY <2>1, <3>1, <3>2, <3>3, Zenon
  <2> QED BY <1>1, <2>2, <2>3
<1>4. w[Len(s)].target = v
  <2>1. CASE Len(s) = Len(v)
    <3>1. SubSeq(v, 1, Len(v)) = v
      OBVIOUS
    <3> QED BY <1>1, <2>1, <3>1 DEF Turned
  <2>2. CASE Len(s) > Len(v)
    BY <1>1, <2>2 DEF Turned
  <2> QED BY <1>1, <2>1, <2>2
<1> HIDE DEF w
<1>5. Stripped(s) = w[Len(s)].target
  BY <1>1, <1>2, <1>3, LoopIs
<1> QED BY <1>4, <1>5 DEF s

\* What is behind what.
Joins(C, x, y, w) ==
  /\ w \in Seq(C) /\ Len(w) = Len(x) + Len(y) /\ Len(x) \in Nat /\ Len(y) \in Nat
  /\ \A j \in 1..Len(x) : w[j] = x[j]
  /\ \A j \in 1..Len(y) : w[Len(x) + j] = y[j]

LEMMA Joined ==
  ASSUME NEW C, NEW x \in Seq(C), NEW y \in Seq(C)
  PROVE  Joins(C, x, y, x \o y)
BY DEF Joins

\* What a command's options write, and where in the line the first k of them end.
Body(o) == IF IsPlain(o) THEN o.value ELSE <<Quote>> \o Protected(o.value) \o <<Quote>>
OptionTexts(c) == [i \in 1..Len(c.options) |-> Written(c.options[i])]
End(c, k) == Len(c.name) + Len(TextOf(OptionTexts(c), k))

LEMMA CommandIs ==
  ASSUME NEW c \in CommandsSent
  PROVE  /\ c.name \in Seq(Char) /\ \A i \in 1..Len(c.name) : c.name[i] # Space
         /\ Len(c.options) \in Nat
         /\ \A i \in 1..Len(c.options) :
              LET o == c.options[i] IN
              /\ o.opt \in OptionNames /\ o.opt \in Char
              /\ o.value \in Seq(Char) /\ \A j \in 1..Len(o.value) : o.value[j] # NUL
              /\ o.opt = Dash => i = Len(c.options) /\ o.value # <<>>
<1>1. /\ c.name \in Seq(STRING \ {Space, NUL})
      /\ c.options \in Seq([opt : OptionNames, value : Seq(STRING \ {NUL})])
      /\ \A i \in 1..Len(c.options) : c.options[i].opt = Dash => i = Len(c.options) /\ c.options[i].value # <<>>
  BY CommandAssumption
<1>2. \A v \in Seq(STRING \ {Space, NUL}) : v \in Seq(Char) /\ \A i \in 1..Len(v) : v[i] # Space
  BY DEF Char
<1>3. \A v \in Seq(STRING \ {NUL}) : v \in Seq(Char) /\ \A j \in 1..Len(v) : v[j] # NUL
  BY DEF Char
<1>4. OptionNames \subseteq Char
  BY CommandAssumption DEF OptionNames, Char
<1>5. Len(c.options) \in Nat
  BY <1>1
<1>6. ASSUME NEW i \in 1..Len(c.options)
      PROVE  /\ c.options[i].opt \in OptionNames /\ c.options[i].opt \in Char
             /\ c.options[i].value \in Seq(Char)
             /\ \A j \in 1..Len(c.options[i].value) : c.options[i].value[j] # NUL
  <2>1. c.options[i] \in [opt : OptionNames, value : Seq(STRING \ {NUL})]
    <3> DEFINE R == [opt : OptionNames, value : Seq(STRING \ {NUL})]
               s == c.options
    <3>1. s \in Seq(R) /\ i \in 1..Len(s)
      BY <1>1
    <3> HIDE DEF R, s
    <3>2. s[i] \in R
      BY <3>1
    <3> QED BY <3>2 DEF R, s
  <2>2. c.options[i].opt \in OptionNames /\ c.options[i].value \in Seq(STRING \ {NUL})
    BY <2>1
  <2> QED BY <1>3, <1>4, <2>2
<1> QED BY <1>1, <1>2, <1>5, <1>6

LEMMA BodyIs ==
  ASSUME NEW o, o.opt \in Char, o.value \in Seq(Char)
  PROVE  /\ Body(o) \in Seq(Char) /\ Written(o) = <<Space, Dash, o.opt, Space>> \o Body(o)
         /\ IsPlain(o) => Body(o) = o.value
         /\ ~IsPlain(o) =>
              /\ Len(Body(o)) = Len(Protected(o.value)) + 2
              /\ Body(o)[1] = Quote /\ Body(o)[Len(Protected(o.value)) + 2] = Quote
              /\ \A j \in 1..Len(Protected(o.value)) : Body(o)[j + 1] = Protected(o.value)[j]
<1> DEFINE p == Protected(o.value)
<1>1. p \in Seq(Char)
  BY ProtectedIs, Zenon
<1>2. Quote \in Char
  BY DEF Char
<1> HIDE DEF p
<1> DEFINE q == <<Quote>> \o p \o <<Quote>>
<1>3. /\ q \in Seq(Char) /\ Len(q) = Len(p) + 2 /\ q[1] = Quote /\ q[Len(p) + 2] = Quote
      /\ \A j \in 1..Len(p) : q[j + 1] = p[j]
  BY <1>1, <1>2
<1>4. Body(o) = IF IsPlain(o) THEN o.value ELSE q
  BY Zenon DEF Body, p
<1>5. Written(o) = <<Space, Dash, o.opt, Space>> \o Body(o)
  BY Zenon DEF Written, Body
<1> HIDE DEF q
<1> QED BY <1>3, <1>4, <1>5, Zenon DEF p

LEMMA WrittenIs ==
  ASSUME NEW o, o.opt \in Char, o.value \in Seq(Char)
  PROVE  /\ Written(o) \in Seq(Char) /\ Len(Written(o)) = Len(Body(o)) + 4 /\ Len(Body(o)) \in Nat
         /\ Written(o)[1] = Space /\ Written(o)[2] = Dash /\ Written(o)[3] = o.opt /\ Written(o)[4] = Space
         /\ \A j \in 1..Len(Body(o)) : Written(o)[4 + j] = Body(o)[j]
<1> DEFINE body == Body(o)
           front == <<Space, Dash, o.opt, Space>>
<1>1. body \in Seq(Char) /\ Written(o) = front \o body
  BY BodyIs, Zenon
<1>2. front \in Seq(Char) /\ Len(front) = 4
  BY DEF Char
<1>3. front[1] = Space /\ front[2] = Dash /\ front[3] = o.opt /\ front[4] = Space
  OBVIOUS
<1> HIDE DEF body, front
<1> DEFINE w == front \o body
<1>4. /\ w \in Seq(Char) /\ Len(w) = Len(body) + 4 /\ Len(body) \in Nat
      /\ \A j \in 1..4 : w[j] = front[j]
      /\ \A j \in 1..Len(body) : w[4 + j] = body[j]
  <2>1. body \in Seq(Char)
    BY <1>1
  <2>2. /\ w \in Seq(Char) /\ Len(w) = Len(front) + Len(body) /\ Len(body) \in Nat
        /\ \A j \in 1..Len(front) : w[j] = front[j]
        /\ \A j \in 1..Len(body) : w[Len(front) + j] = body[j]
    <3>1. Joins(Char, front, body, w)
      BY <1>2, <2>1, Joined, Zenon
    <3> QED BY <3>1, Zenon DEF Joins
  <2> HIDE DEF w
  <2>3. Len(w) = Len(body) + 4
    BY <1>2, <2>2
  <2> QED BY <1>2, <2>2, <2>3, Zenon
<1>5. w[1] = Space /\ w[2] = Dash /\ w[3] = o.opt /\ w[4] = Space
  <2>1. 1 \in 1..4 /\ 2 \in 1..4 /\ 3 \in 1..4 /\ 4 \in 1..4
    OBVIOUS
  <2> QED BY <1>3, <1>4, <2>1, Zenon
<1> HIDE DEF w
<1>6. Written(o) = w
  BY <1>1 DEF w
<1> QED BY <1>4, <1>5, <1>6, Zenon DEF body

\* The line of a command: its name, and each option at its place.
OptionAt(c, k, o, b) ==
  /\ End(c, k) = b + Len(Body(o)) + 4
  /\ Format(c)[b + 1] = Space /\ Format(c)[b + 2] = Dash
  /\ Format(c)[b + 3] = o.opt /\ Format(c)[b + 4] = Space
  /\ \A j \in 1..Len(Body(o)) : Format(c)[b + 4 + j] = Body(o)[j]
LineIs(c, line, N) ==
  /\ line \in Seq(Char) /\ Len(line) \in Nat /\ Len(c.name) <= Len(line)
  /\ \A i \in 1..Len(c.name) : line[i] = c.name[i]
  /\ N = 0 => line = c.name
  /\ End(c, 0) = Len(c.name) /\ End(c, N) = Len(line)
  /\ \A k \in 0..N : End(c, k) \in Nat /\ End(c, k) <= Len(line)
  /\ \A k \in 1..N : OptionAt(c, k, c.options[k], End(c, k - 1))

LEMMA LineOf == ASSUME NEW c \in CommandsSent PROVE LineIs(c, Format(c), Len(c.options))
<1> DEFINE N == Len(c.options)
           texts == OptionTexts(c)
           at(k) == Len(TextOf(texts, k))
           whole == TextOf(texts, N)
           line == Format(c)
<1>1. c.name \in Seq(Char) /\ N \in Nat
  BY CommandIs
<1>2. \A k \in 1..N : c.options[k].opt \in Char /\ c.options[k].value \in Seq(Char)
  BY CommandIs, Zenon
<1>3. texts \in [1..N -> Seq(Char)] /\ \A k \in 1..N : texts[k] = Written(c.options[k])
  <2>1. \A k \in 1..N : Written(c.options[k]) \in Seq(Char)
    BY <1>2, WrittenIs, Zenon
  <2> QED BY <2>1 DEF OptionTexts
<1>4. line = c.name \o whole
  <2>1. texts = [i \in 1..N |-> texts[i]]
    BY <1>3
  <2>2. texts = [i \in 1..Len(c.options) |-> Written(c.options[i])]
    BY DEF OptionTexts
  <2>3. whole = FlattenSeq(texts)
    BY <2>1, Zenon DEF TextOf
  <2> QED BY <2>2, <2>3, Zenon DEF Format
<1> HIDE DEF N, texts, line
<1>5. LaidOut(Char, texts, N)
  BY <1>1, <1>3, Located, Zenon
<1>6. /\ TextOf(texts, 0) = <<>>
      /\ whole \in Seq(Char) /\ at(0) = 0
      /\ \A k \in 0..N : at(k) \in Nat /\ at(k) <= Len(whole)
  <2>1. /\ TextOf(texts, 0) = <<>>
        /\ \A k \in 0..N : TextOf(texts, k) \in Seq(Char)
        /\ \A k \in 0..N : Len(TextOf(texts, k)) <= Len(TextOf(texts, N))
    BY <1>5, Zenon DEF LaidOut
  <2>2. N \in 0..N
    BY <1>1
  <2> QED BY <2>1, <2>2
<1>7. ASSUME NEW k \in 1..N
      PROVE  /\ at(k) = at(k - 1) + Len(texts[k])
             /\ \A j \in 1..Len(texts[k]) : whole[at(k - 1) + j] = texts[k][j]
  BY <1>5, Zenon DEF LaidOut
<1> HIDE DEF at, whole
<1>8. /\ line \in Seq(Char) /\ Len(line) = Len(c.name) + Len(whole) /\ Len(whole) \in Nat /\ Len(c.name) \in Nat
      /\ \A i \in 1..Len(c.name) : line[i] = c.name[i]
      /\ \A i \in 1..Len(whole) : line[Len(c.name) + i] = whole[i]
  BY <1>1, <1>4, <1>6
<1>9. N = 0 => line = c.name
  <2>1. N = 0 => whole = <<>>
    BY <1>6 DEF whole
  <2>2. c.name \o <<>> = c.name
    BY <1>1
  <2> QED BY <1>4, <2>1, <2>2
<1>10. \A k \in 0..N : End(c, k) = Len(c.name) + at(k)
  BY DEF End, at, texts
<1>11. /\ End(c, 0) = Len(c.name) /\ End(c, N) = Len(line)
       /\ \A k \in 0..N : End(c, k) \in Nat /\ End(c, k) <= Len(line)
  <2>1. at(N) = Len(whole)
    BY DEF at, whole
  <2>2. 0 \in 0..N /\ N \in 0..N
    BY <1>1
  <2>3. End(c, N) = Len(c.name) + Len(whole)
    BY <1>10, <2>1, <2>2, Zenon
  <2>4. End(c, 0) = Len(c.name) + 0
    BY <1>6, <1>10, <2>2, Zenon
  <2>5. ASSUME NEW k \in 0..N
        PROVE  End(c, k) \in Nat /\ End(c, k) <= Len(line)
    <3> DEFINE to == at(k)
               end == End(c, k)
    <3>1. to \in Nat /\ to <= Len(whole) /\ end = Len(c.name) + to
      BY <1>6, <1>10, Zenon
    <3> HIDE DEF to, end
    <3>2. end \in Nat /\ end <= Len(line)
      BY <1>8, <3>1
    <3> QED BY <3>2 DEF end
  <2> QED BY <1>8, <2>3, <2>4, <2>5
<1>12. ASSUME NEW k \in 1..N, NEW o, o = c.options[k], NEW b, b = End(c, k - 1)
       PROVE  OptionAt(c, k, o, b)
  <2> DEFINE w == Written(o)
  <2>1. /\ Len(w) = Len(Body(o)) + 4 /\ Len(Body(o)) \in Nat
        /\ w[1] = Space /\ w[2] = Dash /\ w[3] = o.opt /\ w[4] = Space
        /\ \A j \in 1..Len(Body(o)) : w[4 + j] = Body(o)[j]
    BY <1>2, <1>12, WrittenIs, Zenon
  <2>2. texts[k] = w
    BY <1>3, <1>12, Zenon
  <2>3. k - 1 \in 0..N /\ k \in 0..N
    BY <1>1
  <2> HIDE DEF w
  <2>4. /\ b = Len(c.name) + at(k - 1) /\ End(c, k) = Len(c.name) + at(k)
        /\ at(k - 1) \in Nat /\ at(k) \in Nat /\ at(k) <= Len(whole)
    BY <1>6, <1>10, <1>12, <2>3, Zenon
  <2>5. at(k) = at(k - 1) + Len(w)
    BY <1>7, <2>2, Zenon
  <2> DEFINE from == at(k - 1)
             to == at(k)
             end == End(c, k)
             name == Len(c.name)
             all == Len(whole)
             full == Len(w)
             inner == Len(Body(o))
  <2>10. /\ b = name + from /\ end = name + to /\ to = from + full /\ full = inner + 4
         /\ from \in Nat /\ to \in Nat /\ to <= all /\ name \in Nat /\ all \in Nat /\ inner \in Nat
    BY <1>8, <2>1, <2>4, <2>5, Zenon
  <2> HIDE DEF from, to, end, name, all, full, inner
  <2>11. /\ b + 0 = b /\ end = b + inner + 4
         /\ \A j \in 1..full : from + j \in 1..all /\ b + j = name + (from + j)
         /\ \A j \in 1..inner : 4 + j \in 1..full /\ b + (4 + j) = b + 4 + j
    BY <2>10
  <2>6. ASSUME NEW j \in 1..Len(w)
        PROVE  line[b + j] = w[j]
    <3>1. whole[from + j] = w[j]
      BY <1>7, <2>2, Zenon DEF from
    <3>2. from + j \in 1..Len(whole) /\ b + j = Len(c.name) + (from + j)
      BY <2>11, Zenon DEF all, full, name
    <3> QED BY <1>8, <3>1, <3>2, Zenon
  <2>7. 1 \in 1..Len(w) /\ 2 \in 1..Len(w) /\ 3 \in 1..Len(w) /\ 4 \in 1..Len(w)
    BY <2>1
  <2>8. ASSUME NEW j \in 1..Len(Body(o))
        PROVE  line[b + 4 + j] = Body(o)[j]
    <3>1. 4 + j \in 1..Len(w) /\ b + (4 + j) = b + 4 + j
      BY <2>11, Zenon DEF inner, full
    <3> QED BY <2>1, <2>6, <3>1, Zenon
  <2>9. end = b + Len(Body(o)) + 4
    BY <2>11, Zenon DEF inner
  <2> QED BY <2>1, <2>6, <2>7, <2>8, <2>9, Zenon DEF end, line, OptionAt
<1>13. Len(line) \in Nat /\ Len(c.name) <= Len(line)
  BY <1>8
<1> QED BY <1>8, <1>9, <1>11, <1>12, <1>13, Zenon DEF N, line, LineIs

\* A part of a line that is there character by character.
LEMMA SliceIs ==
  ASSUME NEW line \in Seq(Char), NEW v \in Seq(Char), NEW from \in Nat, from + Len(v) <= Len(line),
         \A j \in 1..Len(v) : line[from + j] = v[j]
  PROVE  Slice(line, from + 1, from + Len(v) + 1) = v
<1> DEFINE m == Len(v)
           part == SubSeq(line, from + 1, from + m)
<1>1. m \in Nat /\ Len(line) \in Nat
  OBVIOUS
<1>2. Slice(line, from + 1, from + m + 1) = part
  BY <1>1 DEF Slice
<1>3. part \in Seq(Char) /\ Len(part) = m /\ \A j \in 1..m : part[j] = line[from + j]
  <2>1. CASE m = 0
    <3>1. part = <<>>
      BY <1>1, <2>1
    <3> QED BY <2>1, <3>1
  <2>2. CASE m # 0
    <3>1. from + 1 \in 1..Len(line) /\ from + m \in (from + 1)..Len(line)
      BY <1>1, <2>2
    <3>2. /\ part \in Seq(Char) /\ Len(part) = (from + m) - (from + 1) + 1
          /\ \A j \in 1..((from + m) - (from + 1) + 1) : part[j] = line[(from + 1) + j - 1]
      BY <3>1, SubSeqProperties
    <3>3. (from + m) - (from + 1) + 1 = m /\ \A j \in 1..m : (from + 1) + j - 1 = from + j
      BY <1>1
    <3> HIDE DEF part, m
    <3> QED BY <3>2, <3>3, Zenon
  <2> QED BY <2>1, <2>2
<1> HIDE DEF part
<1>4. part = v
  BY <1>3
<1> QED BY <1>2, <1>4

\* One option more.
LEMMA OneMore ==
  ASSUME NEW c, NEW k \in Nat, NEW o, o = c.options[k + 1], o.opt \in OptionNames,
         NEW N \in Nat, k < N
  PROVE  /\ Given(c, k, o.opt) = {} =>
              /\ Meant(c, k)[o.opt] = <<>>
              /\ [Meant(c, k) EXCEPT ![o.opt] = <<o.value>>] = Meant(c, k + 1)
              /\ ~GivenTwice(c, k) => ~GivenTwice(c, k + 1)
         /\ Given(c, k, o.opt) # {} => Meant(c, k)[o.opt] # <<>> /\ GivenTwice(c, N)
<1>1. CASE Given(c, k, o.opt) = {}
  <2>1. \A x \in OptionNames : Given(c, k + 1, x) = IF x = o.opt THEN {k + 1} ELSE Given(c, k, x)
    BY <1>1 DEF Given
  <2>2. Meant(c, k)[o.opt] = <<>>
    BY <1>1 DEF Meant
  <2>3. [Meant(c, k) EXCEPT ![o.opt] = <<o.value>>] = Meant(c, k + 1)
    <3> SUFFICES ASSUME NEW x \in OptionNames
                 PROVE  [Meant(c, k) EXCEPT ![o.opt] = <<o.value>>][x] = Meant(c, k + 1)[x]
      BY DEF Meant
    <3>1. CASE x = o.opt
      <4>1. Given(c, k + 1, x) = {k + 1}
        BY <2>1, <3>1
      <4>2. (CHOOSE i \in Given(c, k + 1, x) : TRUE) = k + 1
        BY <4>1
      <4>3. Given(c, k + 1, x) # {}
        BY <4>1
      <4>4. Meant(c, k + 1)[x] = <<c.options[k + 1].value>>
        BY <4>2, <4>3, Zenon DEF Meant
      <4> QED BY <3>1, <4>4 DEF Meant
    <3>2. CASE x # o.opt
      <4>1. Given(c, k + 1, x) = Given(c, k, x)
        BY <2>1, <3>2
      <4>2. Meant(c, k + 1)[x] = Meant(c, k)[x]
        <5>1. CASE Given(c, k, x) = {}
          BY <4>1, <5>1 DEF Meant
        <5>2. CASE Given(c, k, x) # {}
          <6> DEFINE w == CHOOSE i \in Given(c, k, x) : TRUE
          <6>1. (CHOOSE i \in Given(c, k + 1, x) : TRUE) = w
            BY <4>1
          <6> HIDE DEF w
          <6>2. Meant(c, k)[x] = <<c.options[w].value>>
            BY <5>2, Zenon DEF Meant, w
          <6>3. Meant(c, k + 1)[x] = <<c.options[w].value>>
            BY <4>1, <5>2, <6>1, Zenon DEF Meant
          <6> QED BY <6>2, <6>3
        <5> QED BY <5>1, <5>2
      <4> QED BY <3>2, <4>2 DEF Meant
    <3> QED BY <3>1, <3>2
  <2>4. ASSUME GivenTwice(c, k + 1)
        PROVE  GivenTwice(c, k)
    <3>1. PICK i \in 1..(k + 1), j \in 1..(k + 1) : i # j /\ c.options[i].opt = c.options[j].opt
      BY <2>4 DEF GivenTwice
    <3>2. \A m \in 1..k : c.options[m].opt # o.opt
      BY <1>1 DEF Given
    <3>3. i # k + 1
      BY <3>1, <3>2
    <3>4. j # k + 1
      BY <3>1, <3>2
    <3> QED BY <3>1, <3>3, <3>4 DEF GivenTwice
  <2> QED BY <1>1, <2>2, <2>3, <2>4
<1>2. CASE Given(c, k, o.opt) # {}
  <2>1. Meant(c, k)[o.opt] # <<>>
    BY <1>2 DEF Meant
  <2>2. PICK i \in 1..k : c.options[i].opt = o.opt
    BY <1>2 DEF Given
  <2>3. i \in 1..N /\ k + 1 \in 1..N /\ i # k + 1
    OBVIOUS
  <2> QED BY <1>2, <2>1, <2>2, <2>3 DEF GivenTwice
<1> QED BY <1>1, <1>2

\* The parser when the first k options of c were read.
Reached(c, state, opt, begin, k) ==
  [state |-> state, opt |-> opt, begin |-> begin, cmd |-> c.name, options |-> Meant(c, k), error |-> OK]

LEMMA Moves ==
  ASSUME NEW c, NEW state, NEW opt, NEW begin, NEW k, NEW p, p = Reached(c, state, opt, begin, k)
  PROVE  /\ p.state = state /\ p.opt = opt /\ p.begin = begin /\ p.cmd = c.name
         /\ p.options = Meant(c, k) /\ p.error = OK
         /\ \A s : Became(p, s) = Reached(c, s, opt, begin, k)
         /\ \A s, x : [p EXCEPT !.state = s, !.opt = x] = Reached(c, s, x, begin, k)
         /\ \A s, x : [p EXCEPT !.state = s, !.begin = x] = Reached(c, s, opt, x, k)
<1>1. /\ p.state = state /\ p.opt = opt /\ p.begin = begin /\ p.cmd = c.name
      /\ p.options = Meant(c, k) /\ p.error = OK
  BY DEF Reached
<1>2. ASSUME NEW s
      PROVE  [p EXCEPT !.state = s] = Reached(c, s, opt, begin, k)
  BY DEF Reached
<1>3. ASSUME NEW s, NEW x
      PROVE  [Reached(c, s, opt, begin, k) EXCEPT !.opt = x] = Reached(c, s, x, begin, k)
  BY DEF Reached
<1>4. ASSUME NEW s, NEW x
      PROVE  [Reached(c, s, opt, begin, k) EXCEPT !.begin = x] = Reached(c, s, opt, x, k)
  BY DEF Reached
<1>5. \A s, x : [p EXCEPT !.state = s, !.opt = x] = Reached(c, s, x, begin, k)
  BY <1>2, <1>3
<1>6. \A s, x : [p EXCEPT !.state = s, !.begin = x] = Reached(c, s, opt, x, k)
  BY <1>2, <1>4
<1> QED BY <1>1, <1>2, <1>5, <1>6 DEF Became

\* A value is stored, or it is the second for its option.
IsRefused(q) ==
  /\ q.error = Duplicate
  /\ Became(q, "done").state = "done" /\ Became(q, "done").error = Duplicate
StoredOrRefused(c, q, state, opt, begin, k, N) ==
  \/ q = Reached(c, state, opt, begin, k) /\ ~GivenTwice(c, k)
  \/ IsRefused(q) /\ GivenTwice(c, N)

LEMMA Stores ==
  ASSUME NEW c, NEW state, NEW begin, NEW k \in Nat, NEW o, o = c.options[k + 1],
         o.opt \in OptionNames, NEW N \in Nat, k < N,
         NEW p, p = Reached(c, state, o.opt, begin, k), NEW s, ~GivenTwice(c, k)
  PROVE  StoredOrRefused(c, Store(p, o.value, s), s, o.opt, begin, k + 1, N)
<1>1. p.options = Meant(c, k) /\ p.opt = o.opt
  BY DEF Reached
<1>2. CASE Given(c, k, o.opt) = {}
  <2>1. /\ Meant(c, k)[o.opt] = <<>> /\ ~GivenTwice(c, k + 1)
        /\ [Meant(c, k) EXCEPT ![o.opt] = <<o.value>>] = Meant(c, k + 1)
    BY <1>2, OneMore
  <2>2. Store(p, o.value, s) = [p EXCEPT !.options[p.opt] = <<o.value>>, !.state = s]
    BY <1>1, <2>1, Zenon DEF Store
  <2>3. [p EXCEPT !.options[p.opt] = <<o.value>>, !.state = s]
        = [state |-> s, opt |-> o.opt, begin |-> begin, cmd |-> c.name,
           options |-> [Meant(c, k) EXCEPT ![o.opt] = <<o.value>>], error |-> OK]
    <3> DEFINE opts == [Meant(c, k) EXCEPT ![o.opt] = <<o.value>>]
               r == [state |-> state, opt |-> o.opt, begin |-> begin, cmd |-> c.name,
                     options |-> opts, error |-> OK]
    <3>1. [p.options EXCEPT ![p.opt] = <<o.value>>] = opts
      BY <1>1
    <3> HIDE DEF opts
    <3>2. [p EXCEPT !.options = opts] = r
      BY DEF Reached
    <3>3. [p EXCEPT !.options = [p.options EXCEPT ![p.opt] = <<o.value>>]] = r
      BY <3>1, <3>2
    <3>4. [r EXCEPT !.state = s]
          = [state |-> s, opt |-> o.opt, begin |-> begin, cmd |-> c.name, options |-> opts, error |-> OK]
      OBVIOUS
    <3> HIDE DEF r
    <3> QED BY <3>3, <3>4 DEF opts
  <2>4. Store(p, o.value, s) = Reached(c, s, o.opt, begin, k + 1)
    BY <2>1, <2>2, <2>3, Zenon DEF Reached
  <2> QED BY <2>1, <2>4, Zenon DEF StoredOrRefused
<1>3. CASE Given(c, k, o.opt) # {}
  <2>1. Meant(c, k)[o.opt] # <<>> /\ GivenTwice(c, N)
    BY <1>3, OneMore
  <2>2. Store(p, o.value, s) = Failed(p, Duplicate)
    BY <1>1, <2>1, Zenon DEF Store
  <2>3. Failed(p, Duplicate).error = Duplicate
    BY DEF Reached, Failed
  <2>4. /\ Became(Failed(p, Duplicate), "done").error = Duplicate
        /\ Became(Failed(p, Duplicate), "done").state = "done"
    <3> DEFINE r == [state |-> state, opt |-> o.opt, begin |-> begin, cmd |-> c.name,
                     options |-> Meant(c, k), error |-> Duplicate]
    <3>1. Failed(p, Duplicate) = r
      BY DEF Reached, Failed
    <3>2. [r EXCEPT !.state = "done"].error = Duplicate /\ [r EXCEPT !.state = "done"].state = "done"
      OBVIOUS
    <3> HIDE DEF r
    <3> QED BY <3>1, <3>2 DEF Became
  <2> QED BY <2>1, <2>2, <2>3, <2>4, Zenon DEF StoredOrRefused, IsRefused
<1> QED BY <1>2, <1>3

\* What is known of the option behind the first k: it begins behind b and ends at e.
OptionFacts(c, k, o, b, e, size_of_line, n, N) ==
  /\ size_of_line \in Nat /\ b \in Nat /\ n \in Nat /\ e = b + n + 4 /\ e <= size_of_line
  /\ k + 1 = N => e = size_of_line
  /\ k + 1 < N => e + 1 <= size_of_line /\ At(Format(c), e + 1) = Space
  /\ At(Format(c), b + 2) = Dash /\ At(Format(c), b + 3) = o.opt /\ At(Format(c), b + 4) = Space
  /\ \A j \in 1..n : Format(c)[b + 4 + j] = Body(o)[j] /\ At(Format(c), b + 4 + j) = Body(o)[j]
  /\ o.opt \in OptionNames /\ o.opt \in Char /\ o.value \in Seq(Char)
  /\ \A j \in 1..Len(o.value) : o.value[j] # NUL
  /\ o.opt = Dash => k + 1 = N /\ o.value # <<>>

LEMMA FactsOfOption ==
  ASSUME NEW c \in CommandsSent, NEW N, N = Len(c.options), NEW k \in Nat, k < N, NEW o, o = c.options[k + 1],
         NEW b, b = End(c, k), NEW e, e = End(c, k + 1), NEW m, m = Len(Format(c)), NEW n, n = Len(Body(o))
  PROVE  OptionFacts(c, k, o, b, e, m, n, N)
<1> DEFINE line == Format(c)
<1>0. N \in Nat /\ k + 1 \in 1..N /\ k \in 0..N /\ k + 1 \in 0..N /\ (k + 1) - 1 = k
  BY CommandIs
<1>1. LineIs(c, line, N)
  BY LineOf
<1>2. /\ o.opt \in OptionNames /\ o.opt \in Char /\ o.value \in Seq(Char)
      /\ \A j \in 1..Len(o.value) : o.value[j] # NUL
      /\ o.opt = Dash => k + 1 = N /\ o.value # <<>>
  BY <1>0, CommandIs, Zenon
<1>3. n \in Nat
  BY <1>2, WrittenIs, Zenon
<1> HIDE DEF line
<1>4. m = Len(line)
  BY DEF line
<1>5. m \in Nat /\ b \in Nat /\ e \in Nat /\ e <= m
  BY <1>0, <1>1, <1>4, Zenon DEF LineIs
<1>6. OptionAt(c, k + 1, o, b)
  BY <1>0, <1>1, Zenon DEF LineIs
<1>7. /\ e = b + n + 4
      /\ line[b + 1] = Space /\ line[b + 2] = Dash /\ line[b + 3] = o.opt /\ line[b + 4] = Space
      /\ \A j \in 1..n : line[b + 4 + j] = Body(o)[j]
  BY <1>6, Zenon DEF OptionAt, line
<1>8. \A i \in 1..m : At(line, i) = line[i]
  BY <1>4 DEF At
<1>9. b + 2 \in 1..m /\ b + 3 \in 1..m /\ b + 4 \in 1..m /\ \A j \in 1..n : b + 4 + j \in 1..m
  <2>1. e = b + n + 4
    BY <1>7
  <2> QED BY ONLY <1>3, <1>5, <2>1
<1>10. ASSUME k + 1 = N
       PROVE  e = m
  BY <1>1, <1>4, <1>10, Zenon DEF LineIs
<1>11. ASSUME k + 1 < N
       PROVE  e + 1 <= m /\ At(line, e + 1) = Space
  <2>1. k + 2 \in 1..N /\ (k + 2) - 1 = k + 1 /\ k + 2 \in 0..N
    BY <1>0, <1>11
  <2> DEFINE x == c.options[k + 2]
             y == Len(Body(x))
             z == End(c, k + 2)
  <2>2. OptionAt(c, k + 2, x, e)
    BY <1>1, <2>1, Zenon DEF LineIs
  <2>3. line[e + 1] = Space /\ z = e + y + 4
    BY <2>2, Zenon DEF OptionAt, line
  <2>4. z <= m
    BY <1>1, <1>4, <2>1, Zenon DEF LineIs
  <2>5. x.opt \in Char /\ x.value \in Seq(Char)
    BY <2>1, CommandIs, Zenon
  <2>6. y \in Nat
    BY <2>5, WrittenIs, Zenon
  <2> HIDE DEF x, y, z
  <2>7. e + 1 <= m /\ e + 1 \in 1..m
    <3>1. z = e + y + 4
      BY <2>3
    <3> QED BY ONLY <1>5, <2>4, <2>6, <3>1
  <2> QED BY <1>8, <2>3, <2>7, Zenon
<1>12. /\ At(line, b + 2) = Dash /\ At(line, b + 3) = o.opt /\ At(line, b + 4) = Space
       /\ \A j \in 1..n : At(line, b + 4 + j) = Body(o)[j]
  BY <1>7, <1>8, <1>9, Zenon
<1> QED BY <1>2, <1>3, <1>5, <1>7, <1>10, <1>11, <1>12, Zenon DEF OptionFacts, line

\* The machine while it reads option o, which begins behind b, the character at i.
InOption(p, i, o, b) ==
  \/ p.state = "normal" /\ i = b + 2
  \/ p.state = "option" /\ i = b + 3
  \/ p.state = "separator" /\ p.opt = o.opt /\ i = b + 4
  \/ p.state = "first" /\ p.opt = o.opt /\ p.begin = b + 5 /\ i = b + 5
  \/ /\ p.state = "value" /\ p.opt = o.opt /\ p.begin = b + 5 /\ IsPlain(o)
     /\ i \in (b + 6)..(b + 5 + Len(o.value))
  \/ /\ p.state = "quoted" /\ p.opt = o.opt /\ p.begin = b + 6 /\ ~IsPlain(o)
     /\ \E j \in 0..Len(o.value) : i = b + 6 + Len(TextOf(Pieces(o.value), j))
  \/ /\ p.state = "escaped" /\ p.opt = o.opt /\ p.begin = b + 6 /\ ~IsPlain(o)
     /\ \E j \in 1..Len(o.value) : /\ o.value[j] \in {Quote, Backslash}
                                   /\ i = b + 5 + Len(TextOf(Pieces(o.value), j))

\* It has read k options of c, and reads the next or is behind the last.
ReadingAt(c, p, i, k) ==
  /\ k \in 0..Len(c.options) /\ ~GivenTwice(c, k)
  /\ p = Reached(c, p.state, p.opt, p.begin, k)
  /\ \/ k < Len(c.options) /\ InOption(p, i, c.options[k + 1], End(c, k))
     \/ p.state = "skip" /\ i = End(c, k) + 1 /\ Format(c) # <<>>

Understood(c, p) ==
  LET n == Len(c.options) IN
  /\ p.error = IF Format(c) = <<>> THEN Bad ELSE IF GivenTwice(c, n) THEN Duplicate ELSE OK
  /\ p.error = OK => p.cmd = c.name /\ p.options = Meant(c, n)

\* It goes on, or it ends and has understood the command.
GoesOn(c, q, i) == q.error = OK /\ i <= Len(Format(c)) /\ q.state \in Machine /\ \E k : ReadingAt(c, q, i + 1, k)
Stops(c, q, i) ==
  /\ q.error # OK \/ i > Len(Format(c))
  /\ Became(q, "done").state = "done" /\ Understood(c, Became(q, "done"))

\* What the machine does in each of its states.
Chose(p, o) == [p EXCEPT !.state = "separator", !.opt = o]
Begins(p, s, i) == [p EXCEPT !.state = s, !.begin = i]

LEMMA NormalReads ==
  ASSUME NEW p, NEW ch, NEW i, NEW line, p.state = "normal"
  PROVE  ReadChar(p, ch, i, line) = IF ch = Dash THEN Became(p, "option") ELSE Failed(p, Bad)
BY DEF ReadChar

LEMMA OptionReads ==
  ASSUME NEW p, NEW ch, NEW i, NEW line, p.state = "option", ch \in OptionNames
  PROVE  ReadChar(p, ch, i, line) = Chose(p, ch)
BY DEF ReadChar, OptionNames, Chose

LEMMA SeparatorReads ==
  ASSUME NEW p, NEW ch, NEW i, NEW line, p.state = "separator", ch = Space
  PROVE  ReadChar(p, ch, i, line) = Begins(p, "first", i + 1)
BY DEF ReadChar, Begins

LEMMA FirstReads ==
  ASSUME NEW p, NEW ch, NEW i, NEW line, p.state = "first"
  PROVE  ReadChar(p, ch, i, line) = IF ch = Quote /\ p.opt # Dash
                                    THEN Begins(p, "quoted", i + 1)
                                    ELSE Became(p, "value")
BY DEF ReadChar, Begins

ReadsPlain(p, ch, i, line) ==
  /\ (ch = Space /\ p.opt # Dash) \/ ch = NUL =>
       ReadChar(p, ch, i, line) = Store(p, Slice(line, p.begin, i), "normal")
  /\ ~((ch = Space /\ p.opt # Dash) \/ ch = NUL) => ReadChar(p, ch, i, line) = p

LEMMA ValueReads ==
  ASSUME NEW p, NEW ch, NEW i, NEW line, p.state = "value"
  PROVE  ReadsPlain(p, ch, i, line)
BY DEF ReadChar, ReadsPlain

ReadsQuoted(p, ch, i, line) ==
  /\ ch = Backslash => ReadChar(p, ch, i, line) = Became(p, "escaped")
  /\ ch = Quote => ReadChar(p, ch, i, line) = Store(p, Stripped(Slice(line, p.begin, i)), "skip")
  /\ ch \notin {Quote, Backslash} => ReadChar(p, ch, i, line) = p

LEMMA QuotedReads ==
  ASSUME NEW p, NEW ch, NEW i, NEW line, p.state = "quoted"
  PROVE  ReadsQuoted(p, ch, i, line)
BY DEF ReadChar, ReadsQuoted, Quote, Backslash

LEMMA OthersRead ==
  ASSUME NEW p, NEW ch, NEW i, NEW line
  PROVE  /\ p.state = "skip" => ReadChar(p, ch, i, line) = Became(p, "normal")
         /\ p.state = "escaped" => ReadChar(p, ch, i, line) = Became(p, "quoted")
BY DEF ReadChar

LEMMA Goes ==
  ASSUME NEW c, NEW N, N = Len(c.options), NEW k \in 0..N, NEW o, NEW b,
         o = c.options[k + 1], b = End(c, k), ~GivenTwice(c, k),
         NEW s \in Machine, NEW x, NEW y, NEW q, q = Reached(c, s, x, y, k), NEW i, i <= Len(Format(c)),
         (k < N /\ InOption(q, i + 1, o, b)) \/ (s = "skip" /\ i + 1 = b + 1 /\ Format(c) # <<>>)
  PROVE  GoesOn(c, q, i)
<1>1. q.state = s /\ q.opt = x /\ q.begin = y /\ q.error = OK
  BY DEF Reached
<1>2. ReadingAt(c, q, i + 1, k)
  BY <1>1, Zenon DEF ReadingAt
<1> QED BY <1>1, <1>2 DEF GoesOn

\* Up to the value.
LEMMA ReadsToValue ==
  ASSUME NEW c \in CommandsSent, NEW N, N = Len(c.options), NEW k \in Nat, k < N,
         NEW o, o = c.options[k + 1], NEW b, b = End(c, k), ~GivenTwice(c, k),
         NEW p, NEW st, NEW x, NEW y, p = Reached(c, st, x, y, k), NEW i,
         InOption(p, i, o, b), p.state \in {"normal", "option", "separator", "first"},
         NEW q, q = ReadChar(p, At(Format(c), i), i, Format(c))
  PROVE  GoesOn(c, q, i)
<1> DEFINE m == Len(Format(c))
           n == Len(Body(o))
           e == End(c, k + 1)
           ch == At(Format(c), i)
<1>1. OptionFacts(c, k, o, b, e, m, n, N)
  BY FactsOfOption, Zenon
<1>2. /\ m \in Nat /\ b \in Nat /\ n \in Nat /\ e = b + n + 4 /\ e <= m
      /\ At(Format(c), b + 2) = Dash /\ At(Format(c), b + 3) = o.opt /\ At(Format(c), b + 4) = Space
      /\ \A j \in 1..n : At(Format(c), b + 4 + j) = Body(o)[j]
      /\ o.opt \in OptionNames /\ o.opt \in Char /\ o.value \in Seq(Char)
      /\ o.opt = Dash => o.value # <<>>
  BY <1>1, Zenon DEF OptionFacts
<1> HIDE DEF m, n, e, ch
<1>3. k \in 0..N
  BY CommandIs
<1>4. /\ q = ReadChar(p, ch, i, Format(c)) /\ m = Len(Format(c))
      /\ b + 2 <= m /\ b + 3 <= m /\ b + 4 <= m
      /\ (b + 2) + 1 = b + 3 /\ (b + 3) + 1 = b + 4 /\ (b + 4) + 1 = b + 5 /\ (b + 5) + 1 = b + 6
  <2>1. e = b + n + 4 /\ m \in Nat /\ b \in Nat /\ n \in Nat /\ e <= m
    BY <1>2
  <2>2. /\ b + 2 <= m /\ b + 3 <= m /\ b + 4 <= m
        /\ (b + 2) + 1 = b + 3 /\ (b + 3) + 1 = b + 4 /\ (b + 4) + 1 = b + 5 /\ (b + 5) + 1 = b + 6
    BY ONLY <2>1
  <2> QED BY <2>2, Zenon DEF ch, m
<1>9. p.state = st /\ p.opt = x /\ p.begin = y
  BY DEF Reached
<1>5. CASE p.state = "normal"
  <2>1. i = b + 2
    BY <1>5 DEF InOption
  <2>2. q = Became(p, "option")
    <3>1. ch = Dash
      BY <1>2, <2>1, Zenon DEF ch
    <3> QED BY <1>4, <1>5, <3>1, NormalReads, Zenon
  <2>3. q = Reached(c, "option", x, y, k)
    BY <1>9, <2>2 DEF Reached, Became, Chose, Begins
  <2>4. InOption(q, i + 1, o, b)
    <3>1. q.state = "option" /\ i + 1 = b + 3
      <4>1. i + 1 = b + 3
        BY <1>4, <2>1, Zenon
      <4>2. q.state = "option"
        BY <2>3 DEF Reached
      <4> QED BY <4>1, <4>2
    <3> QED BY <3>1, Zenon DEF InOption
  <2>5. "option" \in Machine
    BY DEF Machine
  <2> QED BY <1>3, <1>4, <2>1, <2>3, <2>4, <2>5, Goes, Zenon
<1>6. CASE p.state = "option"
  <2>1. i = b + 3
    BY <1>6 DEF InOption
  <2>2. q = Chose(p, o.opt)
    <3>1. ch = o.opt
      BY <1>2, <2>1, Zenon DEF ch
    <3>2. ch \in OptionNames
      BY <1>2, <3>1
    <3>3. q = Chose(p, ch)
      BY ONLY <1>4, <1>6, <3>2, OptionReads, Zenon
    <3> QED BY <3>1, <3>3, Zenon
  <2>3. q = Reached(c, "separator", o.opt, y, k)
    BY <1>9, <2>2 DEF Reached, Became, Chose, Begins
  <2>4. InOption(q, i + 1, o, b)
    <3>1. q.state = "separator" /\ q.opt = o.opt /\ i + 1 = b + 4
      <4>1. i + 1 = b + 4
        BY <1>4, <2>1, Zenon
      <4>2. q.state = "separator" /\ q.opt = o.opt
        BY <2>3 DEF Reached
      <4> QED BY <4>1, <4>2
    <3> QED BY <3>1, Zenon DEF InOption
  <2>5. "separator" \in Machine
    BY DEF Machine
  <2> QED BY <1>3, <1>4, <2>1, <2>3, <2>4, <2>5, Goes, Zenon
<1>7. CASE p.state = "separator"
  <2>1. i = b + 4 /\ p.opt = o.opt
    BY <1>7 DEF InOption
  <2>2. q = Begins(p, "first", b + 5)
    <3>1. ch = Space
      BY <1>2, <2>1, Zenon DEF ch
    <3>2. q = Begins(p, "first", i + 1)
      BY ONLY <1>4, <1>7, <3>1, SeparatorReads, Zenon
    <3>3. i + 1 = b + 5
      BY <1>4, <2>1, Zenon
    <3> QED BY <3>2, <3>3, Zenon
  <2>3. q = Reached(c, "first", o.opt, b + 5, k)
    BY <1>9, <2>1, <2>2 DEF Reached, Became, Chose, Begins
  <2>4. InOption(q, i + 1, o, b)
    <3>1. q.state = "first" /\ q.opt = o.opt /\ q.begin = b + 5 /\ i + 1 = b + 5
      <4>1. i + 1 = b + 5
        BY <1>4, <2>1, Zenon
      <4>2. q.state = "first" /\ q.opt = o.opt /\ q.begin = b + 5
        BY <2>3 DEF Reached
      <4> QED BY <4>1, <4>2
    <3> QED BY <3>1, Zenon DEF InOption
  <2>5. "first" \in Machine
    BY DEF Machine
  <2> QED BY <1>3, <1>4, <2>1, <2>3, <2>4, <2>5, Goes, Zenon
<1>8. CASE p.state = "first"
  <2>1. i = b + 5 /\ p.opt = o.opt /\ p.begin = b + 5
    BY <1>8 DEF InOption
  <2>2. CASE IsPlain(o)
    <3>1. Body(o) = o.value /\ o.value # <<>> /\ ~(o.value[1] = Quote /\ o.opt # Dash)
      BY <1>2, <2>2 DEF IsPlain, Body
    <3>2. n = Len(o.value) /\ n \in Nat \ {0}
      BY <1>2, <3>1 DEF n
    <3>3. /\ i \in (b + 5)..m /\ 1 \in 1..n /\ b + 4 + 1 = i /\ i <= m
          /\ i + 1 \in (b + 6)..(b + 5 + n)
      <4>1. e = b + n + 4 /\ m \in Nat /\ b \in Nat /\ e <= m /\ i = b + 5
        BY <1>2, <2>1
      <4>2. n \in Nat \ {0}
        BY <3>2
      <4> QED BY ONLY <4>1, <4>2
    <3>4. ch = o.value[1]
      BY <1>2, <3>1, <3>3, Zenon DEF ch
    <3>5. q = Became(p, "value")
      <4>1. ~(ch = Quote /\ p.opt # Dash)
        BY <2>1, <3>1, <3>4, Zenon
      <4>2. q = IF ch = Quote /\ p.opt # Dash THEN Begins(p, "quoted", i + 1)
                ELSE Became(p, "value")
        BY <1>4, <1>8, FirstReads, Zenon
      <4> QED BY <4>1, <4>2, Zenon
    <3>6. q = Reached(c, "value", o.opt, b + 5, k)
      BY <1>9, <2>1, <3>5 DEF Reached, Became, Chose, Begins
    <3>7. InOption(q, i + 1, o, b)
      <4>1. q.state = "value" /\ q.opt = o.opt /\ q.begin = b + 5
        BY <3>6 DEF Reached
      <4> QED BY <2>2, <3>2, <3>3, <4>1, Zenon DEF InOption
    <3>8. "value" \in Machine
      BY DEF Machine
    <3> QED BY <1>3, <1>4, <3>3, <3>6, <3>7, <3>8, Goes, Zenon
  <2>3. CASE ~IsPlain(o)
    <3>1. /\ n = Len(Protected(o.value)) + 2 /\ Body(o)[1] = Quote
      BY <1>2, <2>3, BodyIs, Zenon DEF n
    <3>2. o.opt # Dash
      BY <2>3 DEF IsPlain
    <3>3. Protected(o.value) \in Seq(Char) /\ Len(TextOf(Pieces(o.value), 0)) = 0
      BY <1>2, ProtectedIs, Zenon
    <3>4. /\ 1 \in 1..n /\ b + 4 + 1 = i /\ i <= m /\ i + 1 = b + 6
      <4>1. e = b + n + 4 /\ m \in Nat /\ b \in Nat /\ e <= m /\ i = b + 5 /\ n = Len(Protected(o.value)) + 2
        BY <1>2, <2>1, <3>1
      <4>2. Len(Protected(o.value)) \in Nat
        BY <3>3
      <4> QED BY ONLY <4>1, <4>2
    <3>5. ch = Quote
      BY <1>2, <3>1, <3>4, Zenon DEF ch
    <3>6. q = Begins(p, "quoted", b + 6)
      <4>1. ch = Quote /\ p.opt # Dash
        BY <2>1, <3>2, <3>5, Zenon
      <4>2. q = IF ch = Quote /\ p.opt # Dash THEN Begins(p, "quoted", i + 1)
                ELSE Became(p, "value")
        BY <1>4, <1>8, FirstReads, Zenon
      <4>3. q = Begins(p, "quoted", i + 1)
        BY <4>1, <4>2, Zenon
      <4> QED BY <3>4, <4>3, Zenon
    <3>7. q = Reached(c, "quoted", o.opt, b + 6, k)
      BY <1>9, <2>1, <3>6 DEF Reached, Became, Chose, Begins
    <3>8. InOption(q, i + 1, o, b)
      <4>1. q.state = "quoted" /\ q.opt = o.opt /\ q.begin = b + 6
        BY <3>7 DEF Reached
      <4>2. 0 \in 0..Len(o.value) /\ i + 1 = b + 6 + Len(TextOf(Pieces(o.value), 0))
        <5>1. 0 \in 0..Len(o.value) /\ b + 6 = (b + 6) + 0
          <6>1. Len(o.value) \in Nat /\ b \in Nat
            <7>1. o.value \in Seq(Char)
              BY <1>2, Zenon
            <7>2. Len(o.value) \in Nat
              BY ONLY <7>1
            <7> QED BY <1>2, <7>2, Zenon
          <6> QED BY ONLY <6>1
        <5> QED BY <3>3, <3>4, <5>1, Zenon
      <4> QED BY <2>3, <4>1, <4>2, Zenon DEF InOption
    <3>9. "quoted" \in Machine
      BY DEF Machine
    <3> QED BY <1>3, <1>4, <3>4, <3>7, <3>8, <3>9, Goes, Zenon
  <2> QED BY <2>2, <2>3
<1> QED BY <1>5, <1>6, <1>7, <1>8

\* The command is refused, or all of it was read.
LEMMA Refused ==
  ASSUME NEW c, GivenTwice(c, Len(c.options)), Format(c) # <<>>, NEW q, NEW i,
         IsRefused(q)
  PROVE  Stops(c, q, i)
BY DEF Stops, Understood, IsRefused, Duplicate, OK

LEMMA Finished ==
  ASSUME NEW c, NEW N, N = Len(c.options), ~GivenTwice(c, N), Format(c) # <<>>,
         NEW s, NEW x, NEW y, NEW q, q = Reached(c, s, x, y, N), NEW i, i > Len(Format(c))
  PROVE  Stops(c, q, i)
<1>1. Became(q, "done") = Reached(c, "done", x, y, N)
  BY DEF Became, Reached
<1>2. /\ Became(q, "done").cmd = c.name /\ Became(q, "done").options = Meant(c, N)
      /\ Became(q, "done").error = OK /\ Became(q, "done").state = "done"
  BY <1>1 DEF Reached
<1>3. Understood(c, Became(q, "done"))
  BY <1>2, Zenon DEF Understood
<1> QED BY <1>2, <1>3 DEF Stops

LEMMA IsIn ==
  ASSUME NEW v \in Seq(Char), NEW j \in 1..Len(v)
  PROVE  v[j] \in ToSet(v)
BY DEF ToSet

\* The value of an option that is not quoted.
LEMMA ReadsValue ==
  ASSUME NEW c \in CommandsSent, NEW N, N = Len(c.options), NEW k \in Nat, k < N,
         NEW o, o = c.options[k + 1], NEW b, b = End(c, k), ~GivenTwice(c, k),
         NEW p, NEW st, NEW x, NEW y, p = Reached(c, st, x, y, k), NEW i,
         InOption(p, i, o, b), p.state = "value",
         NEW q, q = ReadChar(p, At(Format(c), i), i, Format(c))
  PROVE  GoesOn(c, q, i) \/ Stops(c, q, i)
<1> DEFINE line == Format(c)
           m == Len(Format(c))
           n == Len(Body(o))
           e == End(c, k + 1)
           ch == At(Format(c), i)
<1>1. OptionFacts(c, k, o, b, e, m, n, N)
  BY FactsOfOption, Zenon
<1>2. /\ m \in Nat /\ b \in Nat /\ n \in Nat /\ e = b + n + 4 /\ e <= m
      /\ k + 1 = N => e = m
      /\ k + 1 < N => e + 1 <= m /\ At(Format(c), e + 1) = Space
      /\ \A j \in 1..n : line[b + 4 + j] = Body(o)[j] /\ At(Format(c), b + 4 + j) = Body(o)[j]
      /\ o.opt \in OptionNames /\ o.opt \in Char /\ o.value \in Seq(Char)
      /\ \A j \in 1..Len(o.value) : o.value[j] # NUL
      /\ o.opt = Dash => k + 1 = N /\ o.value # <<>>
  BY <1>1, Zenon DEF OptionFacts
<1>3. line \in Seq(Char)
  BY LineOf, Zenon DEF LineIs
<1>4. k \in 0..N /\ N \in Nat /\ k + 1 \in Nat /\ k + 1 \in 0..N /\ k + 1 + 1 \in Nat
  BY CommandIs
<1>5. p.state = st /\ p.opt = x /\ p.begin = y
  BY DEF Reached
<1>6. p.opt = o.opt /\ p.begin = b + 5 /\ IsPlain(o) /\ i \in (b + 6)..(b + 5 + Len(o.value))
  BY DEF InOption
<1>7. Body(o) = o.value /\ (o.opt # Dash => Space \notin ToSet(o.value))
  BY <1>6, Zenon DEF IsPlain, Body
<1>8. n = Len(o.value)
  BY <1>7 DEF n
<1>9. line # <<>>
  <2>1. Len(line) # 0
    <3>1. e = b + n + 4 /\ m \in Nat /\ b \in Nat /\ n \in Nat /\ e <= m
      BY <1>2
    <3>2. m # 0
      BY ONLY <3>1
    <3> QED BY <3>2, Zenon
  <2> QED BY <2>1
<1>19. q = ReadChar(p, ch, i, line) /\ m = Len(line)
  BY Zenon DEF ch, line, m
<1>21. Format(c) = line
  BY Zenon DEF line
<1> HIDE DEF line, m, n, e, ch
<1>20. /\ m = Len(line)
       /\ (ch = Space /\ p.opt # Dash) \/ ch = NUL => q = Store(p, Slice(line, p.begin, i), "normal")
       /\ ~((ch = Space /\ p.opt # Dash) \/ ch = NUL) => q = p
  <2>1. p.state = "value"
    OBVIOUS
  <2>2. ReadsPlain(p, ch, i, line)
    BY ONLY <2>1, ValueReads, Zenon
  <2> QED BY ONLY <1>19, <2>2, Zenon DEF ReadsPlain
<1>10. CASE i < b + 5 + n
  <2>1. /\ i - (b + 4) \in 1..n /\ b + 4 + (i - (b + 4)) = i /\ i <= m
        /\ i + 1 \in (b + 6)..(b + 5 + n)
    <3>1. /\ e = b + n + 4 /\ m \in Nat /\ b \in Nat /\ n \in Nat /\ e <= m
          /\ i \in (b + 6)..(b + 5 + n) /\ i < b + 5 + n
      BY <1>2, <1>6, <1>8, <1>10
    <3> QED BY ONLY <3>1
  <2>2. ch = o.value[i - (b + 4)]
    <3>1. At(Format(c), b + 4 + (i - (b + 4))) = Body(o)[i - (b + 4)]
      BY <1>2, <2>1, Zenon
    <3> QED BY <1>7, <2>1, <3>1, Zenon DEF ch
  <2>3. ch # NUL /\ ~(ch = Space /\ p.opt # Dash)
    <3>1. ch # NUL
      BY <1>2, <1>8, <2>1, <2>2, Zenon
    <3>2. ASSUME ch = Space
          PROVE  Space \in ToSet(o.value)
      <4>1. o.value \in Seq(Char) /\ i - (b + 4) \in 1..Len(o.value)
        BY <1>2, <1>8, <2>1, Zenon
      <4>2. o.value[i - (b + 4)] \in ToSet(o.value)
        BY ONLY <4>1, IsIn, Zenon
      <4> QED BY <2>2, <3>2, <4>2, Zenon
    <3> QED BY <1>6, <1>7, <3>1, <3>2, Zenon
  <2>4. q = p
    BY <1>20, <2>3, Zenon
  <2>5. q = Reached(c, "value", o.opt, b + 5, k)
    BY <1>5, <1>6, <2>4, Zenon
  <2>6. InOption(q, i + 1, o, b)
    <3>1. q.state = "value" /\ q.opt = o.opt /\ q.begin = b + 5
      BY <1>6, <2>4, Zenon
    <3> QED BY <1>6, <1>8, <2>1, <3>1, Zenon DEF InOption
  <2>7. "value" \in Machine
    BY DEF Machine
  <2>8. i <= Len(Format(c))
    BY <1>20, <1>21, <2>1, Zenon
  <2>9. GoesOn(c, q, i)
    BY <1>4, <2>5, <2>6, <2>7, <2>8, Goes, Zenon
  <2> QED BY <2>9, Zenon
<1>11. CASE i = b + 5 + n
  <2>1. i = e + 1 /\ b + 4 + n = e /\ (b + 4) + 1 = b + 5 /\ (b + 4) + n + 1 = i
    <3>1. e = b + n + 4 /\ b \in Nat /\ n \in Nat /\ i = b + 5 + n
      BY <1>2, <1>11
    <3> QED BY ONLY <3>1
  <2>2. Slice(line, p.begin, i) = o.value
    <3>1. b + 4 \in Nat /\ (b + 4) + n <= m
      <4>1. e = b + n + 4 /\ m \in Nat /\ b \in Nat /\ n \in Nat /\ e <= m
        BY <1>2
      <4> QED BY ONLY <4>1
    <3>2. \A j \in 1..Len(o.value) : line[(b + 4) + j] = o.value[j]
      BY <1>2, <1>7, <1>8, Zenon
    <3>3. (b + 4) + Len(o.value) <= Len(line)
      BY <1>8, <1>20, <3>1, Zenon
    <3>4. Slice(line, (b + 4) + 1, (b + 4) + Len(o.value) + 1) = o.value
      BY <1>2, <1>3, <3>1, <3>2, <3>3, SliceIs, Zenon
    <3> QED BY <1>6, <1>8, <2>1, <3>4, Zenon
  <2>3. (ch = Space /\ p.opt # Dash) \/ ch = NUL
    <3>1. CASE k + 1 < N
      <4>1. ch = Space
        BY <1>2, <2>1, <3>1, Zenon DEF ch
      <4>2. k + 1 # N
        BY <1>4, <3>1
      <4> QED BY <1>2, <1>6, <4>1, <4>2, Zenon
    <3>2. CASE ~(k + 1 < N)
      <4>1. k + 1 = N
        BY <1>4, <3>2
      <4>2. ~(i <= m)
        <5>1. e = m /\ i = e + 1 /\ m \in Nat
          BY <1>2, <2>1, <4>1
        <5> QED BY ONLY <5>1
      <4>3. ch = NUL
        BY <1>20, <1>21, <4>2, Zenon DEF ch, At
      <4> QED BY <4>3
    <3> QED BY <3>1, <3>2
  <2>4. q = Store(p, o.value, "normal")
    BY <1>20, <2>2, <2>3, Zenon
  <2>5. p = Reached(c, "value", o.opt, b + 5, k)
    BY <1>5, <1>6, Zenon
  <2>6. \/ q = Reached(c, "normal", o.opt, b + 5, k + 1) /\ ~GivenTwice(c, k + 1)
        \/ IsRefused(q) /\ GivenTwice(c, N)
    <3>1. StoredOrRefused(c, Store(p, o.value, "normal"), "normal", o.opt, b + 5, k + 1, N)
      BY <1>2, <1>4, <2>5, Stores, Zenon
    <3> QED BY <2>4, <3>1, Zenon DEF StoredOrRefused
  <2>7. CASE IsRefused(q) /\ GivenTwice(c, N)
    BY <1>9, <1>21, <2>7, Refused, Zenon
  <2>8. CASE q = Reached(c, "normal", o.opt, b + 5, k + 1) /\ ~GivenTwice(c, k + 1)
    <3>1. CASE k + 1 < N
      <4> DEFINE z == c.options[(k + 1) + 1]
      <4>1. InOption(q, i + 1, z, e)
        <5>1. i + 1 = e + 2
          <6>1. i = e + 1 /\ e = b + n + 4 /\ b \in Nat /\ n \in Nat
            BY <1>2, <2>1
          <6> QED BY ONLY <6>1
        <5>2. q.state = "normal"
          BY <2>8 DEF Reached
        <5> QED BY <5>1, <5>2, Zenon DEF InOption
      <4>2. "normal" \in Machine
        BY DEF Machine
      <4>3. i <= Len(Format(c))
        BY <1>2, <1>20, <1>21, <2>1, <3>1, Zenon
      <4>4. e = End(c, k + 1)
        BY DEF e
      <4> HIDE DEF z
      <4>5. z = c.options[(k + 1) + 1]
        BY DEF z
      <4>6. GoesOn(c, q, i)
        BY <1>4, <2>8, <3>1, <4>1, <4>2, <4>3, <4>4, <4>5, Goes, Zenon
      <4> QED BY <4>6, Zenon
    <3>2. CASE ~(k + 1 < N)
      <4>1. k + 1 = N
        BY <1>4, <3>2
      <4>2. i > Len(Format(c))
        <5>1. e = m /\ i = e + 1 /\ m \in Nat
          BY <1>2, <2>1, <4>1
        <5>2. i > m
          BY ONLY <5>1
        <5> QED BY <1>20, <1>21, <5>2, Zenon
      <4>3. q = Reached(c, "normal", o.opt, b + 5, N) /\ ~GivenTwice(c, N)
        BY <2>8, <4>1, Zenon
      <4>4. Stops(c, q, i)
        BY <1>9, <1>21, <4>2, <4>3, Finished, Zenon
      <4> QED BY <4>4, Zenon
    <3> QED BY <3>1, <3>2
  <2> QED BY <2>6, <2>7, <2>8
<1>12. i < b + 5 + n \/ i = b + 5 + n
  <2>1. i \in (b + 6)..(b + 5 + n) /\ b \in Nat /\ n \in Nat
    BY <1>2, <1>6, <1>8
  <2> QED BY ONLY <2>1
<1> QED BY <1>10, <1>11, <1>12

\* The value of an option that is quoted.
QuotedFacts(c, v, b, e, size_of_line) ==
  /\ size_of_line \in Nat /\ b \in Nat /\ Len(Protected(v)) \in Nat /\ Len(v) \in Nat
  /\ e = b + 6 + Len(Protected(v)) /\ e <= size_of_line /\ At(Format(c), e) = Quote
  /\ \A j \in 1..Len(Protected(v)) : /\ Format(c)[b + 5 + j] = Protected(v)[j]
                                     /\ At(Format(c), b + 5 + j) = Protected(v)[j]

LEMMA FactsOfQuoted ==
  ASSUME NEW c, NEW k, NEW o, NEW b, NEW e, NEW m, NEW n, NEW N,
         OptionFacts(c, k, o, b, e, m, n, N), n = Len(Body(o)), ~IsPlain(o)
  PROVE  QuotedFacts(c, o.value, b, e, m)
<1> DEFINE v == o.value
           y == Len(Protected(v))
<1>1. /\ m \in Nat /\ b \in Nat /\ n \in Nat /\ e = b + n + 4 /\ e <= m
      /\ \A j \in 1..n : Format(c)[b + 4 + j] = Body(o)[j] /\ At(Format(c), b + 4 + j) = Body(o)[j]
      /\ o.opt \in Char /\ v \in Seq(Char)
  BY Zenon DEF OptionFacts
<1>2. /\ n = y + 2 /\ Body(o)[y + 2] = Quote
      /\ \A j \in 1..y : Body(o)[j + 1] = Protected(v)[j]
  BY <1>1, BodyIs, Zenon
<1>3. y \in Nat /\ Len(v) \in Nat
  <2>1. Protected(v) \in Seq(Char)
    BY <1>1, ProtectedIs, Zenon
  <2>2. y \in Nat
    BY ONLY <2>1
  <2>3. v \in Seq(Char)
    BY <1>1
  <2>4. Len(v) \in Nat
    BY ONLY <2>3
  <2> QED BY <2>2, <2>4
<1> HIDE DEF v, y
<1>4. e = b + 6 + y /\ y + 2 \in 1..n /\ b + 4 + (y + 2) = e
  <2>1. m \in Nat /\ b \in Nat /\ n \in Nat /\ e = b + n + 4 /\ n = y + 2 /\ y \in Nat
    BY <1>1, <1>2, <1>3
  <2> QED BY ONLY <2>1
<1>5. At(Format(c), e) = Quote
  <2>1. At(Format(c), b + 4 + (y + 2)) = Body(o)[y + 2]
    BY <1>1, <1>4, Zenon
  <2> QED BY <1>2, <1>4, <2>1, Zenon
<1>6. ASSUME NEW j \in 1..y
      PROVE  Format(c)[b + 5 + j] = Protected(v)[j] /\ At(Format(c), b + 5 + j) = Protected(v)[j]
  <2>1. j + 1 \in 1..n /\ b + 4 + (j + 1) = b + 5 + j
    <3>1. b \in Nat /\ n = y + 2 /\ y \in Nat /\ j \in 1..y
      BY <1>1, <1>2, <1>3
    <3> QED BY ONLY <3>1
  <2>2. /\ Format(c)[b + 4 + (j + 1)] = Body(o)[j + 1]
        /\ At(Format(c), b + 4 + (j + 1)) = Body(o)[j + 1]
    BY <1>1, <2>1, Zenon
  <2> QED BY <1>2, <2>1, <2>2, Zenon
<1> QED BY <1>1, <1>3, <1>4, <1>5, <1>6, Zenon DEF QuotedFacts, v, y

\* What is read where a character of the value begins: u characters are before
\* it, w with it.
PieceIs(c, v, j, u, w, i, y, size_of_line) ==
  /\ u \in Nat /\ w \in Nat /\ w <= y /\ i <= size_of_line
  /\ v[j] \in {Quote, Backslash} => w = u + 2 /\ At(Format(c), i) = Backslash
  /\ v[j] \notin {Quote, Backslash} => w = u + 1 /\ At(Format(c), i) = v[j]

LEMMA PieceAt ==
  ASSUME NEW c, NEW v \in Seq(Char), NEW b, NEW e, NEW m, QuotedFacts(c, v, b, e, m),
         NEW j \in 1..Len(v), NEW u, u = Len(TextOf(Pieces(v), j - 1)),
         NEW w, w = Len(TextOf(Pieces(v), j)), NEW i, i = b + 6 + u
  PROVE  PieceIs(c, v, j, u, w, i, Len(Protected(v)), m)
<1> DEFINE y == Len(Protected(v))
           z == Len(Protect(v[j]))
<1>1. /\ m \in Nat /\ b \in Nat /\ y \in Nat /\ Len(v) \in Nat /\ e = b + 6 + y /\ e <= m
      /\ \A x \in 1..y : At(Format(c), b + 5 + x) = Protected(v)[x]
  BY Zenon DEF QuotedFacts
<1>2. j \in 0..Len(v) /\ j - 1 \in 0..Len(v) /\ v[j] \in Char /\ j \in Nat /\ j - 1 \in Nat
  BY <1>1
<1>3. /\ u \in (j - 1)..y /\ w \in j..y /\ w = u + z
      /\ \A x \in 1..z : Protected(v)[u + x] = Protect(v[j])[x]
  BY <1>2, ProtectedIs, Zenon
<1>4. /\ z \in 1..2
      /\ v[j] \in {Quote, Backslash} => Protect(v[j]) = <<Backslash, v[j]>>
      /\ v[j] \notin {Quote, Backslash} => Protect(v[j]) = <<v[j]>>
  BY <1>2, ProtectIs, Zenon
<1>5. /\ v[j] \in {Quote, Backslash} => z = 2 /\ Protect(v[j])[1] = Backslash
      /\ v[j] \notin {Quote, Backslash} => z = 1 /\ Protect(v[j])[1] = v[j]
  BY <1>4
<1> HIDE DEF y, z
<1>6. /\ u \in Nat /\ w \in Nat /\ w <= y /\ i <= m /\ 1 \in 1..z /\ u + 1 \in 1..y
      /\ b + 5 + (u + 1) = i
  <2>1. /\ m \in Nat /\ b \in Nat /\ y \in Nat /\ e = b + 6 + y /\ e <= m /\ j - 1 \in Nat /\ j \in Nat
        /\ u \in (j - 1)..y /\ w \in j..y /\ w = u + z /\ z \in 1..2 /\ i = b + 6 + u
    BY <1>1, <1>2, <1>3, <1>4
  <2> QED BY ONLY <2>1
<1>7. At(Format(c), i) = Protect(v[j])[1]
  <2>1. At(Format(c), b + 5 + (u + 1)) = Protected(v)[u + 1]
    BY <1>1, <1>6, Zenon
  <2>2. Protected(v)[u + 1] = Protect(v[j])[1]
    BY <1>3, <1>6, Zenon
  <2> QED BY <1>6, <2>1, <2>2, Zenon
<1> QED BY <1>3, <1>5, <1>6, <1>7, Zenon DEF y, PieceIs

LEMMA ReadsInQuotes ==
  ASSUME NEW c \in CommandsSent, NEW N, N = Len(c.options), NEW k \in Nat, k < N,
         NEW o, o = c.options[k + 1], NEW b, b = End(c, k), ~GivenTwice(c, k),
         NEW p, NEW st, NEW x, NEW y, p = Reached(c, st, x, y, k), NEW i,
         InOption(p, i, o, b), p.state \in {"quoted", "escaped"},
         NEW q, q = ReadChar(p, At(Format(c), i), i, Format(c))
  PROVE  GoesOn(c, q, i) \/ Stops(c, q, i)
<1> DEFINE line == Format(c)
           m == Len(Format(c))
           n == Len(Body(o))
           e == End(c, k + 1)
           ch == At(Format(c), i)
           v == o.value
           at(j) == Len(TextOf(Pieces(v), j))
<1>1. OptionFacts(c, k, o, b, e, m, n, N)
  BY FactsOfOption, Zenon
<1>2. o.opt \in OptionNames /\ v \in Seq(Char)
  BY <1>1, Zenon DEF OptionFacts
<1>3. line \in Seq(Char)
  BY LineOf, Zenon DEF LineIs
<1>4. k \in 0..N /\ N \in Nat /\ k + 1 \in Nat /\ k + 1 \in 0..N
  BY CommandIs
<1>5. p.state = st /\ p.opt = x /\ p.begin = y
  BY DEF Reached
<1>6. p.opt = o.opt /\ p.begin = b + 6 /\ ~IsPlain(o)
  BY DEF InOption
<1>7. QuotedFacts(c, v, b, e, m)
  BY <1>1, <1>6, FactsOfQuoted, Zenon
<1> DEFINE z == Len(Protected(v))
<1>8. /\ m \in Nat /\ b \in Nat /\ z \in Nat /\ Len(v) \in Nat /\ e = b + 6 + z /\ e <= m
      /\ At(line, e) = Quote /\ \A j \in 1..z : line[b + 5 + j] = Protected(v)[j]
  BY <1>7, Zenon DEF QuotedFacts
<1>9. line # <<>>
  <2>1. Len(line) # 0
    <3>1. m \in Nat /\ b \in Nat /\ z \in Nat /\ e = b + 6 + z /\ e <= m
      BY <1>8
    <3>2. m # 0
      BY ONLY <3>1
    <3> QED BY <3>2, Zenon
  <2> QED BY <2>1
<1>10. q = ReadChar(p, ch, i, line) /\ m = Len(line) /\ Format(c) = line /\ m = Len(Format(c)) /\ e = End(c, k + 1)
  BY Zenon DEF ch, line, m
<1>15. \A j \in 1..Len(v) : PieceIs(c, v, j, at(j - 1), at(j), b + 6 + at(j - 1), z, m)
  BY <1>2, <1>7, PieceAt, Zenon
<1>11. \A j \in 1..Len(v) :
         /\ at(j - 1) \in Nat /\ at(j) \in Nat /\ at(j) <= z /\ b + 6 + at(j - 1) <= m
         /\ v[j] \in {Quote, Backslash} => at(j) = at(j - 1) + 2 /\ At(line, b + 6 + at(j - 1)) = Backslash
         /\ v[j] \notin {Quote, Backslash} => at(j) = at(j - 1) + 1 /\ At(line, b + 6 + at(j - 1)) = v[j]
  BY <1>10, <1>15, Zenon DEF PieceIs
<1>12. Protected(v) \in Seq(Char) /\ Protected(v) = TextOf(Pieces(v), Len(v)) /\ Stripped(Protected(v)) = v
  BY <1>2, ProtectedIs, StripsProtected, Zenon
<1> HIDE DEF line, m, n, e, ch, v, z
<1>13. CASE p.state = "quoted"
  <2>1. PICK j \in 0..Len(v) : i = b + 6 + at(j)
    BY <1>13 DEF InOption, v
  <2>2. /\ ch = Backslash => q = Became(p, "escaped")
        /\ ch = Quote => q = Store(p, Stripped(Slice(line, p.begin, i)), "skip")
        /\ ch \notin {Quote, Backslash} => q = p
    <3>1. ReadsQuoted(p, ch, i, line)
      BY ONLY <1>13, QuotedReads, Zenon
    <3> QED BY ONLY <1>10, <3>1, Zenon DEF ReadsQuoted
  <2>3. CASE j < Len(v)
    <3>1. j + 1 \in 1..Len(v) /\ (j + 1) - 1 = j /\ j + 1 \in 0..Len(v)
      BY <1>8, <2>3
    <3>2. /\ at(j) \in Nat /\ b + 6 + at(j) <= m
          /\ v[j + 1] \in {Quote, Backslash} => at(j + 1) = at(j) + 2 /\ At(line, b + 6 + at(j)) = Backslash
          /\ v[j + 1] \notin {Quote, Backslash} => at(j + 1) = at(j) + 1 /\ At(line, b + 6 + at(j)) = v[j + 1]
      BY <1>11, <3>1, Zenon
    <3>3. i <= Len(Format(c))
      BY <1>10, <2>1, <3>2, Zenon
    <3>4. CASE v[j + 1] \in {Quote, Backslash}
      <4>1. ch = Backslash
        BY <1>10, <2>1, <3>2, <3>4, Zenon DEF ch
      <4>2. q = Reached(c, "escaped", o.opt, b + 6, k)
        BY <1>5, <1>6, <2>2, <4>1 DEF Reached, Became
      <4>3. i + 1 = b + 5 + at(j + 1)
        <5>1. i = b + 6 + at(j) /\ b \in Nat /\ at(j) \in Nat /\ at(j + 1) = at(j) + 2
          BY <1>8, <2>1, <3>2, <3>4
        <5> QED BY ONLY <5>1
      <4>4. InOption(q, i + 1, o, b)
        <5>1. q.state = "escaped" /\ q.opt = o.opt /\ q.begin = b + 6
          BY <4>2 DEF Reached
        <5> QED BY <1>6, <3>1, <3>4, <4>3, <5>1, Zenon DEF InOption, v
      <4>5. "escaped" \in Machine
        BY DEF Machine
      <4>6. GoesOn(c, q, i)
        BY <1>4, <3>3, <4>2, <4>4, <4>5, Goes, Zenon
      <4> QED BY <4>6, Zenon
    <3>5. CASE v[j + 1] \notin {Quote, Backslash}
      <4>1. ch = v[j + 1]
        BY <1>10, <2>1, <3>2, <3>5, Zenon DEF ch
      <4>2. q = p
        BY <2>2, <3>5, <4>1, Zenon
      <4>3. q = Reached(c, "quoted", o.opt, b + 6, k)
        BY <1>5, <1>6, <1>13, <4>2, Zenon
      <4>4. i + 1 = b + 6 + at(j + 1)
        <5>1. i = b + 6 + at(j) /\ b \in Nat /\ at(j) \in Nat /\ at(j + 1) = at(j) + 1
          BY <1>8, <2>1, <3>2, <3>5
        <5> QED BY ONLY <5>1
      <4>5. InOption(q, i + 1, o, b)
        <5>1. q.state = "quoted" /\ q.opt = o.opt /\ q.begin = b + 6
          BY <4>3 DEF Reached
        <5> QED BY <1>6, <3>1, <4>4, <5>1, Zenon DEF InOption, v
      <4>6. "quoted" \in Machine
        BY DEF Machine
      <4>7. GoesOn(c, q, i)
        BY <1>4, <3>3, <4>3, <4>5, <4>6, Goes, Zenon
      <4> QED BY <4>7, Zenon
    <3> QED BY <3>4, <3>5
  <2>4. CASE j = Len(v)
    <3>1. at(j) = z
      BY <1>12, <2>4, Zenon DEF z
    <3>2. i = e /\ (b + 5) + z + 1 = i /\ b + 5 \in Nat /\ (b + 5) + z <= m /\ (b + 5) + 1 = b + 6
      <4>1. /\ m \in Nat /\ b \in Nat /\ z \in Nat /\ e = b + 6 + z /\ e <= m
            /\ i = b + 6 + at(j) /\ at(j) = z
        BY <1>8, <2>1, <3>1
      <4> QED BY ONLY <4>1
    <3>3. ch = Quote
      BY <1>8, <1>10, <3>2, Zenon DEF ch
    <3>4. Slice(line, p.begin, i) = Protected(v)
      <4>1. \A u \in 1..Len(Protected(v)) : line[(b + 5) + u] = Protected(v)[u]
        BY <1>8, Zenon DEF z
      <4>2. (b + 5) + Len(Protected(v)) <= Len(line)
        BY <1>10, <3>2, Zenon DEF z
      <4>3. Slice(line, (b + 5) + 1, (b + 5) + Len(Protected(v)) + 1) = Protected(v)
        BY <1>3, <1>12, <3>2, <4>1, <4>2, SliceIs, Zenon
      <4> QED BY <1>6, <3>2, <4>3, Zenon DEF z
    <3>5. q = Store(p, o.value, "skip")
      BY <1>12, <2>2, <3>3, <3>4, Zenon DEF v
    <3>6. p = Reached(c, "quoted", o.opt, b + 6, k)
      BY <1>5, <1>6, <1>13, Zenon
    <3>7. \/ q = Reached(c, "skip", o.opt, b + 6, k + 1) /\ ~GivenTwice(c, k + 1)
          \/ IsRefused(q) /\ GivenTwice(c, N)
      <4>1. StoredOrRefused(c, Store(p, o.value, "skip"), "skip", o.opt, b + 6, k + 1, N)
        BY <1>2, <1>4, <3>6, Stores, Zenon
      <4> QED BY <3>5, <4>1, Zenon DEF StoredOrRefused
    <3>8. CASE IsRefused(q) /\ GivenTwice(c, N)
      BY <1>9, <1>10, <3>8, Refused, Zenon
    <3>9. CASE q = Reached(c, "skip", o.opt, b + 6, k + 1) /\ ~GivenTwice(c, k + 1)
      <4> DEFINE d == c.options[(k + 1) + 1]
      <4>1. "skip" \in Machine
        BY DEF Machine
      <4>2. i <= Len(Format(c)) /\ i + 1 = e + 1 /\ Format(c) # <<>>
        BY <1>8, <1>9, <1>10, <3>2, Zenon
      <4>3. d = c.options[(k + 1) + 1]
        OBVIOUS
      <4> HIDE DEF d
      <4>4. GoesOn(c, q, i)
        BY <1>4, <1>10, <3>9, <4>1, <4>2, <4>3, Goes, Zenon
      <4> QED BY <4>4, Zenon
    <3> QED BY <3>7, <3>8, <3>9
  <2>5. j < Len(v) \/ j = Len(v)
    BY <1>8
  <2> QED BY <2>3, <2>4, <2>5
<1>14. CASE p.state = "escaped"
  <2>1. PICK j \in 1..Len(v) : i = b + 5 + at(j)
    BY <1>14 DEF InOption, v
  <2>2. q = Reached(c, "quoted", o.opt, b + 6, k)
    <3>1. q = Became(p, "quoted")
      BY <1>10, <1>14, OthersRead, Zenon
    <3> QED BY <1>5, <1>6, <3>1 DEF Reached, Became
  <2>3. i <= m /\ i + 1 = b + 6 + at(j) /\ j \in 0..Len(v)
    <3>1. at(j) \in Nat /\ at(j) <= z
      BY <1>11, <2>1, Zenon
    <3>2. /\ m \in Nat /\ b \in Nat /\ z \in Nat /\ e = b + 6 + z /\ e <= m
          /\ i = b + 5 + at(j) /\ j \in 1..Len(v) /\ Len(v) \in Nat
      BY <1>8, <2>1
    <3> QED BY ONLY <3>1, <3>2
  <2>4. InOption(q, i + 1, o, b)
    <3>1. q.state = "quoted" /\ q.opt = o.opt /\ q.begin = b + 6
      BY <2>2 DEF Reached
    <3> QED BY <1>6, <2>3, <3>1, Zenon DEF InOption, v
  <2>5. "quoted" \in Machine
    BY DEF Machine
  <2>6. i <= Len(Format(c))
    BY <1>10, <2>3, Zenon
  <2>7. GoesOn(c, q, i)
    BY <1>4, <2>2, <2>4, <2>5, <2>6, Goes, Zenon
  <2> QED BY <2>7, Zenon
<1> QED BY <1>13, <1>14

\* Behind a value that was quoted.
LEMMA ReadsBehindQuotes ==
  ASSUME NEW c \in CommandsSent, NEW N, N = Len(c.options), NEW k \in 0..N,
         NEW b, b = End(c, k), ~GivenTwice(c, k), Format(c) # <<>>,
         NEW p, NEW st, NEW x, NEW y, p = Reached(c, st, x, y, k), NEW i,
         p.state = "skip", i = b + 1,
         NEW q, q = ReadChar(p, At(Format(c), i), i, Format(c))
  PROVE  GoesOn(c, q, i) \/ Stops(c, q, i)
<1> DEFINE m == Len(Format(c))
           o == c.options[k + 1]
<1>1. N \in Nat /\ k \in Nat
  BY CommandIs
<1>2. LineIs(c, Format(c), N)
  BY LineOf, Zenon
<1>3. b \in Nat /\ b <= m /\ (k = N => b = m) /\ m \in Nat
  BY <1>2, Zenon DEF LineIs
<1>4. q = Reached(c, "normal", x, y, k)
  <2>1. q = Became(p, "normal")
    BY OthersRead, Zenon
  <2> QED BY <2>1 DEF Reached, Became
<1>5. CASE k = N
  <2>1. i > m
    <3>1. i = b + 1 /\ b = m /\ m \in Nat
      BY <1>3, <1>5
    <3> QED BY ONLY <3>1
  <2>2. Stops(c, q, i)
    BY <1>4, <1>5, <2>1, Finished, Zenon
  <2> QED BY <2>2, Zenon
<1>6. CASE k < N
  <2> DEFINE e == End(c, k + 1)
             n == Len(Body(o))
  <2>1. OptionFacts(c, k, o, b, e, m, n, N)
    BY <1>1, <1>6, FactsOfOption, Zenon
  <2>2. b \in Nat /\ n \in Nat /\ e = b + n + 4 /\ e <= m /\ m \in Nat
    BY <2>1, Zenon DEF OptionFacts
  <2> HIDE DEF e, n, m, o
  <2>3. i <= m /\ i + 1 = b + 2
    <3>1. b \in Nat /\ n \in Nat /\ e = b + n + 4 /\ e <= m /\ m \in Nat /\ i = b + 1
      BY <2>2
    <3> QED BY ONLY <3>1
  <2>4. InOption(q, i + 1, o, b)
    <3>1. q.state = "normal"
      BY <1>4 DEF Reached
    <3> QED BY <2>3, <3>1, Zenon DEF InOption
  <2>5. "normal" \in Machine
    BY DEF Machine
  <2>6. i <= Len(Format(c)) /\ o = c.options[k + 1]
    BY <2>3, Zenon DEF m, o
  <2>7. GoesOn(c, q, i)
    BY <1>4, <1>6, <2>4, <2>5, <2>6, Goes, Zenon
  <2> QED BY <2>7, Zenon
<1>7. k = N \/ k < N
  BY <1>1
<1> QED BY <1>5, <1>6, <1>7

\* One character more is read.
LEMMA ReadsOn ==
  ASSUME NEW c \in CommandsSent, NEW p, NEW i, NEW k, ReadingAt(c, p, i, k),
         NEW q, q = ReadChar(p, At(Format(c), i), i, Format(c))
  PROVE  GoesOn(c, q, i) \/ Stops(c, q, i)
<1> DEFINE N == Len(c.options)
           o == c.options[k + 1]
           b == End(c, k)
<1>1. /\ k \in 0..N /\ ~GivenTwice(c, k) /\ p = Reached(c, p.state, p.opt, p.begin, k)
      /\ \/ k < N /\ InOption(p, i, o, b)
         \/ p.state = "skip" /\ i = b + 1 /\ Format(c) # <<>>
  BY Zenon DEF ReadingAt
<1>2. N \in Nat /\ k \in Nat
  BY <1>1, CommandIs
<1> HIDE DEF N, o, b
<1>3. N = Len(c.options) /\ o = c.options[k + 1] /\ b = End(c, k)
  BY Zenon DEF N, o, b
<1>4. CASE k < N /\ InOption(p, i, o, b)
  <2>1. p.state \in {"normal", "option", "separator", "first"} \/ p.state = "value" \/ p.state \in {"quoted", "escaped"}
    BY <1>4 DEF InOption
  <2>2. CASE p.state \in {"normal", "option", "separator", "first"}
    BY <1>1, <1>2, <1>3, <1>4, <2>2, ReadsToValue, Zenon
  <2>3. CASE p.state = "value"
    BY <1>1, <1>2, <1>3, <1>4, <2>3, ReadsValue, Zenon
  <2>4. CASE p.state \in {"quoted", "escaped"}
    BY <1>1, <1>2, <1>3, <1>4, <2>4, ReadsInQuotes, Zenon
  <2> QED BY <2>1, <2>2, <2>3, <2>4
<1>5. CASE p.state = "skip" /\ i = b + 1 /\ Format(c) # <<>>
  BY <1>1, <1>2, <1>3, <1>5, ReadsBehindQuotes, Zenon
<1> QED BY <1>1, <1>4, <1>5

\* The parser has not begun, is in the middle of the line, or has understood it.
CommandInv ==
  /\ asked \in CommandsSent
  /\ \/ parser = Called
     \/ parser.state \in Machine /\ \E k : ReadingAt(asked, parser, ptr, k)
     \/ parser.state = "done" /\ Understood(asked, parser)

LEMMA NothingMeant ==
  ASSUME NEW c
  PROVE  Meant(c, 0) = NoOptions /\ ~GivenTwice(c, 0)
<1>1. \A o \in OptionNames : Given(c, 0, o) = {}
  BY DEF Given
<1>2. Meant(c, 0) = NoOptions
  BY <1>1 DEF Meant, NoOptions
<1> QED BY <1>2 DEF GivenTwice

\* A command without options is its name.
LEMMA OnlyName ==
  ASSUME NEW c \in CommandsSent, Len(c.options) = 0
  PROVE  Format(c) = c.name /\ Space \notin ToSet(Format(c))
<1> DEFINE s == c.name
<1>1. Format(c) = s
  BY LineOf, Zenon DEF LineIs
<1>2. s \in Seq(Char) /\ \A i \in 1..Len(s) : s[i] # Space
  BY CommandIs, Zenon
<1> HIDE DEF s
<1>3. Space \notin ToSet(s)
  BY <1>2 DEF ToSet
<1> QED BY <1>1, <1>3 DEF s

\* A command with options has its name before the first space.
LEMMA NameFirst ==
  ASSUME NEW c \in CommandsSent, Len(c.options) # 0
  PROVE  /\ Space \in ToSet(Format(c)) /\ FirstSpace(Format(c)) = Len(c.name) + 1
         /\ Slice(Format(c), 1, FirstSpace(Format(c))) = c.name
         /\ End(c, 0) = Len(c.name) /\ Len(c.name) \in Nat
<1> DEFINE N == Len(c.options)
           line == Format(c)
           s == c.name
           o == c.options[1]
           n == Len(Body(o))
           e == End(c, 1)
           m == Len(line)
           b == Len(s)
<1>1. N \in Nat /\ 1 \in 1..N /\ 0 \in Nat /\ 0 < N /\ 0 + 1 = 1
  BY CommandIs
<1>2. /\ s \in Seq(Char) /\ \A i \in 1..b : s[i] # Space
  BY CommandIs, Zenon
<1>3. /\ line \in Seq(Char) /\ m \in Nat /\ b <= m /\ \A i \in 1..b : line[i] = s[i]
      /\ End(c, 0) = b
  BY LineOf, Zenon DEF LineIs
<1>4. o = c.options[0 + 1] /\ e = End(c, 0 + 1)
  BY <1>1, Zenon
<1>5. OptionAt(c, 1, o, b)
  <2>1. 1 - 1 = 0
    OBVIOUS
  <2>2. LineIs(c, line, N)
    BY LineOf, Zenon
  <2> QED BY <1>1, <1>3, <2>1, <2>2, Zenon DEF LineIs
<1>6. line[b + 1] = Space
  BY <1>5, Zenon DEF OptionAt
<1>7. OptionFacts(c, 0, o, b, e, m, n, N)
  BY <1>1, <1>3, <1>4, FactsOfOption, Zenon
<1>8. b \in Nat /\ n \in Nat /\ e = b + n + 4 /\ e <= m
  BY <1>7, Zenon DEF OptionFacts
<1> HIDE DEF N, o, n, e
<1>9. b + 1 \in 1..m
  <2>1. b \in Nat /\ n \in Nat /\ e = b + n + 4 /\ e <= m /\ m \in Nat
    BY <1>3, <1>8
  <2> QED BY ONLY <2>1
<1>10. Space \in ToSet(line)
  BY <1>3, <1>6, <1>9, IsIn, Zenon
<1> HIDE DEF line, s, m, b
<1>11. FirstSpace(line) = b + 1
  <2>1. \A i \in 1..b : line[i] # Space
    BY <1>2, <1>3
  <2>2. \A j \in 1..((b + 1) - 1) : line[j] # Space
    BY <1>8, <2>1
  <2>3. \A i \in 1..m : line[i] = Space /\ (\A j \in 1..(i - 1) : line[j] # Space) => i = b + 1
    <3> SUFFICES ASSUME NEW i \in 1..m, line[i] = Space, \A j \in 1..(i - 1) : line[j] # Space
                 PROVE  i = b + 1
      OBVIOUS
    <3>1. ~(i < b + 1)
      BY <1>3, <1>8, <2>1
    <3>2. ~(b + 1 < i)
      <4>1. ASSUME b + 1 < i
            PROVE  b + 1 \in 1..(i - 1)
        BY <1>3, <1>8, <4>1
      <4> QED BY <1>6, <4>1
    <3> QED BY <1>3, <1>8, <3>1, <3>2
  <2>4. m = Len(line)
    BY DEF m
  <2> QED BY <1>6, <1>9, <2>2, <2>3, <2>4 DEF FirstSpace
<1>12. Slice(line, 1, FirstSpace(line)) = s
  <2>1. b = Len(s) /\ m = Len(line)
    BY DEF b, m
  <2>2. 0 \in Nat /\ 0 + Len(s) <= Len(line) /\ 0 + 1 = 1 /\ 0 + Len(s) + 1 = b + 1
    BY <1>3, <1>8, <2>1
  <2>3. \A j \in 1..Len(s) : line[0 + j] = s[j]
    BY <1>3, <1>8, <2>1
  <2>4. Slice(line, 0 + 1, 0 + Len(s) + 1) = s
    BY <1>2, <1>3, <2>2, <2>3, SliceIs, Zenon
  <2> QED BY <1>11, <2>2, <2>4, Zenon
<1> QED BY <1>3, <1>8, <1>10, <1>11, <1>12, Zenon DEF line, s, b

LEMMA FindsCommand == CommandInv /\ FindCommand => CommandInv'
<1> SUFFICES ASSUME CommandInv, FindCommand
             PROVE  CommandInv'
  OBVIOUS
<1> DEFINE line == Format(asked)
<1>1. asked \in CommandsSent /\ asked' = asked /\ parser.state = "called"
  BY DEF CommandInv, FindCommand
<1>2. parser = Called
  BY <1>1 DEF CommandInv, Machine
<1>3. CASE Len(asked.options) = 0
  <2>1. line = asked.name /\ Space \notin ToSet(line)
    BY <1>1, <1>3, OnlyName, Zenon
  <2>2. parser' = [parser EXCEPT !.state = "done", !.cmd = line, !.error = IF line = <<>> THEN Bad ELSE OK]
    BY <2>1 DEF FindCommand
  <2> HIDE DEF line
  <2>3. /\ parser'.state = "done" /\ parser'.cmd = asked.name /\ parser'.options = NoOptions
        /\ parser'.error = IF line = <<>> THEN Bad ELSE OK
    BY <1>2, <2>1, <2>2 DEF Called
  <2>4. Understood(asked, parser')
    <3>1. Meant(asked, 0) = NoOptions /\ ~GivenTwice(asked, 0)
      BY NothingMeant, Zenon
    <3> QED BY <1>3, <2>3, <3>1, Zenon DEF Understood, line
  <2> QED BY <1>1, <2>3, <2>4 DEF CommandInv
<1>4. CASE Len(asked.options) # 0
  <2>1. /\ Space \in ToSet(line) /\ FirstSpace(line) = Len(asked.name) + 1
        /\ Slice(line, 1, FirstSpace(line)) = asked.name
        /\ End(asked, 0) = Len(asked.name) /\ Len(asked.name) \in Nat
    BY <1>1, <1>4, NameFirst, Zenon
  <2>2. /\ parser' = [parser EXCEPT !.state = "normal", !.cmd = Slice(line, 1, FirstSpace(line))]
        /\ ptr' = FirstSpace(line) + 1
    BY <2>1 DEF FindCommand
  <2> HIDE DEF line
  <2>3. parser' = Reached(asked, "normal", Space, 0, 0)
    <3>1. Meant(asked, 0) = NoOptions
      BY NothingMeant, Zenon
    <3>2. parser' = [Called EXCEPT !.state = "normal", !.cmd = asked.name]
      BY <1>2, <2>1, <2>2
    <3> QED BY <3>1, <3>2 DEF Called, Reached
  <2>4. parser'.state = "normal" /\ parser'.opt = Space /\ parser'.begin = 0
    BY <2>3 DEF Reached
  <2>5. ptr' = End(asked, 0) + 2
    BY <2>1, <2>2
  <2>6. ReadingAt(asked, parser', ptr', 0)
    <3>1. 0 \in 0..Len(asked.options) /\ 0 < Len(asked.options)
      BY <1>1, <1>4, CommandIs
    <3>2. ~GivenTwice(asked, 0)
      BY NothingMeant, Zenon
    <3>3. InOption(parser', ptr', asked.options[0 + 1], End(asked, 0))
      BY <2>4, <2>5, Zenon DEF InOption
    <3> QED BY <2>3, <2>4, <3>1, <3>2, <3>3, Zenon DEF ReadingAt
  <2>7. parser'.state \in Machine
    BY <2>4 DEF Machine
  <2> QED BY <1>1, <2>6, <2>7, Zenon DEF CommandInv
<1> QED BY <1>3, <1>4

LEMMA ReadsAtPlace ==
  ASSUME NEW c \in CommandsSent, NEW p, NEW i, NEW k, ReadingAt(c, p, i, k)
  PROVE  i \in Nat
<1> DEFINE N == Len(c.options)
           b == End(c, k)
           v == c.options[k + 1].value
           at(j) == Len(TextOf(Pieces(v), j))
<1>1. k \in 0..N /\ ((k < N /\ InOption(p, i, c.options[k + 1], b)) \/ i = b + 1)
  BY Zenon DEF ReadingAt
<1>2. b \in Nat
  BY <1>1, LineOf, Zenon DEF LineIs
<1>3. CASE i = b + 1
  BY <1>2, <1>3
<1>4. CASE k < N /\ InOption(p, i, c.options[k + 1], b)
  <2>1. k + 1 \in 1..N
    BY <1>1, <1>4, CommandIs
  <2>2. v \in Seq(Char)
    BY <2>1, CommandIs, Zenon
  <2>3. Len(v) \in Nat
    BY <2>2
  <2>4. \A j \in 0..Len(v) : at(j) \in j..Len(Protected(v))
    BY <2>2, ProtectedIs, Zenon
  <2>5. \A j \in 0..Len(v) : at(j) \in Nat
    BY ONLY <2>3, <2>4
  <2>6. \A j \in 1..Len(v) : j \in 0..Len(v)
    BY <2>3
  <2>7. \/ \E x \in {2, 3, 4, 5} : i = b + x
        \/ i \in (b + 6)..(b + 5 + Len(v))
        \/ \E j \in 0..Len(v) : i = b + 6 + at(j)
        \/ \E j \in 1..Len(v) : i = b + 5 + at(j)
    BY <1>4 DEF InOption
  <2> HIDE DEF b, v, at
  <2> QED BY <1>2, <2>3, <2>5, <2>6, <2>7
<1> QED BY <1>1, <1>3, <1>4

LEMMA ParsesChar == CommandInv /\ ParseChar => CommandInv'
<1> SUFFICES ASSUME CommandInv, ParseChar
             PROVE  CommandInv'
  OBVIOUS
<1> DEFINE line == Format(asked)
           q == ReadChar(parser, At(line, ptr), ptr, line)
<1>1. asked \in CommandsSent /\ asked' = asked /\ parser.state \in Machine /\ ptr' = ptr + 1
  BY DEF CommandInv, ParseChar
<1>2. parser' = IF q.error # OK \/ ptr > Len(line) THEN Became(q, "done") ELSE q
  BY Zenon DEF ParseChar
<1>3. PICK k : ReadingAt(asked, parser, ptr, k)
  BY <1>1 DEF CommandInv, Called, Machine
<1>4. GoesOn(asked, q, ptr) \/ Stops(asked, q, ptr)
  BY <1>1, <1>3, ReadsOn, Zenon
<1>5. Len(line) \in Nat
  BY <1>1, LineOf, Zenon DEF LineIs
<1> HIDE DEF q
<1>6. CASE Stops(asked, q, ptr)
  <2>1. parser' = Became(q, "done")
    BY <1>2, <1>6, Zenon DEF Stops
  <2>2. parser'.state = "done" /\ Understood(asked, parser')
    BY <1>6, <2>1, Zenon DEF Stops
  <2> QED BY <1>1, <2>2, Zenon DEF CommandInv
<1>7. CASE GoesOn(asked, q, ptr)
  <2>1. PICK n : ReadingAt(asked, q, ptr + 1, n)
    BY <1>7 DEF GoesOn
  <2>2. q.error = OK /\ ptr <= Len(line) /\ q.state \in Machine
    BY <1>7 DEF GoesOn
  <2>3. CASE ptr > Len(line)
    BY <1>1, <1>3, <1>5, <2>2, <2>3, ReadsAtPlace
  <2>4. CASE ~(ptr > Len(line))
    <3>1. parser' = q
      BY <1>2, <2>2, <2>4, Zenon
    <3> QED BY <1>1, <2>1, <2>2, <3>1, Zenon DEF CommandInv
  <2> QED BY <2>3, <2>4
<1> QED BY <1>4, <1>6, <1>7

\* The command that the parser returns is the one its client wrote: the values
\* with whatever they hold, each under its option, or the error that is due
\* (xdebug_cmd_parse with xdebug_stripcslashes).
THEOREM CommandsParsed == CommandSpec => []CommandsAreUnderstood
<1>1. CommandInit => CommandInv
  BY DEF CommandInit, CommandInv
<1>2. CommandInv /\ [CommandNext]_commandVars => CommandInv'
  <2>1. CommandInv /\ UNCHANGED commandVars => CommandInv'
    BY Zenon DEF CommandInv, commandVars
  <2> QED BY <2>1, FindsCommand, ParsesChar, Zenon DEF CommandNext
<1>3. CommandInv => CommandsAreUnderstood
  <2> SUFFICES ASSUME CommandInv, parser.state = "done"
               PROVE  Understood(asked, parser)
    BY Zenon DEF CommandsAreUnderstood, Understood
  <2>1. parser # Called /\ parser.state \notin Machine
    BY DEF Called, Machine
  <2> QED BY <2>1, Zenon DEF CommandInv
<1> QED BY <1>1, <1>2, <1>3, PTL DEF CommandSpec
-----------------------------------------------------------------------------
(* Breakpoints on lines.                                                      *)

SetJoins(x, y, w) == ToSet(w) = ToSet(x) \cup ToSet(y)

LEMMA SetOfJoined ==
  ASSUME NEW C, NEW x \in Seq(C), NEW y \in Seq(C)
  PROVE  SetJoins(x, y, x \o y)
<1> DEFINE w == x \o y
           n == Len(x)
           m == Len(y)
<1>1. /\ w \in Seq(C) /\ Len(w) = n + m /\ n \in Nat /\ m \in Nat
      /\ \A j \in 1..n : w[j] = x[j]
      /\ \A j \in 1..m : w[n + j] = y[j]
  <2>1. Joins(C, x, y, w)
    BY Joined, Zenon
  <2> QED BY <2>1, Zenon DEF Joins
<1>2. ToSet(w) = {w[j] : j \in 1..(n + m)} /\ ToSet(x) = {x[j] : j \in 1..n} /\ ToSet(y) = {y[j] : j \in 1..m}
  BY <1>1 DEF ToSet
<1> HIDE DEF w, n, m
<1>3. ASSUME NEW j \in 1..(n + m)
      PROVE  w[j] \in ToSet(x) \cup ToSet(y)
  <2>1. CASE j <= n
    <3>1. j \in 1..n
      BY <1>1, <2>1
    <3> QED BY <1>1, <1>2, <3>1, Zenon
  <2>2. CASE ~(j <= n)
    <3>1. j - n \in 1..m /\ n + (j - n) = j
      BY <1>1, <2>2
    <3>2. w[j] = y[j - n]
      BY <1>1, <3>1
    <3> QED BY <1>2, <3>1, <3>2
  <2> QED BY <2>1, <2>2
<1>4. \A j \in 1..n : x[j] \in ToSet(w)
  BY <1>1, <1>2
<1>5. ASSUME NEW j \in 1..m
      PROVE  y[j] \in ToSet(w)
  <2>1. n + j \in 1..(n + m)
    BY <1>1
  <2> QED BY <1>1, <1>2, <2>1
<1> QED BY <1>2, <1>3, <1>4, <1>5 DEF w, SetJoins

\* What is in sequences that are put one behind the other.
LEMMA FlattenIs ==
  ASSUME NEW C, NEW s \in Seq(Seq(C))
  PROVE  FlattenSeq(s) \in Seq(C) /\ ToSet(FlattenSeq(s)) = UNION {ToSet(s[i]) : i \in 1..Len(s)}
<1> DEFINE N == Len(s)
           upto(n) == UNION {ToSet(s[i]) : i \in 1..n}
           S == {n \in Nat : n <= N => ToSet(TextOf(s, n)) = upto(n)}
<1>0. N \in Nat /\ s \in [1..N -> Seq(C)]
  OBVIOUS
<1>1. FlattenSeq(s) = TextOf(s, N)
  <2>1. s = [i \in 1..N |-> s[i]]
    BY <1>0
  <2> QED BY <2>1, Zenon DEF TextOf
<1> HIDE DEF N
<1>2. /\ TextOf(s, 0) = <<>>
      /\ \A n \in 0..N : TextOf(s, n) \in Seq(C)
      /\ \A n \in 1..N : TextOf(s, n) = TextOf(s, n - 1) \o s[n]
  BY <1>0, Flattened
<1>3. 0 \in S
  BY <1>2 DEF ToSet
<1>4. ASSUME NEW n \in Nat, n \in S
      PROVE  n + 1 \in S
  <2> SUFFICES ASSUME n + 1 <= N
               PROVE  ToSet(TextOf(s, n + 1)) = upto(n + 1)
    OBVIOUS
  <2>1. n \in 0..N /\ n + 1 \in 1..N /\ (n + 1) - 1 = n /\ n <= N
    BY <1>0
  <2>2. TextOf(s, n) \in Seq(C) /\ s[n + 1] \in Seq(C) /\ TextOf(s, n + 1) = TextOf(s, n) \o s[n + 1]
    BY <1>0, <1>2, <2>1
  <2>3. ToSet(TextOf(s, n + 1)) = ToSet(TextOf(s, n)) \cup ToSet(s[n + 1])
    <3>1. SetJoins(TextOf(s, n), s[n + 1], TextOf(s, n) \o s[n + 1])
      BY <2>2, SetOfJoined, Zenon
    <3> QED BY <2>2, <3>1, Zenon DEF SetJoins
  <2>4. ToSet(TextOf(s, n)) = upto(n)
    BY <1>4, <2>1
  <2>5. upto(n + 1) = upto(n) \cup ToSet(s[n + 1])
    <3>1. 1..(n + 1) = (1..n) \cup {n + 1}
      OBVIOUS
    <3> QED BY <3>1, Zenon
  <2> QED BY <2>3, <2>4, <2>5
<1> HIDE DEF S
<1>5. N \in S
  BY <1>0, <1>3, <1>4, Induction
<1> QED BY <1>0, <1>1, <1>2, <1>5 DEF S, N

\* The items of functions, and what the definitions by depth say.
ItemSet == {LineItem(o) : o \in UnitOpArrays}
NestedItems(x, o) == FlattenSeq([i \in DOMAIN o.nested |-> x[o.nested[i]]])
NestedInner(x, o) == UNION {x[o.nested[i]] : i \in DOMAIN o.nested}
ItemsBy(f, d) == [o \in UnitOpArrays |->
                    <<LineItem(o)>> \o (IF d = 0 THEN <<>> ELSE NestedItems(f[d - 1], o))]
InnerBy(f, d) == [o \in UnitOpArrays |-> {o} \cup (IF d = 0 THEN {} ELSE NestedInner(f[d - 1], o))]

LEMMA NestedAre ==
  ASSUME NEW o \in UnitOpArrays
  PROVE  /\ o.nested \in Seq(UnitOpArrays) /\ DOMAIN o.nested = 1..Len(o.nested)
         /\ \A i \in DOMAIN o.nested : o.nested[i] \in UnitOpArrays
<1>1. o.nested \in Seq(Within(o)) /\ Within(o) \subseteq UnitOpArrays
  BY ResolverAssumption DEF Within
<1>2. DOMAIN o.nested = 1..Len(o.nested) /\ \A i \in DOMAIN o.nested : o.nested[i] \in UnitOpArrays
  BY <1>1
<1>3. o.nested \in Seq(UnitOpArrays)
  BY <1>1
<1> QED BY <1>2, <1>3

LEMMA NestedItemsAre ==
  ASSUME NEW o \in UnitOpArrays, NEW x \in [UnitOpArrays -> Seq(ItemSet)]
  PROVE  /\ NestedItems(x, o) \in Seq(ItemSet)
         /\ ToSet(NestedItems(x, o)) = UNION {ToSet(x[o.nested[i]]) : i \in DOMAIN o.nested}
<1> DEFINE n == o.nested
           s == [i \in DOMAIN n |-> x[n[i]]]
<1>1. n \in Seq(UnitOpArrays) /\ DOMAIN n = 1..Len(n) /\ \A i \in DOMAIN n : n[i] \in UnitOpArrays
  BY NestedAre
<1> HIDE DEF n
<1>2. s \in Seq(Seq(ItemSet)) /\ Len(s) = Len(n)
  BY <1>1
<1>3. \A i \in DOMAIN n : s[i] = x[n[i]]
  OBVIOUS
<1> HIDE DEF s
<1>4. FlattenSeq(s) \in Seq(ItemSet) /\ ToSet(FlattenSeq(s)) = UNION {ToSet(s[i]) : i \in 1..Len(s)}
  BY <1>2, FlattenIs
<1>5. {ToSet(s[i]) : i \in 1..Len(s)} = {ToSet(x[n[i]]) : i \in DOMAIN n}
  BY <1>1, <1>2, <1>3, Zenon
<1> QED BY <1>4, <1>5, Zenon DEF NestedItems, s, n

LEMMA ItemsTyped ==
  ASSUME NEW o \in UnitOpArrays, NEW y \in Seq(ItemSet)
  PROVE  /\ <<LineItem(o)>> \o y \in Seq(ItemSet)
         /\ ToSet(<<LineItem(o)>> \o y) = {LineItem(o)} \cup ToSet(y)
<1>1. LineItem(o) \in ItemSet
  BY DEF ItemSet
<1>2. <<LineItem(o)>> \in Seq(ItemSet) /\ ToSet(<<LineItem(o)>>) = {LineItem(o)}
  <2> DEFINE x == LineItem(o)
  <2> HIDE DEF x
  <2>1. <<x>> \in Seq(ItemSet)
    BY <1>1 DEF x
  <2>2. ToSet(<<x>>) = {x}
    <3>1. DOMAIN <<x>> = {1}
      OBVIOUS
    <3>2. <<x>>[1] = x
      OBVIOUS
    <3> QED BY <3>1, <3>2, Zenon DEF ToSet
  <2> QED BY <2>1, <2>2 DEF x
<1> DEFINE x == <<LineItem(o)>>
<1> HIDE DEF x
<1>3. x \in Seq(ItemSet) /\ ToSet(x) = {LineItem(o)}
  BY <1>2, Zenon DEF x
<1>4. x \o y \in Seq(ItemSet)
  BY <1>3
<1>5. SetJoins(x, y, x \o y)
  BY <1>3, SetOfJoined, Zenon
<1> QED BY <1>3, <1>4, <1>5, Zenon DEF x, SetJoins

LEMMA ItemsToIs ==
  /\ ItemsTo \in [0..MaxNesting -> [UnitOpArrays -> Seq(ItemSet)]]
  /\ \A d \in 0..MaxNesting : ItemsTo[d] = ItemsBy(ItemsTo, d)
<1> DEFINE X == [UnitOpArrays -> Seq(ItemSet)]
           next(x) == [o \in UnitOpArrays |-> <<LineItem(o)>> \o NestedItems(x, o)]
           x0 == [o \in UnitOpArrays |-> <<LineItem(o)>> \o <<>>]
           F == [k \in 1..MaxNesting |-> [x \in X |-> next(x)]]
<1>0. MaxNesting \in Nat
  BY ResolverAssumption
<1>1. x0 \in X
  <2>1. <<>> \in Seq(ItemSet)
    OBVIOUS
  <2> QED BY <2>1, ItemsTyped, Zenon
<1>2. ASSUME NEW x \in X
      PROVE  next(x) \in X
  BY ItemsTyped, NestedItemsAre, Zenon
<1>3. F \in Steps(X, MaxNesting)
  <2> HIDE DEF X, next
  <2> QED BY <1>2, Zenon DEF Steps
<1>4. PICK g : g \in Iterations(X, x0, MaxNesting, F)
  <2> HIDE DEF X, F, x0
  <2> QED BY <1>0, <1>1, <1>3, Iterates, Zenon
<1>5. g \in [0..MaxNesting -> X] /\ g[0] = x0 /\ \A k \in 1..MaxNesting : g[k] = F[k][g[k - 1]]
  BY <1>4, Zenon DEF Iterations
<1>6. ASSUME NEW d \in 0..MaxNesting
      PROVE  g[d] = ItemsBy(g, d)
  <2>1. CASE d = 0
    BY <1>5, <2>1, Zenon DEF ItemsBy
  <2>2. CASE d # 0
    <3>1. d \in 1..MaxNesting /\ d - 1 \in 0..MaxNesting
      BY <1>0, <2>2
    <3>2. g[d - 1] \in X
      BY <1>5, <3>1, Zenon
    <3>3. g[d] = next(g[d - 1])
      <4> HIDE DEF X, next
      <4> QED BY <1>5, <3>1, <3>2, Zenon
    <3> QED BY <2>2, <3>3, Zenon DEF ItemsBy
  <2> QED BY <2>1, <2>2
<1>7. g = [d \in 0..MaxNesting |-> ItemsBy(g, d)]
  <2> HIDE DEF X
  <2>1. g = [d \in 0..MaxNesting |-> g[d]]
    BY <1>5, Zenon
  <2> QED BY <1>6, <2>1, Zenon
<1>8. ItemsTo = CHOOSE f : f = [d \in 0..MaxNesting |-> ItemsBy(f, d)]
  BY Zenon DEF ItemsTo, ItemsBy, NestedItems
<1>9. ItemsTo = [d \in 0..MaxNesting |-> ItemsBy(ItemsTo, d)]
  BY <1>7, <1>8, Zenon
<1> DEFINE S == {n \in Nat : n <= MaxNesting => ItemsTo[n] \in X}
<1>10. 0 \in S
  <2>1. 0 \in 0..MaxNesting
    BY <1>0
  <2>2. ItemsTo[0] = x0
    <3>1. ItemsTo[0] = ItemsBy(ItemsTo, 0)
      BY <1>9, <2>1, Zenon
    <3> QED BY <3>1, Zenon DEF ItemsBy
  <2> HIDE DEF X, x0
  <2> QED BY <1>1, <2>2
<1>11. ASSUME NEW n \in Nat, n \in S
       PROVE  n + 1 \in S
  <2> SUFFICES ASSUME n + 1 <= MaxNesting
               PROVE  ItemsTo[n + 1] \in X
    OBVIOUS
  <2>1. ItemsTo[n] \in X /\ n + 1 \in 0..MaxNesting /\ n + 1 # 0 /\ (n + 1) - 1 = n
    BY <1>0, <1>11
  <2>2. ItemsTo[n + 1] = ItemsBy(ItemsTo, n + 1)
    BY <1>9, <2>1, Zenon
  <2>3. ItemsTo[n + 1] = next(ItemsTo[n])
    BY <2>1, <2>2, Zenon DEF ItemsBy
  <2> HIDE DEF X, next
  <2> QED BY <1>2, <2>1, <2>3, Zenon
<1> HIDE DEF S
<1>12. \A n \in Nat : n \in S
  BY <1>10, <1>11, Induction
<1>13. \A d \in 0..MaxNesting : ItemsTo[d] \in X
  <2> HIDE DEF X
  <2> QED BY <1>0, <1>12 DEF S
<1>14. \A d \in 0..MaxNesting : ItemsTo[d] = ItemsBy(ItemsTo, d)
  BY <1>9, Zenon
<1>15. ItemsTo \in [0..MaxNesting -> X]
  <2> HIDE DEF X
  <2> QED BY <1>9, <1>13, <1>14, Zenon
<1> QED BY <1>14, <1>15, Zenon

\* The items of the functions of sets.
LEMMA ItemsOfUnion ==
  ASSUME NEW D, NEW A, NEW T, \A i \in D : T[i] = {LineItem(p) : p \in A[i]}
  PROVE  UNION {T[i] : i \in D} = {LineItem(p) : p \in UNION {A[i] : i \in D}}
<1>1. ASSUME NEW e, NEW i \in D, e \in T[i]
      PROVE  e \in {LineItem(p) : p \in UNION {A[j] : j \in D}}
  <2>1. PICK p \in A[i] : e = LineItem(p)
    BY <1>1
  <2> QED BY <2>1
<1>2. ASSUME NEW i \in D, NEW p \in A[i]
      PROVE  LineItem(p) \in UNION {T[j] : j \in D}
  OBVIOUS
<1> QED BY <1>1, <1>2

LEMMA InnerToIs ==
  /\ InnerTo \in [0..MaxNesting -> [UnitOpArrays -> SUBSET UnitOpArrays]]
  /\ \A d \in 0..MaxNesting : InnerTo[d] = InnerBy(InnerTo, d)
<1> DEFINE X == [UnitOpArrays -> SUBSET UnitOpArrays]
           next(x) == [o \in UnitOpArrays |-> {o} \cup NestedInner(x, o)]
           x0 == [o \in UnitOpArrays |-> {o} \cup {}]
           F == [k \in 1..MaxNesting |-> [x \in X |-> next(x)]]
<1>0. MaxNesting \in Nat
  BY ResolverAssumption
<1>1. x0 \in X
  OBVIOUS
<1>2. ASSUME NEW x \in X
      PROVE  next(x) \in X
  <2> SUFFICES ASSUME NEW o \in UnitOpArrays
               PROVE  NestedInner(x, o) \subseteq UnitOpArrays
    OBVIOUS
  <2> QED BY NestedAre DEF NestedInner
<1>3. F \in Steps(X, MaxNesting)
  <2> HIDE DEF X, next
  <2> QED BY <1>2, Zenon DEF Steps
<1>4. PICK g : g \in Iterations(X, x0, MaxNesting, F)
  <2> HIDE DEF X, F, x0
  <2> QED BY <1>0, <1>1, <1>3, Iterates, Zenon
<1>5. g \in [0..MaxNesting -> X] /\ g[0] = x0 /\ \A k \in 1..MaxNesting : g[k] = F[k][g[k - 1]]
  BY <1>4, Zenon DEF Iterations
<1>6. ASSUME NEW d \in 0..MaxNesting
      PROVE  g[d] = InnerBy(g, d)
  <2>1. CASE d = 0
    BY <1>5, <2>1, Zenon DEF InnerBy
  <2>2. CASE d # 0
    <3>1. d \in 1..MaxNesting /\ d - 1 \in 0..MaxNesting
      BY <1>0, <2>2
    <3>2. g[d - 1] \in X
      BY <1>5, <3>1, Zenon
    <3>3. g[d] = next(g[d - 1])
      <4> HIDE DEF X, next
      <4> QED BY <1>5, <3>1, <3>2, Zenon
    <3> QED BY <2>2, <3>3, Zenon DEF InnerBy
  <2> QED BY <2>1, <2>2
<1>7. g = [d \in 0..MaxNesting |-> InnerBy(g, d)]
  <2> HIDE DEF X
  <2>1. g = [d \in 0..MaxNesting |-> g[d]]
    BY <1>5, Zenon
  <2> QED BY <1>6, <2>1, Zenon
<1>8. InnerTo = CHOOSE f : f = [d \in 0..MaxNesting |-> InnerBy(f, d)]
  BY Zenon DEF InnerTo, InnerBy, NestedInner
<1>9. InnerTo = [d \in 0..MaxNesting |-> InnerBy(InnerTo, d)]
  BY <1>7, <1>8, Zenon
<1> DEFINE S == {n \in Nat : n <= MaxNesting => InnerTo[n] \in X}
<1>10. 0 \in S
  <2>1. 0 \in 0..MaxNesting
    BY <1>0
  <2>2. InnerTo[0] = x0
    <3>1. InnerTo[0] = InnerBy(InnerTo, 0)
      BY <1>9, <2>1, Zenon
    <3> QED BY <3>1, Zenon DEF InnerBy
  <2> HIDE DEF X, x0
  <2> QED BY <1>1, <2>2
<1>11. ASSUME NEW n \in Nat, n \in S
       PROVE  n + 1 \in S
  <2> SUFFICES ASSUME n + 1 <= MaxNesting
               PROVE  InnerTo[n + 1] \in X
    OBVIOUS
  <2>1. InnerTo[n] \in X /\ n + 1 \in 0..MaxNesting /\ n + 1 # 0 /\ (n + 1) - 1 = n
    BY <1>0, <1>11
  <2>2. InnerTo[n + 1] = InnerBy(InnerTo, n + 1)
    BY <1>9, <2>1, Zenon
  <2>3. InnerTo[n + 1] = next(InnerTo[n])
    BY <2>1, <2>2, Zenon DEF InnerBy
  <2> HIDE DEF X, next
  <2> QED BY <1>2, <2>1, <2>3, Zenon
<1> HIDE DEF S
<1>12. \A n \in Nat : n \in S
  BY <1>10, <1>11, Induction
<1>13. \A d \in 0..MaxNesting : InnerTo[d] \in X
  <2> HIDE DEF X
  <2> QED BY <1>0, <1>12 DEF S
<1>14. \A d \in 0..MaxNesting : InnerTo[d] = InnerBy(InnerTo, d)
  BY <1>9, Zenon
<1>15. InnerTo \in [0..MaxNesting -> X]
  <2> HIDE DEF X
  <2> QED BY <1>9, <1>13, <1>14, Zenon
<1> QED BY <1>14, <1>15, Zenon

\* The items of a function are those of the functions in it, itself included.
LEMMA ItemsAreInner ==
  ASSUME NEW o \in UnitOpArrays
  PROVE  /\ Items(o) \in Seq(ItemSet) /\ Inner(o) \subseteq UnitOpArrays
         /\ ToSet(Items(o)) = {LineItem(p) : p \in Inner(o)}
<1> DEFINE N == MaxNesting
           agree(d) == \A q \in UnitOpArrays : ToSet(ItemsTo[d][q]) = {LineItem(p) : p \in InnerTo[d][q]}
           S == {n \in Nat : n <= N => agree(n)}
<1>0. N \in Nat
  BY ResolverAssumption
<1>1. \A d \in 0..N : ItemsTo[d] \in [UnitOpArrays -> Seq(ItemSet)] /\ ItemsTo[d] = ItemsBy(ItemsTo, d)
  BY ItemsToIs, Zenon
<1>2. \A d \in 0..N : InnerTo[d] \in [UnitOpArrays -> SUBSET UnitOpArrays] /\ InnerTo[d] = InnerBy(InnerTo, d)
  BY InnerToIs, Zenon
<1> HIDE DEF N
<1>3. 0 \in S
  <2>1. 0 \in 0..N
    BY <1>0
  <2> SUFFICES ASSUME NEW q \in UnitOpArrays
               PROVE  ToSet(ItemsTo[0][q]) = {LineItem(p) : p \in InnerTo[0][q]}
    OBVIOUS
  <2>2. ItemsTo[0][q] = <<LineItem(q)>> \o <<>>
    BY <1>1, <2>1, Zenon DEF ItemsBy
  <2>3. InnerTo[0][q] = {q} \cup {}
    BY <1>2, <2>1, Zenon DEF InnerBy
  <2>4. <<>> \in Seq(ItemSet) /\ ToSet(<<>>) = {}
    BY DEF ToSet
  <2>5. ToSet(ItemsTo[0][q]) = {LineItem(q)} \cup {}
    BY <2>2, <2>4, ItemsTyped, Zenon
  <2> HIDE DEF LineItem
  <2> QED BY <2>3, <2>5
<1>4. ASSUME NEW n \in Nat, n \in S
      PROVE  n + 1 \in S
  <2> SUFFICES ASSUME n + 1 <= N, NEW q \in UnitOpArrays
               PROVE  ToSet(ItemsTo[n + 1][q]) = {LineItem(p) : p \in InnerTo[n + 1][q]}
    OBVIOUS
  <2> DEFINE x == ItemsTo[n]
             y == InnerTo[n]
  <2>1. agree(n) /\ n \in 0..N /\ n + 1 \in 0..N /\ n + 1 # 0 /\ (n + 1) - 1 = n
    BY <1>0, <1>4
  <2>2. ItemsTo[n + 1][q] = <<LineItem(q)>> \o NestedItems(x, q)
    <3>1. ItemsTo[n + 1] = ItemsBy(ItemsTo, n + 1)
      BY <1>1, <2>1, Zenon
    <3>2. ItemsBy(ItemsTo, n + 1)[q] = <<LineItem(q)>> \o NestedItems(x, q)
      BY <2>1, Zenon DEF ItemsBy
    <3> QED BY <3>1, <3>2, Zenon
  <2>3. InnerTo[n + 1][q] = {q} \cup NestedInner(y, q)
    <3>1. InnerTo[n + 1] = InnerBy(InnerTo, n + 1)
      BY <1>2, <2>1, Zenon
    <3>2. InnerBy(InnerTo, n + 1)[q] = {q} \cup NestedInner(y, q)
      BY <2>1, Zenon DEF InnerBy
    <3> QED BY <3>1, <3>2, Zenon
  <2>4. x \in [UnitOpArrays -> Seq(ItemSet)]
    BY <1>1, <2>1, Zenon
  <2>5. /\ NestedItems(x, q) \in Seq(ItemSet)
        /\ ToSet(NestedItems(x, q)) = UNION {ToSet(x[q.nested[i]]) : i \in DOMAIN q.nested}
    BY <2>4, NestedItemsAre, Zenon
  <2>6. ToSet(ItemsTo[n + 1][q]) = {LineItem(q)} \cup ToSet(NestedItems(x, q))
    BY <2>2, <2>5, ItemsTyped, Zenon
  <2>7. \A i \in DOMAIN q.nested : ToSet(x[q.nested[i]]) = {LineItem(p) : p \in y[q.nested[i]]}
    BY <2>1, NestedAre, Zenon
  <2> HIDE DEF x, y, LineItem
  <2>8. ToSet(NestedItems(x, q)) = {LineItem(p) : p \in NestedInner(y, q)}
    <3> DEFINE A == [i \in DOMAIN q.nested |-> y[q.nested[i]]]
               T == [i \in DOMAIN q.nested |-> ToSet(x[q.nested[i]])]
    <3>1. \A i \in DOMAIN q.nested : T[i] = {LineItem(p) : p \in A[i]}
      BY <2>7
    <3>2. UNION {T[i] : i \in DOMAIN q.nested} = ToSet(NestedItems(x, q))
      BY <2>5
    <3>3. UNION {A[i] : i \in DOMAIN q.nested} = NestedInner(y, q)
      BY DEF NestedInner
    <3> HIDE DEF A, T
    <3> QED BY <3>1, <3>2, <3>3, ItemsOfUnion
  <2> QED BY <2>3, <2>6, <2>8, Zenon
<1> HIDE DEF S, agree
<1>5. \A n \in Nat : n \in S
  BY <1>3, <1>4, Induction
<1>6. \A d \in 0..N : agree(d)
  BY <1>0, <1>5 DEF S
<1>7. o.depth \in 0..N
  BY ResolverAssumption DEF N
<1> QED BY <1>1, <1>2, <1>6, <1>7, Zenon DEF agree, Items, Inner

LEMMA ListItemsAre ==
  ASSUME NEW s \in Seq(UnitOpArrays)
  PROVE  /\ ListItems(s) \in Seq(ItemSet)
         /\ ToSet(ListItems(s)) = {LineItem(p) : p \in UNION {Inner(o) : o \in ToSet(s)}}
<1> DEFINE t == [i \in DOMAIN s |-> Items(s[i])]
<1>1. DOMAIN s = 1..Len(s) /\ \A i \in DOMAIN s : s[i] \in UnitOpArrays
  OBVIOUS
<1>2. \A i \in DOMAIN s : t[i] \in Seq(ItemSet) /\ ToSet(t[i]) = {LineItem(p) : p \in Inner(s[i])}
  BY <1>1, ItemsAreInner, Zenon
<1>3. DOMAIN t = DOMAIN s
  OBVIOUS
<1> HIDE DEF t, LineItem
<1>4. t \in Seq(Seq(ItemSet)) /\ Len(t) = Len(s)
  <2>1. t = [i \in 1..Len(s) |-> t[i]]
    BY <1>1, <1>3, Zenon DEF t
  <2> QED BY <1>1, <1>2, <2>1
<1>5. FlattenSeq(t) \in Seq(ItemSet) /\ ToSet(FlattenSeq(t)) = UNION {ToSet(t[i]) : i \in 1..Len(t)}
  BY <1>4, FlattenIs
<1> DEFINE A == [i \in DOMAIN s |-> Inner(s[i])]
<1>6. \A i \in DOMAIN s : A[i] = Inner(s[i])
  OBVIOUS
<1>7. UNION {A[i] : i \in DOMAIN s} = UNION {Inner(o) : o \in ToSet(s)}
  BY DEF ToSet
<1>8. ListItems(s) = FlattenSeq(t)
  BY Zenon DEF ListItems, t
<1> DEFINE T == [i \in DOMAIN s |-> ToSet(t[i])]
<1>9. UNION {T[i] : i \in DOMAIN s} = {LineItem(p) : p \in UNION {A[i] : i \in DOMAIN s}}
  <2>1. \A i \in DOMAIN s : T[i] = {LineItem(p) : p \in A[i]}
    BY <1>2
  <2> HIDE DEF T, A
  <2> QED BY <2>1, ItemsOfUnion
<1>10. UNION {T[i] : i \in DOMAIN s} = ToSet(FlattenSeq(t))
  BY <1>1, <1>4, <1>5
<1> HIDE DEF T, A
<1> QED BY <1>5, <1>7, <1>8, <1>9, <1>10

\* The lines the resolver looks at are the statements near the line.
LEMMA ScanFinds ==
  ASSUME NEW o \in UnitOpArrays, NEW n \in Nat, IsAround(o, n), NEW items,
         Smallest(items, n) = <<LineItem(o)>>
  PROVE  Resolved(items, n) = Nearest(o.statements, n)
<1> DEFINE st == o.statements
           from == o.line_start
           to == o.line_end
           ahead == Scanned(LineItem(o), n).after \cap st
           behind == Scanned(LineItem(o), n).before \cap st
           near == {m \in st : n - ScanRange <= m /\ m <= n + ScanRange}
           on == {m \in near : m >= n}
<1>1. from \in Nat /\ to \in Nat /\ st \subseteq from..to /\ ScanRange \in Nat /\ from <= n /\ n <= to
  BY ResolverAssumption DEF IsAround
<1>2. LineItem(o).line_start = from /\ LineItem(o).line_end = to /\ LineItem(o).lines_breakable = st
  BY DEF LineItem
<1>3. <<LineItem(o)>>[1] = LineItem(o) /\ <<LineItem(o)>> # <<>>
  OBVIOUS
<1>4. Resolved(items, n) = IF n \in st THEN n ELSE IF ahead # {} THEN Min(ahead)
                           ELSE IF behind # {} THEN Max(behind) ELSE 0
  BY <1>2, <1>3, Zenon DEF Resolved
<1>5. Nearest(st, n) = IF on # {} THEN Min(on) ELSE IF near # {} THEN Max(near) ELSE 0
  BY Zenon DEF Nearest
<1> HIDE DEF from, to, st
<1>6. \A m \in st : m \in Int /\ from <= m /\ m <= to
  BY <1>1
<1>7. /\ Scanned(LineItem(o), n).after = {m \in (n + 1)..(n + ScanRange) : m <= to \/ m = n + 1}
      /\ Scanned(LineItem(o), n).before = {m \in (n - ScanRange)..(n - 1) : m >= from \/ m = n - 1}
  BY <1>2 DEF Scanned
<1>8. \A m : /\ (m \in ahead <=> (m \in st /\ n < m /\ m <= n + ScanRange))
             /\ (m \in behind <=> (m \in st /\ n - ScanRange <= m /\ m < n))
             /\ (m \in near <=> (m \in st /\ n - ScanRange <= m /\ m <= n + ScanRange))
             /\ (m \in on <=> (m \in st /\ n <= m /\ m <= n + ScanRange))
  <2> TAKE m
  <2>1. CASE m \in st
    <3>1. m \in Int /\ from <= m /\ m <= to
      BY <1>6, <2>1
    <3>2. m \in ahead <=> n < m /\ m <= n + ScanRange
      BY <1>1, <1>7, <2>1, <3>1
    <3>3. m \in behind <=> n - ScanRange <= m /\ m < n
      BY <1>1, <1>7, <2>1, <3>1
    <3>4. m \in near <=> n - ScanRange <= m /\ m <= n + ScanRange
      BY <2>1
    <3>5. m \in on <=> n <= m /\ m <= n + ScanRange
      BY <1>1, <2>1, <3>1
    <3> HIDE DEF ahead, behind, near, on
    <3> QED BY <2>1, <3>2, <3>3, <3>4, <3>5, Zenon
  <2>2. CASE m \notin st
    BY <2>2, Zenon
  <2> QED BY <2>1, <2>2
<1> HIDE DEF ahead, behind, near, on
<1>9. CASE n \in st
  <2>1. n \in on /\ \A m \in on : n <= m /\ m \in Int
    <3>1. n <= n /\ n <= n + ScanRange
      BY <1>1
    <3> QED BY <1>6, <1>8, <1>9, <3>1, Zenon
  <2>2. Min(on) = n
    <3>1. Min(on) \in on /\ \A y \in on : Min(on) <= y
      BY <2>1, Zenon DEF Min
    <3>2. Min(on) \in Int /\ n <= Min(on) /\ Min(on) <= n
      BY <2>1, <3>1, Zenon
    <3> QED BY ONLY <3>2, n \in Nat
  <2> QED BY <1>4, <1>5, <1>9, <2>1, <2>2, Zenon DEF st
<1>10. CASE n \notin st
  <2>1. on = ahead
    <3>1. \A m : m \in on <=> m \in ahead
      BY <1>6, <1>8, <1>10
    <3> QED BY <3>1, Zenon
  <2>2. on = {} => near = behind
    <3> SUFFICES ASSUME on = {}
                 PROVE  \A m : m \in near <=> m \in behind
      BY Zenon
    <3>1. \A m \in st : (m < n \/ n <= m) /\ (m < n => m <= n + ScanRange)
      BY <1>1, <1>6
    <3>2. \A m : m < n /\ m \in st => m <= n + ScanRange
      BY <3>1, Zenon
    <3> QED BY <1>8, <3>1, <1>6, <1>1
  <2>3. CASE ahead = {}
    <3>1. on = {} /\ near = behind
      BY <2>1, <2>2, <2>3, Zenon
    <3>2. Resolved(items, n) = IF behind # {} THEN Max(behind) ELSE 0
      BY <1>4, <1>10, <2>3, Zenon
    <3>3. Nearest(st, n) = IF near # {} THEN Max(near) ELSE 0
      BY <1>5, <3>1, Zenon
    <3> QED BY <3>1, <3>2, <3>3 DEF st
  <2>4. CASE ahead # {}
    BY <1>4, <1>5, <1>10, <2>1, <2>4, Zenon DEF st
  <2> QED BY <2>3, <2>4
<1> QED BY <1>9, <1>10

\* The function of a list with the least span around a line is an innermost one.
LEMMA ResolvedIsMeant ==
  ASSUME NEW u, FunctionsOf(u) \subseteq UnitOpArrays, NEW n \in Nat, NEW items \in Seq(ItemSet),
         ToSet(items) = {LineItem(o) : o \in FunctionsOf(u)}
  PROVE  Resolved(items, n) \in LineMeant(u, n)
<1> DEFINE D == DOMAIN items
           fits == {i \in D : items[i].line_start <= n /\ n <= items[i].line_end}
           least == {i \in fits : \A j \in fits : items[i].line_span <= items[j].line_span}
           span(o) == o.line_end - o.line_start
<1>0. \A o \in UnitOpArrays : o.line_start \in Nat /\ o.line_end \in Nat
  BY ResolverAssumption
<1>1. D \subseteq Nat /\ \A i \in D : items[i] \in ToSet(items)
  BY DEF ToSet
<1>2. \A i \in D : \E o \in FunctionsOf(u) : items[i] = LineItem(o)
  BY <1>1
<1>3. \A o \in FunctionsOf(u) : \E i \in D : items[i] = LineItem(o)
  <2>1. \A e \in ToSet(items) : \E i \in D : items[i] = e
    BY DEF ToSet
  <2> QED BY <2>1
<1>4. \A o \in UnitOpArrays : /\ LineItem(o).line_start = o.line_start
                              /\ LineItem(o).line_end = o.line_end /\ LineItem(o).line_span = span(o)
  BY DEF LineItem
<1>5. Smallest(items, n) = IF fits = {} THEN <<>> ELSE <<items[Min(least)]>>
  BY Zenon DEF Smallest
<1> HIDE DEF D
<1>6. ASSUME NEW o \in FunctionsOf(u), IsAround(o, n)
      PROVE  \E i \in fits : items[i] = LineItem(o)
  BY <1>3, <1>4, <1>6 DEF IsAround
<1>7. CASE fits = {}
  <2>1. InnermostAt(u, n) = {}
    BY <1>6, <1>7, Zenon DEF InnermostAt
  <2>2. Resolved(items, n) = 0
    BY <1>5, <1>7, Zenon DEF Resolved
  <2> QED BY <2>1, <2>2, Zenon DEF LineMeant
<1>8. CASE fits # {}
  <2> DEFINE spans == {items[i].line_span : i \in fits}
  <2>1. ASSUME NEW i \in fits
        PROVE  \E o \in FunctionsOf(u) : items[i] = LineItem(o) /\ IsAround(o, n) /\ items[i].line_span \in Nat
    <3>1. PICK o \in FunctionsOf(u) : items[i] = LineItem(o)
      BY <1>2
    <3>2. o.line_start <= n /\ n <= o.line_end /\ items[i].line_span = span(o)
      BY <1>4, <3>1
    <3>3. o.line_start \in Nat /\ o.line_end \in Nat
      BY <1>0
    <3>4. span(o) \in Nat
      BY <3>2, <3>3
    <3> QED BY <3>1, <3>2, <3>4, Zenon DEF IsAround
  <2>2. spans \in SUBSET Nat /\ spans # {}
    BY <1>8, <2>1
  <2>3. PICK s \in spans : \A t \in spans : s <= t
    <3> HIDE DEF spans
    <3> QED BY <2>2, Least
  <2>4. least \in SUBSET Nat /\ least # {}
    <3>1. PICK i \in fits : items[i].line_span = s
      OBVIOUS
    <3>2. \A j \in fits : s <= items[j].line_span
      BY <2>3
    <3> HIDE DEF fits
    <3>3. i \in least
      BY <3>1, <3>2, Zenon
    <3>4. least \subseteq fits
      BY Zenon
    <3>5. fits \subseteq Nat
      BY <1>1, Zenon DEF fits
    <3> QED BY <3>3, <3>4, <3>5, Zenon
  <2> DEFINE k == Min(least)
  <2>5. k \in least
    <3> HIDE DEF least
    <3>1. \E x \in least : \A y \in least : x <= y
      BY <2>4, Least
    <3> QED BY <3>1, Zenon DEF Min
  <2> HIDE DEF k
  <2>6. k \in fits /\ \A j \in fits : items[k].line_span <= items[j].line_span
    BY <2>5
  <2>7. PICK o \in FunctionsOf(u) : items[k] = LineItem(o) /\ IsAround(o, n)
    BY <2>1, <2>6
  <2>8. o \in InnermostAt(u, n)
    <3> SUFFICES ASSUME NEW p \in FunctionsOf(u), IsAround(p, n), IsInside(p, o)
                 PROVE  FALSE
      BY <2>7, Zenon DEF InnermostAt
    <3>1. PICK j \in fits : items[j] = LineItem(p)
      BY <1>6
    <3>2. span(o) <= span(p)
      BY <1>4, <2>6, <2>7, <3>1
    <3>3. span(p) < span(o)
      BY DEF IsInside
    <3>4. span(p) \in Int /\ span(o) \in Int
      BY <1>0
    <3> QED BY <3>2, <3>3, <3>4
  <2>9. Smallest(items, n) = <<LineItem(o)>>
    BY <1>5, <1>8, <2>7, Zenon DEF k
  <2>10. Resolved(items, n) = Nearest(o.statements, n)
    BY <2>7, <2>9, ScanFinds, Zenon
  <2> QED BY <2>8, <2>10, Zenon DEF LineMeant
<1> QED BY <1>7, <1>8

ClassSet == [unit : DOMAIN units, methods : Seq(UnitOpArrays)]
UnitIsOwn(u) == ListIsOwn(u) \/ HasOwnClass(u) \/ EvalsDeclared
IsResolved(b) ==
  /\ b[2] \in Nat
  /\ IF b[1] \in DOMAIN breakable_lines_map
     THEN resolved_at[b] = Resolved(breakable_lines_map[b[1]], b[2]) ELSE resolved_at[b] = 0

\* The functions of the table are all in lists, unless an eval declared some; the
\* classes that are in none are those of evals.
ResolverInv ==
  /\ units \in UnitShapes
  /\ function_table \in Seq(UnitOpArrays) /\ function_count \in 0..Len(function_table)
  /\ function_count = Len(function_table) \/ EvalsDeclared
  /\ class_table \in Seq(ClassSet) /\ class_count \in 0..Len(class_table)
  /\ \A i \in (class_count + 1)..Len(class_table) : class_table[i].unit \in EvalUnits
  /\ DOMAIN breakable_lines_map \subseteq DOMAIN units
  /\ \A u \in DOMAIN breakable_lines_map : breakable_lines_map[u] \in Seq(ItemSet) /\ UnitIsOwn(u)
  /\ \A b \in DOMAIN resolved_at : IsResolved(b)

LEMMA NewOnesAre ==
  ASSUME NEW C, NEW t \in Seq(C), NEW c \in 0..Len(t)
  PROVE  /\ NewOnes(t, c) \in Seq(C) /\ Len(NewOnes(t, c)) = Len(t) - c
         /\ \A i \in 1..(Len(t) - c) : NewOnes(t, c)[i] = t[Len(t) + 1 - i]
<1> DEFINE s == SubSeq(t, c + 1, Len(t))
<1>1. s \in Seq(C) /\ Len(s) = Len(t) - c /\ \A i \in 1..(Len(t) - c) : s[i] = t[c + i]
  OBVIOUS
<1> HIDE DEF s
<1>2. Reverse(s) = [i \in 1..Len(s) |-> s[(Len(s) - i) + 1]]
  BY DEF Reverse
<1>3. Reverse(s) \in Seq(C) /\ Len(Reverse(s)) = Len(s)
  <2>1. Len(s) \in Nat /\ \A i \in 1..Len(s) : (Len(s) - i) + 1 \in 1..Len(s)
    BY <1>1
  <2>2. \A i \in 1..Len(s) : s[(Len(s) - i) + 1] \in C
    BY <1>1, <2>1
  <2> QED BY <1>2, <2>1, <2>2
<1>4. ASSUME NEW i \in 1..(Len(t) - c)
      PROVE  Reverse(s)[i] = t[Len(t) + 1 - i]
  <2>1. Reverse(s)[i] = s[(Len(s) - i) + 1]
    BY <1>1, <1>2
  <2>2. (Len(s) - i) + 1 \in 1..(Len(t) - c) /\ c + ((Len(s) - i) + 1) = Len(t) + 1 - i
    BY <1>1
  <2> QED BY <1>1, <2>1, <2>2
<1> QED BY <1>1, <1>3, <1>4 DEF NewOnes, s

\* What is new in a table that had all it has been looked at for.
LEMMA NewestAre ==
  ASSUME NEW C, NEW t \in Seq(C), NEW f \in Seq(C)
  PROVE  /\ NewOnes(t \o f, Len(t)) \in Seq(C)
         /\ ToSet(NewOnes(t \o f, Len(t))) = ToSet(f)
<1> DEFINE w == t \o f
           r == NewOnes(w, Len(t))
<1>1. Joins(C, t, f, w)
  BY Joined
<1>2. w \in Seq(C) /\ Len(t) \in Nat /\ Len(f) \in Nat /\ Len(w) = Len(t) + Len(f)
      /\ \A j \in 1..Len(f) : w[Len(t) + j] = f[j]
  BY <1>1, Zenon DEF Joins
<1> HIDE DEF w
<1>3. Len(t) \in 0..Len(w) /\ Len(w) - Len(t) = Len(f)
  BY <1>2
<1>4. /\ r \in Seq(C) /\ Len(r) = Len(f)
      /\ \A i \in 1..Len(f) : r[i] = w[Len(w) + 1 - i]
  <2>1. /\ r \in Seq(C) /\ Len(r) = Len(w) - Len(t)
        /\ \A i \in 1..(Len(w) - Len(t)) : r[i] = w[Len(w) + 1 - i]
    BY ONLY <1>2, <1>3, NewOnesAre, Zenon
  <2> QED BY ONLY <1>3, <2>1, Zenon
<1> HIDE DEF r
<1>5. \A i \in 1..Len(f) : r[i] = f[Len(f) + 1 - i]
  <2> TAKE i \in 1..Len(f)
  <2>1. Len(f) + 1 - i \in 1..Len(f) /\ Len(t) + (Len(f) + 1 - i) = Len(w) + 1 - i
    BY <1>2
  <2> QED BY <1>2, <1>4, <2>1
<1>6. \A j \in 1..Len(f) : Len(f) + 1 - j \in 1..Len(f) /\ Len(f) + 1 - (Len(f) + 1 - j) = j
  BY <1>2
<1>7. DOMAIN r = 1..Len(f) /\ DOMAIN f = 1..Len(f)
  BY <1>4
<1>8. \A i \in DOMAIN r : \E j \in DOMAIN f : r[i] = f[j]
  BY <1>5, <1>6, <1>7, Zenon
<1>9. \A j \in DOMAIN f : \E i \in DOMAIN r : f[j] = r[i]
  <2> TAKE j \in DOMAIN f
  <2>1. Len(f) + 1 - j \in DOMAIN r
    BY <1>6, <1>7, Zenon
  <2>2. r[Len(f) + 1 - j] = f[j]
    BY <1>5, <1>6, <1>7
  <2> QED BY <2>1, <2>2
<1>10. ToSet(r) = ToSet(f)
  BY <1>8, <1>9 DEF ToSet
<1> QED BY <1>4, <1>10 DEF r, w

\* The functions of a unit are in the program.
LEMMA UnitTyped ==
  ASSUME units \in UnitShapes, NEW u \in DOMAIN units
  PROVE  /\ units[u].main \in UnitOpArrays
         /\ units[u].functions \in Seq(UnitOpArrays) /\ units[u].methods \in Seq(UnitOpArrays)
         /\ FunctionsOf(u) \subseteq UnitOpArrays
<1>1. /\ units[u].main \in UnitOpArrays
      /\ units[u].functions \in Seq(UnitOpArrays) /\ units[u].methods \in Seq(UnitOpArrays)
  BY ResolverAssumption, Zenon
<1>2. ToSet(units[u].functions) \subseteq UnitOpArrays /\ ToSet(units[u].methods) \subseteq UnitOpArrays
  <2>1. \A s \in Seq(UnitOpArrays) : ToSet(s) \subseteq UnitOpArrays
    BY DEF ToSet
  <2> QED BY <1>1, <2>1, Zenon
<1>3. \A o \in UnitOpArrays : Inner(o) \subseteq UnitOpArrays
  BY ItemsAreInner, Zenon
<1>4. \A o \in {units[u].main} \cup ToSet(units[u].functions) \cup ToSet(units[u].methods) :
        Inner(o) \subseteq UnitOpArrays
  BY <1>1, <1>2, <1>3, Zenon
<1>5. FunctionsOf(u) \subseteq UnitOpArrays
  BY <1>4, Zenon DEF FunctionsOf
<1> QED BY <1>1, <1>5

\* The methods a unit puts in its own list.
NewMethods(t, c, u) == FlattenSeq([i \in 1..(Len(t) - c) |-> MethodsOf(NewOnes(t, c)[i], u)])

LEMMA MethodsAre ==
  ASSUME NEW t \in Seq(ClassSet), NEW c \in 0..Len(t), NEW u
  PROVE  /\ NewMethods(t, c, u) \in Seq(UnitOpArrays)
         /\ ToSet(NewMethods(t, c, u)) = UNION {ToSet(MethodsOf(t[j], u)) : j \in (c + 1)..Len(t)}
<1> DEFINE n == Len(t) - c
           r == NewOnes(t, c)
           s == [i \in 1..n |-> MethodsOf(r[i], u)]
<1>1. n \in Nat /\ Len(t) \in Nat /\ c \in Nat
  OBVIOUS
<1>2. r \in Seq(ClassSet) /\ Len(r) = n /\ \A i \in 1..n : r[i] = t[Len(t) + 1 - i]
  BY NewOnesAre
<1>3. \A i \in 1..n : Len(t) + 1 - i \in (c + 1)..Len(t)
  BY <1>1
<1>4. \A j \in (c + 1)..Len(t) : Len(t) + 1 - j \in 1..n /\ Len(t) + 1 - (Len(t) + 1 - j) = j
  BY <1>1
<1> HIDE DEF n, r
<1>5. \A i \in 1..n : r[i] \in ClassSet
  BY <1>2
<1>6. \A i \in 1..n : s[i] = MethodsOf(t[Len(t) + 1 - i], u) /\ s[i] \in Seq(UnitOpArrays)
  <2> TAKE i \in 1..n
  <2>1. s[i] = MethodsOf(r[i], u) /\ r[i] = t[Len(t) + 1 - i]
    BY <1>2
  <2>2. r[i].methods \in Seq(UnitOpArrays)
    BY <1>5 DEF ClassSet
  <2>3. <<>> \in Seq(UnitOpArrays)
    OBVIOUS
  <2>4. MethodsOf(r[i], u) \in Seq(UnitOpArrays)
    BY <2>2, <2>3, Zenon DEF MethodsOf
  <2> HIDE DEF s
  <2> QED BY <2>1, <2>4, Zenon
<1>7. s = [i \in 1..n |-> s[i]]
  OBVIOUS
<1>8. NewMethods(t, c, u) = FlattenSeq(s)
  BY Zenon DEF NewMethods, n, r
<1> HIDE DEF s
<1>9. s \in Seq(Seq(UnitOpArrays)) /\ Len(s) = n
  BY <1>1, <1>6, <1>7
<1>10. FlattenSeq(s) \in Seq(UnitOpArrays) /\ ToSet(FlattenSeq(s)) = UNION {ToSet(s[i]) : i \in 1..n}
  BY <1>9, FlattenIs
<1>11. \A i \in 1..n : \E j \in (c + 1)..Len(t) : s[i] = MethodsOf(t[j], u)
  BY <1>3, <1>6, Zenon
<1>12. \A j \in (c + 1)..Len(t) : \E i \in 1..n : MethodsOf(t[j], u) = s[i]
  <2> TAKE j \in (c + 1)..Len(t)
  <2>1. s[Len(t) + 1 - j] = MethodsOf(t[Len(t) + 1 - (Len(t) + 1 - j)], u)
    BY <1>4, <1>6, Zenon
  <2> QED BY <1>4, <2>1
<1>13. UNION {ToSet(s[i]) : i \in 1..n} = UNION {ToSet(MethodsOf(t[j], u)) : j \in (c + 1)..Len(t)}
  BY <1>11, <1>12
<1> QED BY <1>8, <1>10, <1>13

\* They are all of them, when the classes that are in no list yet are of evals.
LEMMA OwnMethods ==
  ASSUME ResolverInv, NEW u \in DOMAIN units \ EvalUnits
  PROVE  /\ NewMethods(ClassesWith(u), class_count, u) \in Seq(UnitOpArrays)
         /\ ToSet(NewMethods(ClassesWith(u), class_count, u)) = ToSet(units[u].methods)
         /\ ClassesWith(u) \in Seq(ClassSet)
<1> DEFINE t == class_table
           c == class_count
           m == units[u].methods
           f == IF m = <<>> THEN <<>> ELSE <<[unit |-> u, methods |-> m]>>
           w == ClassesWith(u)
<1>1. /\ t \in Seq(ClassSet) /\ c \in 0..Len(t)
      /\ \A i \in (c + 1)..Len(t) : t[i].unit \in EvalUnits
  BY DEF ResolverInv
<1>2. m \in Seq(UnitOpArrays)
  BY UnitTyped, Zenon DEF ResolverInv
<1>3. f \in Seq(ClassSet) /\ Len(f) = IF m = <<>> THEN 0 ELSE 1
  <2>1. [unit |-> u, methods |-> m] \in ClassSet
    BY <1>2 DEF ClassSet
  <2> QED BY <2>1
<1>4. w = t \o f
  BY Zenon DEF ClassesWith
<1>5. Joins(ClassSet, t, f, t \o f)
  BY <1>1, <1>3, Joined, Zenon
<1> HIDE DEF w
<1>6. /\ w \in Seq(ClassSet) /\ Len(t) \in Nat /\ Len(f) \in Nat /\ Len(w) = Len(t) + Len(f)
      /\ \A j \in 1..Len(t) : w[j] = t[j]
      /\ \A j \in 1..Len(f) : w[Len(t) + j] = f[j]
  BY <1>4, <1>5, Zenon DEF Joins
<1>7. c \in 0..Len(w)
  BY <1>1, <1>6
<1>8. /\ NewMethods(w, c, u) \in Seq(UnitOpArrays)
      /\ ToSet(NewMethods(w, c, u)) = UNION {ToSet(MethodsOf(w[j], u)) : j \in (c + 1)..Len(w)}
  BY <1>6, <1>7, MethodsAre
<1>9. ToSet(<<>>) = {}
  BY DEF ToSet
<1>10. \A j \in (c + 1)..Len(t) : ToSet(MethodsOf(w[j], u)) = {}
  <2> TAKE j \in (c + 1)..Len(t)
  <2>1. w[j] = t[j] /\ t[j].unit \in EvalUnits
    BY <1>1, <1>6
  <2>2. w[j].unit # u
    BY <2>1
  <2> QED BY <1>9, <2>2, Zenon DEF MethodsOf
<1>11. UNION {ToSet(MethodsOf(w[j], u)) : j \in (c + 1)..Len(w)} = ToSet(m)
  <2>1. CASE m = <<>>
    <3>1. Len(w) = Len(t)
      BY <1>3, <1>6, <2>1
    <3> QED BY <1>9, <1>10, <2>1, <3>1
  <2>2. CASE m # <<>>
    <3>1. Len(f) = 1 /\ f[1] = [unit |-> u, methods |-> m]
      BY <1>3, <2>2
    <3> HIDE DEF f
    <3>2. Len(w) = Len(t) + 1 /\ w[Len(w)] = f[1]
      BY <1>6, <3>1
    <3>3. MethodsOf(w[Len(w)], u) = m
      BY <3>1, <3>2 DEF MethodsOf
    <3>4. (c + 1)..Len(w) = ((c + 1)..Len(t)) \cup {Len(w)}
      BY <1>1, <1>6, <3>2
    <3> QED BY <1>10, <3>3, <3>4
  <2> QED BY <2>1, <2>2
<1> QED BY <1>6, <1>8, <1>11 DEF w

\* A breakpoint is where the list of its unit puts it, once there is one.
LEMMA ResolvesOnce ==
  ASSUME ResolverInv, NEW u, u \notin DOMAIN breakable_lines_map, NEW items \in Seq(ItemSet),
         breakable_lines_map' = WithItems(breakable_lines_map, u, items),
         resolved_at' = Resolve(resolved_at, breakable_lines_map', u)
  PROVE  /\ DOMAIN breakable_lines_map' = DOMAIN breakable_lines_map \cup {u}
         /\ breakable_lines_map'[u] = items
         /\ \A v \in DOMAIN breakable_lines_map : breakable_lines_map'[v] = breakable_lines_map[v]
         /\ \A b \in DOMAIN resolved_at' : IsResolved(b)'
<1> DEFINE old == breakable_lines_map
           new == breakable_lines_map'
<1>1. new = [v \in DOMAIN old \cup {u} |-> IF v # u THEN old[v] ELSE <<>> \o items]
  BY Zenon DEF WithItems
<1>2. <<>> \o items = items
  OBVIOUS
<1>3. DOMAIN new = DOMAIN old \cup {u} /\ new[u] = items /\ \A v \in DOMAIN old : new[v] = old[v]
  BY <1>1, <1>2, Zenon
<1>4. ASSUME NEW b \in DOMAIN resolved_at'
      PROVE  IsResolved(b)'
  <2>1. /\ b \in DOMAIN resolved_at
        /\ resolved_at'[b] = IF b[1] = u /\ resolved_at[b] = 0 THEN Resolved(new[u], b[2])
                             ELSE resolved_at[b]
    BY Zenon DEF Resolve
  <2>2. /\ b[2] \in Nat
        /\ IF b[1] \in DOMAIN old THEN resolved_at[b] = Resolved(old[b[1]], b[2]) ELSE resolved_at[b] = 0
    BY <2>1, Zenon DEF ResolverInv, IsResolved
  <2>3. IF b[1] \in DOMAIN new THEN resolved_at'[b] = Resolved(new[b[1]], b[2]) ELSE resolved_at'[b] = 0
    <3> HIDE DEF old, new
    <3>1. CASE b[1] = u
      BY <1>3, <2>1, <2>2, <3>1, Zenon
    <3>2. CASE b[1] # u /\ b[1] \in DOMAIN old
      BY <1>3, <2>1, <2>2, <3>2, Zenon
    <3>3. CASE b[1] # u /\ b[1] \notin DOMAIN old
      BY <1>3, <2>1, <2>2, <3>3, Zenon
    <3> QED BY <3>1, <3>2, <3>3
  <2> QED BY <2>2, <2>3, Zenon DEF IsResolved
<1> QED BY <1>3, <1>4

LEMMA JoinedSets ==
  ASSUME NEW C, NEW x \in Seq(C), NEW y \in Seq(C), NEW m \in C
  PROVE  x \o y \o <<m>> \in Seq(C) /\ ToSet(x \o y \o <<m>>) = ToSet(x) \cup ToSet(y) \cup {m}
<1> DEFINE z == <<m>>
<1>1. z \in Seq(C)
  OBVIOUS
<1>2. ToSet(z) = {m}
  <2>1. DOMAIN z = {1}
    OBVIOUS
  <2>2. z[1] = m
    OBVIOUS
  <2> QED BY <2>1, <2>2, Zenon DEF ToSet
<1> HIDE DEF z
<1>3. x \o y \in Seq(C) /\ x \o y \o z \in Seq(C)
  BY <1>1
<1>4. SetJoins(x \o y, z, x \o y \o z)
  BY <1>1, <1>3, SetOfJoined, Zenon
<1>5. SetJoins(x, y, x \o y)
  BY SetOfJoined, Zenon
<1> QED BY <1>2, <1>3, <1>4, <1>5, Zenon DEF z, SetJoins

\* What a file's functions, methods and own code put in its list.
LEMMA ListOfUnit ==
  ASSUME units \in UnitShapes, NEW u \in DOMAIN units,
         NEW x \in Seq(UnitOpArrays), NEW y \in Seq(UnitOpArrays),
         ToSet(x) = ToSet(units[u].functions), ToSet(y) = ToSet(units[u].methods)
  PROVE  ToSet(ListItems(x \o y \o <<units[u].main>>)) = {LineItem(o) : o \in FunctionsOf(u)}
<1> DEFINE m == units[u].main
           s == x \o y \o <<m>>
<1>1. m \in UnitOpArrays
  BY UnitTyped, Zenon
<1> HIDE DEF m
<1>2. s \in Seq(UnitOpArrays) /\ ToSet(s) = ToSet(x) \cup ToSet(y) \cup {m}
  BY <1>1, JoinedSets
<1> HIDE DEF s
<1>3. ToSet(ListItems(s)) = {LineItem(p) : p \in UNION {Inner(o) : o \in ToSet(s)}}
  BY <1>2, ListItemsAre
<1>4. ToSet(s) = {m} \cup ToSet(units[u].functions) \cup ToSet(units[u].methods)
  BY <1>2
<1>5. FunctionsOf(u) = UNION {Inner(o) : o \in ToSet(s)}
  BY <1>4, Zenon DEF FunctionsOf, m
<1> QED BY <1>3, <1>5, Zenon DEF s, m

LEMMA Compiles == \A u : ResolverInv /\ CompileUnit(u) => ResolverInv'
<1> SUFFICES ASSUME ResolverInv, NEW u, CompileUnit(u)
             PROVE  ResolverInv'
  OBVIOUS
<1> DEFINE functions == Declared(u)
           classes == ClassesWith(u)
           methods == NewMethods(classes, class_count, u)
           named == NewOnes(functions, function_count)
           items == ListItems(named \o methods \o <<units[u].main>>)
<1>1. /\ u \in DOMAIN units /\ u \notin DOMAIN breakable_lines_map /\ u \notin EvalUnits
      /\ function_table' = functions /\ class_table' = classes
      /\ function_count' = Len(functions) /\ class_count' = Len(classes)
      /\ breakable_lines_map' = WithItems(breakable_lines_map, u, items)
      /\ resolved_at' = Resolve(resolved_at, WithItems(breakable_lines_map, u, items), u)
      /\ units' = units
  BY Zenon DEF CompileUnit, NewMethods
<1>2. /\ units \in UnitShapes /\ function_table \in Seq(UnitOpArrays)
      /\ function_count \in 0..Len(function_table)
      /\ (function_count = Len(function_table) \/ EvalsDeclared)
      /\ DOMAIN breakable_lines_map \subseteq DOMAIN units
      /\ \A v \in DOMAIN breakable_lines_map : breakable_lines_map[v] \in Seq(ItemSet) /\ UnitIsOwn(v)
  BY Zenon DEF ResolverInv
<1>3. /\ units[u].main \in UnitOpArrays /\ units[u].functions \in Seq(UnitOpArrays)
  BY <1>1, <1>2, UnitTyped, Zenon
<1>4. functions = function_table \o units[u].functions
  BY Zenon DEF Declared
<1>5. /\ methods \in Seq(UnitOpArrays) /\ ToSet(methods) = ToSet(units[u].methods)
      /\ classes \in Seq(ClassSet)
  BY <1>1, OwnMethods, Zenon
<1> HIDE DEF functions, classes, methods
<1>6. functions \in Seq(UnitOpArrays) /\ function_count \in 0..Len(functions)
  BY <1>2, <1>3, <1>4
<1>7. named \in Seq(UnitOpArrays)
  BY <1>6, NewOnesAre
<1> HIDE DEF named
<1>8. items \in Seq(ItemSet)
  <2>1. named \o methods \o <<units[u].main>> \in Seq(UnitOpArrays)
    BY <1>3, <1>5, <1>7, JoinedSets, Zenon
  <2> QED BY <2>1, ListItemsAre, Zenon
<1>9. ~EvalsDeclared => ToSet(items) = {LineItem(o) : o \in FunctionsOf(u)}
  <2> SUFFICES ASSUME ~EvalsDeclared
               PROVE  ToSet(items) = {LineItem(o) : o \in FunctionsOf(u)}
    OBVIOUS
  <2>1. function_count = Len(function_table)
    BY <1>2
  <2>2. ToSet(named) = ToSet(units[u].functions)
    BY <1>2, <1>3, <1>4, <2>1, NewestAre DEF named
  <2> QED BY <1>1, <1>2, <1>5, <1>7, <2>2, ListOfUnit, Zenon
<1> HIDE DEF items
<1>10. /\ DOMAIN breakable_lines_map' = DOMAIN breakable_lines_map \cup {u}
       /\ breakable_lines_map'[u] = items
       /\ \A v \in DOMAIN breakable_lines_map : breakable_lines_map'[v] = breakable_lines_map[v]
       /\ \A b \in DOMAIN resolved_at' : IsResolved(b)'
  <2>1. resolved_at' = Resolve(resolved_at, breakable_lines_map', u)
    BY <1>1, Zenon
  <2> QED BY <1>1, <1>8, <2>1, ResolvesOnce, Zenon
<1>11. EvalsDeclared' <=> EvalsDeclared
  BY <1>1, <1>10, Zenon DEF EvalsDeclared
<1>12. ASSUME NEW v \in DOMAIN breakable_lines_map'
       PROVE  breakable_lines_map'[v] \in Seq(ItemSet) /\ UnitIsOwn(v)'
  <2>1. FunctionsOf(v)' = FunctionsOf(v) /\ (HasOwnClass(v)' <=> HasOwnClass(v))
    BY <1>1, Zenon DEF FunctionsOf, HasOwnClass
  <2>2. CASE v = u
    <3>1. ~EvalsDeclared => ListIsOwn(v)'
      BY <1>9, <1>10, <2>1, <2>2, Zenon DEF ListIsOwn
    <3> QED BY <1>8, <1>10, <1>11, <2>2, <3>1, Zenon DEF UnitIsOwn
  <2>3. CASE v # u
    <3>1. v \in DOMAIN breakable_lines_map /\ breakable_lines_map'[v] = breakable_lines_map[v]
      BY <1>10, <2>3, Zenon
    <3>2. ListIsOwn(v) => ListIsOwn(v)'
      BY <2>1, <3>1, Zenon DEF ListIsOwn
    <3> QED BY <1>2, <1>11, <2>1, <3>1, <3>2, Zenon DEF UnitIsOwn
  <2> QED BY <2>2, <2>3
<1>13. ClassSet' = ClassSet
  BY <1>1 DEF ClassSet
<1>14. /\ function_count' \in 0..Len(function_table') /\ function_count' = Len(function_table')
       /\ class_count' \in 0..Len(class_table')
       /\ (class_count' + 1)..Len(class_table') = {}
  BY <1>1, <1>5, <1>6
<1>15. DOMAIN breakable_lines_map' \subseteq DOMAIN units'
  BY <1>1, <1>2, <1>10, Zenon
<1> QED BY <1>1, <1>2, <1>5, <1>6, <1>10, <1>12, <1>13, <1>14, <1>15, Zenon DEF ResolverInv

LEMMA Evaluates == \A u : ResolverInv /\ EvaluateUnit(u) => ResolverInv'
<1> SUFFICES ASSUME ResolverInv, NEW u, EvaluateUnit(u)
             PROVE  ResolverInv'
  OBVIOUS
<1> DEFINE m == units[u].main
           items == Items(m) \o Items(m)
           f == units[u].functions
           k == IF units[u].methods = <<>> THEN <<>> ELSE <<[unit |-> u, methods |-> units[u].methods]>>
<1>1. /\ u \in DOMAIN units /\ u \notin DOMAIN breakable_lines_map /\ u \in EvalUnits
      /\ function_table' = function_table \o f /\ class_table' = class_table \o k
      /\ function_count' = function_count /\ class_count' = class_count
      /\ breakable_lines_map' = WithItems(breakable_lines_map, u, items)
      /\ resolved_at' = Resolve(resolved_at, WithItems(breakable_lines_map, u, items), u)
      /\ units' = units
  BY Zenon DEF EvaluateUnit, Declared, ClassesWith
<1>2. /\ units \in UnitShapes /\ function_table \in Seq(UnitOpArrays)
      /\ function_count \in 0..Len(function_table)
      /\ (function_count = Len(function_table) \/ EvalsDeclared)
      /\ class_table \in Seq(ClassSet) /\ class_count \in 0..Len(class_table)
      /\ \A i \in (class_count + 1)..Len(class_table) : class_table[i].unit \in EvalUnits
      /\ DOMAIN breakable_lines_map \subseteq DOMAIN units
      /\ \A v \in DOMAIN breakable_lines_map : breakable_lines_map[v] \in Seq(ItemSet) /\ UnitIsOwn(v)
  BY Zenon DEF ResolverInv
<1>3. /\ m \in UnitOpArrays /\ f \in Seq(UnitOpArrays) /\ units[u].methods \in Seq(UnitOpArrays)
  BY <1>1, <1>2, UnitTyped, Zenon
<1>4. k \in Seq(ClassSet) /\ \A i \in 1..Len(k) : k[i].unit = u
  <2>1. [unit |-> u, methods |-> units[u].methods] \in ClassSet
    BY <1>1, <1>3 DEF ClassSet
  <2> QED BY <2>1
<1>5. items \in Seq(ItemSet) /\ ToSet(items) = {LineItem(p) : p \in Inner(m)}
  <2>1. Items(m) \in Seq(ItemSet) /\ ToSet(Items(m)) = {LineItem(p) : p \in Inner(m)}
    BY <1>3, ItemsAreInner, Zenon
  <2> DEFINE x == Items(m)
  <2> HIDE DEF x
  <2>2. x \in Seq(ItemSet)
    BY <2>1, Zenon DEF x
  <2>3. x \o x \in Seq(ItemSet)
    BY <2>2
  <2>4. SetJoins(x, x, x \o x)
    BY <2>2, SetOfJoined, Zenon
  <2>5. ToSet(x \o x) = ToSet(x)
    BY <2>4, Zenon DEF SetJoins
  <2> QED BY <2>1, <2>3, <2>5, Zenon DEF x
<1> HIDE DEF items, f, k
<1>6. /\ DOMAIN breakable_lines_map' = DOMAIN breakable_lines_map \cup {u}
      /\ breakable_lines_map'[u] = items
      /\ \A v \in DOMAIN breakable_lines_map : breakable_lines_map'[v] = breakable_lines_map[v]
      /\ \A b \in DOMAIN resolved_at' : IsResolved(b)'
  <2>1. resolved_at' = Resolve(resolved_at, breakable_lines_map', u)
    BY <1>1, Zenon
  <2> QED BY <1>1, <1>5, <2>1, ResolvesOnce, Zenon
<1>7. EvalsDeclared' <=> (EvalsDeclared \/ f # <<>>)
  BY <1>1, <1>6, Zenon DEF EvalsDeclared, f
<1>8. f = <<>> /\ units[u].methods = <<>> => FunctionsOf(u) = Inner(m)
  <2>1. ToSet(<<>>) = {}
    BY DEF ToSet
  <2> QED BY <2>1 DEF FunctionsOf, f
<1>9. ASSUME NEW v \in DOMAIN breakable_lines_map'
      PROVE  breakable_lines_map'[v] \in Seq(ItemSet) /\ UnitIsOwn(v)'
  <2>1. FunctionsOf(v)' = FunctionsOf(v) /\ (HasOwnClass(v)' <=> HasOwnClass(v))
    BY <1>1, Zenon DEF FunctionsOf, HasOwnClass
  <2>2. CASE v = u
    <3>1. CASE f # <<>>
      BY <1>5, <1>6, <1>7, <2>2, <3>1, Zenon DEF UnitIsOwn
    <3>2. CASE units[u].methods # <<>>
      BY <1>1, <1>5, <1>6, <2>1, <2>2, <3>2, Zenon DEF UnitIsOwn, HasOwnClass
    <3>3. CASE f = <<>> /\ units[u].methods = <<>>
      <4>1. ListIsOwn(v)'
        BY <1>5, <1>6, <1>8, <2>1, <2>2, <3>3, Zenon DEF ListIsOwn
      <4> QED BY <1>5, <1>6, <2>2, <4>1, Zenon DEF UnitIsOwn
    <3> QED BY <3>1, <3>2, <3>3
  <2>3. CASE v # u
    <3>1. v \in DOMAIN breakable_lines_map /\ breakable_lines_map'[v] = breakable_lines_map[v]
      BY <1>6, <2>3, Zenon
    <3>2. ListIsOwn(v) => ListIsOwn(v)'
      BY <2>1, <3>1, Zenon DEF ListIsOwn
    <3> QED BY <1>2, <1>7, <2>1, <3>1, <3>2, Zenon DEF UnitIsOwn
  <2> QED BY <2>2, <2>3
<1>10. /\ function_table' \in Seq(UnitOpArrays) /\ function_count' \in 0..Len(function_table')
       /\ function_count' = Len(function_table') \/ EvalsDeclared'
  <2>1. function_table' \in Seq(UnitOpArrays) /\ function_count' \in 0..Len(function_table')
    BY <1>1, <1>2, <1>3 DEF f
  <2>2. f = <<>> => function_table' = function_table
    BY <1>1, <1>2
  <2> QED BY <1>1, <1>2, <1>7, <2>1, <2>2, Zenon
<1>11. Joins(ClassSet, class_table, k, class_table \o k)
  BY <1>2, <1>4, Joined, Zenon
<1> DEFINE w == class_table \o k
<1> HIDE DEF w
<1>12. /\ w \in Seq(ClassSet) /\ Len(class_table) \in Nat /\ Len(k) \in Nat
       /\ Len(w) = Len(class_table) + Len(k)
       /\ \A j \in 1..Len(class_table) : w[j] = class_table[j]
       /\ \A j \in 1..Len(k) : w[Len(class_table) + j] = k[j]
  BY <1>11, Zenon DEF Joins, w
<1>13. class_count \in 0..Len(w)
  BY <1>2, <1>12
<1>14. ASSUME NEW i \in (class_count + 1)..Len(w)
       PROVE  w[i].unit \in EvalUnits
  <2>1. CASE i <= Len(class_table)
    BY <1>2, <1>12, <2>1
  <2>2. CASE ~(i <= Len(class_table))
    <3>1. i - Len(class_table) \in 1..Len(k) /\ Len(class_table) + (i - Len(class_table)) = i
      BY <1>2, <1>12, <2>2
    <3>2. w[i] = k[i - Len(class_table)]
      BY <1>12, <3>1
    <3> QED BY <1>1, <1>4, <3>1, <3>2
  <2> QED BY <2>1, <2>2
<1>15. ClassSet' = ClassSet
  BY <1>1 DEF ClassSet
<1>16. /\ class_table' \in Seq(ClassSet') /\ class_count' \in 0..Len(class_table')
       /\ \A i \in (class_count' + 1)..Len(class_table') : class_table'[i].unit \in EvalUnits
  BY <1>1, <1>12, <1>13, <1>14, <1>15, Zenon DEF w
<1>17. DOMAIN breakable_lines_map' \subseteq DOMAIN units'
  BY <1>1, <1>2, <1>6, Zenon
<1> QED BY <1>1, <1>2, <1>6, <1>9, <1>10, <1>16, <1>17, Zenon DEF ResolverInv

LEMMA SetsBreakpoint == \A u, n : ResolverInv /\ n \in BreakLines /\ SetBreakpoint(u, n) => ResolverInv'
<1> SUFFICES ASSUME ResolverInv, NEW u, NEW n \in BreakLines, SetBreakpoint(u, n)
             PROVE  ResolverInv'
  OBVIOUS
<1>1. /\ resolved_at' = [b \in DOMAIN resolved_at \cup {<<u, n>>} |->
           IF b # <<u, n>> THEN resolved_at[b]
           ELSE IF u \in DOMAIN breakable_lines_map THEN Resolved(breakable_lines_map[u], n) ELSE 0]
      /\ UNCHANGED <<units, function_table, class_table, function_count, class_count,
                     breakable_lines_map>>
  BY Zenon DEF SetBreakpoint
<1>2. n \in Nat /\ <<u, n>>[1] = u /\ <<u, n>>[2] = n
  BY ResolverAssumption
<1>3. ASSUME NEW b \in DOMAIN resolved_at'
      PROVE  IsResolved(b)'
  <2>1. CASE b = <<u, n>>
    <3>1. resolved_at'[b] = IF u \in DOMAIN breakable_lines_map
                            THEN Resolved(breakable_lines_map[u], n) ELSE 0
      BY <1>1, <2>1, Zenon
    <3>2. b[1] = u /\ b[2] = n
      BY <1>2, <2>1
    <3>3. breakable_lines_map' = breakable_lines_map
      BY <1>1
    <3> QED BY <1>2, <3>1, <3>2, <3>3, Zenon DEF IsResolved
  <2>2. CASE b # <<u, n>>
    <3>1. b \in DOMAIN resolved_at /\ resolved_at'[b] = resolved_at[b]
      BY <1>1, <2>2, Zenon
    <3>2. breakable_lines_map' = breakable_lines_map
      BY <1>1
    <3> QED BY <3>1, <3>2, Zenon DEF ResolverInv, IsResolved
  <2> QED BY <2>1, <2>2
<1>4. /\ units' = units /\ function_table' = function_table /\ class_table' = class_table
      /\ function_count' = function_count /\ class_count' = class_count
      /\ breakable_lines_map' = breakable_lines_map
  BY <1>1
<1>5. ClassSet' = ClassSet /\ (EvalsDeclared' <=> EvalsDeclared)
  BY <1>4, Zenon DEF ClassSet, EvalsDeclared
<1>6. \A v : UnitIsOwn(v)' <=> UnitIsOwn(v)
  BY <1>4, <1>5, Zenon DEF UnitIsOwn, ListIsOwn, HasOwnClass, FunctionsOf
<1> QED BY <1>3, <1>4, <1>5, <1>6, Zenon DEF ResolverInv

\* A line breakpoint is on the statement of its function its user meant, whether
\* it was set before or after its unit was compiled, and each unit's list is its
\* own until an eval declares functions (line_breakpoint_resolve_helper,
\* xdebug_debugger_compile_file).
THEOREM LinesResolved == ResolverSpec => []BreakpointsResolve
<1>1. ResolverInit => ResolverInv
  <2> SUFFICES ASSUME ResolverInit
               PROVE  ResolverInv
    OBVIOUS
  <2>1. /\ units \in UnitShapes /\ function_table = <<>> /\ class_table = <<>>
        /\ function_count = 0 /\ class_count = 0 /\ breakable_lines_map = <<>> /\ resolved_at = <<>>
    BY Zenon DEF ResolverInit
  <2>2. DOMAIN breakable_lines_map = {} /\ DOMAIN resolved_at = {}
    BY <2>1
  <2>3. /\ function_table \in Seq(UnitOpArrays) /\ function_count \in 0..Len(function_table)
        /\ function_count = Len(function_table)
        /\ class_table \in Seq(ClassSet) /\ class_count \in 0..Len(class_table)
        /\ (class_count + 1)..Len(class_table) = {}
    BY <2>1
  <2> QED BY <2>1, <2>2, <2>3, Zenon DEF ResolverInv
<1>2. ResolverInv /\ [ResolverNext]_resolverVars => ResolverInv'
  <2>1. ResolverInv /\ UNCHANGED resolverVars => ResolverInv'
    BY Zenon DEF ResolverInv, resolverVars, ClassSet, UnitIsOwn, ListIsOwn, HasOwnClass, FunctionsOf,
       EvalsDeclared, IsResolved
  <2> QED BY <2>1, Compiles, Evaluates, SetsBreakpoint, Zenon DEF ResolverNext
<1>3. ResolverInv => BreakpointsResolve
  <2> SUFFICES ASSUME ResolverInv
               PROVE  BreakpointsResolve
    OBVIOUS
  <2>1. \A u \in DOMAIN breakable_lines_map : ListIsOwn(u) \/ HasOwnClass(u) \/ EvalsDeclared
    BY Zenon DEF ResolverInv, UnitIsOwn
  <2>2. ASSUME NEW b \in DOMAIN resolved_at
        PROVE  IF b[1] \notin DOMAIN breakable_lines_map THEN resolved_at[b] = 0
               ELSE ListIsOwn(b[1]) => resolved_at[b] \in LineMeant(b[1], b[2])
    <3>1. IsResolved(b)
      BY Zenon DEF ResolverInv
    <3>2. CASE b[1] \notin DOMAIN breakable_lines_map
      BY <3>1, <3>2, Zenon DEF IsResolved
    <3>3. CASE b[1] \in DOMAIN breakable_lines_map
      <4> SUFFICES ASSUME ListIsOwn(b[1])
                   PROVE  resolved_at[b] \in LineMeant(b[1], b[2])
        BY <3>3, Zenon
      <4>1. resolved_at[b] = Resolved(breakable_lines_map[b[1]], b[2]) /\ b[2] \in Nat
        BY <3>1, <3>3, Zenon DEF IsResolved
      <4>2. breakable_lines_map[b[1]] \in Seq(ItemSet) /\ b[1] \in DOMAIN units /\ units \in UnitShapes
        BY <3>3, Zenon DEF ResolverInv
      <4>3. FunctionsOf(b[1]) \subseteq UnitOpArrays
        BY <4>2, UnitTyped, Zenon
      <4>4. ToSet(breakable_lines_map[b[1]]) = {LineItem(o) : o \in FunctionsOf(b[1])}
        BY Zenon DEF ListIsOwn
      <4> QED BY <4>1, <4>2, <4>3, <4>4, ResolvedIsMeant, Zenon
    <3> QED BY <3>2, <3>3
  <2> QED BY <2>1, <2>2, Zenon DEF BreakpointsResolve
<1> QED BY <1>1, <1>2, <1>3, PTL DEF ResolverSpec
-----------------------------------------------------------------------------
(* The lines that are covered.                                                *)

Covered(f) == [hit : SUBSET CodeFiles[f], exec : SUBSET CodeFiles[f], active : SUBSET CodeFiles[f]]

\* What is known of a file: the lines that ran are hit, the live ones are among
\* those there are, and the others are dead.
LineInv ==
  /\ cc_info = [f \in DOMAIN cc_info |-> cc_info[f]]
  /\ DOMAIN cc_info \subseteq DOMAIN CodeFiles
  /\ \A f \in DOMAIN cc_info : cc_info[f] \in Covered(f)
  /\ \A r \in cc_ran : r[1] \in DOMAIN cc_info
  /\ \A f \in DOMAIN cc_info : \A n : n \in cc_info[f].hit <=> <<f, n>> \in cc_ran
  /\ \A f \in DOMAIN cc_info : cc_info[f].active \subseteq cc_info[f].exec
  /\ "dead_code" \in cc_options /\ ~cc_late =>
       \A f \in DOMAIN cc_info : cc_info[f].exec \ cc_info[f].active \subseteq DeadLines[f]

\* The file that a new description of it is put into.
LEMMA WithNewFile ==
  ASSUME LineInv, NEW f \in DOMAIN CodeFiles, NEW file \in Covered(f)
  PROVE  /\ DOMAIN WithFile(f, file) = DOMAIN cc_info \cup {f}
         /\ WithFile(f, file)[f] = file
         /\ \A g \in DOMAIN cc_info : g # f => WithFile(f, file)[g] = cc_info[g]
         /\ WithFile(f, file) = [g \in DOMAIN WithFile(f, file) |-> WithFile(f, file)[g]]
         /\ \A g \in DOMAIN WithFile(f, file) : WithFile(f, file)[g] \in Covered(g)
BY DEF WithFile, LineInv

\* What is fetched of a file: nothing at first.
LEMMA FileFetched ==
  ASSUME LineInv, NEW f \in DOMAIN CodeFiles
  PROVE  /\ FetchFile(f) \in Covered(f)
         /\ f \in DOMAIN cc_info => FetchFile(f) = cc_info[f]
         /\ f \notin DOMAIN cc_info => FetchFile(f) = [hit |-> {}, exec |-> {}, active |-> {}]
         /\ \A n : n \in FetchFile(f).hit <=> <<f, n>> \in cc_ran
<1>1. CASE f \in DOMAIN cc_info
  BY <1>1 DEF FetchFile, LineInv
<1>2. CASE f \notin DOMAIN cc_info
  <2>1. \A n : <<f, n>> \notin cc_ran
    <3> SUFFICES ASSUME NEW n, <<f, n>> \in cc_ran
                 PROVE  FALSE
      OBVIOUS
    <3>1. <<f, n>>[1] = f
      OBVIOUS
    <3> QED BY <1>2, <3>1 DEF LineInv
  <2> QED BY <1>2, <2>1 DEF FetchFile, Covered
<1> QED BY <1>1, <1>2

\* One file is described anew, and what ran is known of it.
LEMMA FileKept ==
  ASSUME LineInv, NEW f \in DOMAIN CodeFiles, NEW file \in Covered(f),
         cc_info' = WithFile(f, file), UNCHANGED <<cc_options, cc_late>>,
         file.active \subseteq file.exec,
         "dead_code" \in cc_options /\ ~cc_late => file.exec \ file.active \subseteq DeadLines[f],
         \A n : n \in file.hit <=> <<f, n>> \in cc_ran',
         \A r \in cc_ran' : r \in cc_ran \/ r[1] = f,
         \A g : g # f => \A n : <<g, n>> \in cc_ran' <=> <<g, n>> \in cc_ran
  PROVE  LineInv'
<1>1. /\ DOMAIN cc_info' = DOMAIN cc_info \cup {f} /\ cc_info'[f] = file
      /\ \A g \in DOMAIN cc_info : g # f => cc_info'[g] = cc_info[g]
      /\ cc_info' = [g \in DOMAIN cc_info' |-> cc_info'[g]]
      /\ \A g \in DOMAIN cc_info' : cc_info'[g] \in Covered(g)
  <2>1. /\ DOMAIN WithFile(f, file) = DOMAIN cc_info \cup {f} /\ WithFile(f, file)[f] = file
        /\ \A g \in DOMAIN cc_info : g # f => WithFile(f, file)[g] = cc_info[g]
        /\ WithFile(f, file) = [g \in DOMAIN WithFile(f, file) |-> WithFile(f, file)[g]]
        /\ \A g \in DOMAIN WithFile(f, file) : WithFile(f, file)[g] \in Covered(g)
    BY WithNewFile
  <2>2. cc_info' = WithFile(f, file)
    OBVIOUS
  <2> QED BY ONLY <2>1, <2>2
<1>2. DOMAIN cc_info' \subseteq DOMAIN CodeFiles
  BY <1>1 DEF LineInv
<1>3. \A r \in cc_ran' : r[1] \in DOMAIN cc_info'
  BY <1>1 DEF LineInv
<1>4. ASSUME NEW g \in DOMAIN cc_info'
      PROVE  /\ \A n : n \in cc_info'[g].hit <=> <<g, n>> \in cc_ran'
             /\ cc_info'[g].active \subseteq cc_info'[g].exec
             /\ "dead_code" \in cc_options /\ ~cc_late =>
                  cc_info'[g].exec \ cc_info'[g].active \subseteq DeadLines[g]
  <2>1. CASE g = f
    BY <1>1, <2>1
  <2>2. CASE g # f
    <3>1. g \in DOMAIN cc_info /\ cc_info'[g] = cc_info[g]
      BY <1>1, <2>2
    <3>2. \A n : n \in cc_info[g].hit <=> <<g, n>> \in cc_ran'
      BY <2>2, <3>1 DEF LineInv
    <3> QED BY <3>1, <3>2 DEF LineInv
  <2> QED BY <2>1, <2>2
<1> QED BY <1>1, <1>2, <1>3, <1>4 DEF LineInv

\* What is reported of a line.
LEMMA LineReported ==
  ASSUME LineInv, NEW f \in DOMAIN cc_info, NEW n
  PROVE  /\ Reported(f, n) = 1 <=> n \in cc_info[f].hit
         /\ Reported(f, n) = -2 => /\ "dead_code" \in cc_options
                                   /\ n \in cc_info[f].exec \ cc_info[f].active
         /\ Reported(f, n) \in {1, -1, -2, 10}
<1> DEFINE k == LineNumber(cc_info[f], n)
<1>1. n \in cc_info[f].active => n \in cc_info[f].exec
  BY DEF LineInv
<1>2. CASE n \in cc_info[f].hit
  <2>1. k \in {1, 3, 7}
    BY <1>1, <1>2 DEF LineNumber
  <2> QED BY <1>2, <2>1 DEF Reported, Nmap
<1>3. CASE n \notin cc_info[f].hit /\ n \notin cc_info[f].exec
  <2>1. k = 0
    BY <1>1, <1>3 DEF LineNumber
  <2> QED BY <1>3, <2>1 DEF Reported, Nmap
<1>4. CASE n \notin cc_info[f].hit /\ n \in cc_info[f].active
  <2>1. k = 6
    BY <1>1, <1>4 DEF LineNumber
  <2> QED BY <1>4, <2>1 DEF Reported, Nmap
<1>5. CASE n \notin cc_info[f].hit /\ n \in cc_info[f].exec \ cc_info[f].active
  <2>1. k = 2
    BY <1>5 DEF LineNumber
  <2> QED BY <1>5, <2>1 DEF Reported, Nmap
<1> QED BY <1>1, <1>2, <1>3, <1>4, <1>5

\* A script is told of the lines that ran, and of dead ones only those.
THEOREM LinesReported == LineSpec => []LinesAreReported
<1>1. LineInit => LineInv
  BY DEF LineInit, LineInv
<1>2. LineInv /\ [LineNext]_lineVars => LineInv'
  <2> SUFFICES ASSUME LineInv, [LineNext]_lineVars
               PROVE  LineInv'
    OBVIOUS
  <2>1. ASSUME NEW o \in {{}, {"unused"}, {"unused", "dead_code"}}, StartCodeCoverage(o)
        PROVE  LineInv'
    BY <2>1 DEF StartCodeCoverage, LineInv
  <2>2. ASSUME NEW b \in BOOLEAN, StopCodeCoverage(b)
        PROVE  LineInv'
    <3>1. CASE b
      <4>1. /\ cc_info' = [f \in DOMAIN cc_info |-> [cc_info[f] EXCEPT !.hit = {}]]
            /\ cc_ran' = {} /\ UNCHANGED <<cc_options, cc_late>>
        BY <2>2, <3>1 DEF StopCodeCoverage
      <4>2. \A f \in DOMAIN cc_info : /\ cc_info'[f] \in Covered(f) /\ cc_info'[f].hit = {}
                                      /\ cc_info'[f].exec = cc_info[f].exec
                                      /\ cc_info'[f].active = cc_info[f].active
        BY <4>1 DEF LineInv, Covered
      <4>3. DOMAIN cc_info' = DOMAIN cc_info
        BY <4>1
      <4>4. cc_info' = [f \in DOMAIN cc_info' |-> cc_info'[f]]
        BY <4>1
      <4> QED BY <4>1, <4>2, <4>3, <4>4 DEF LineInv
    <3>2. CASE ~b
      BY <2>2, <3>2 DEF StopCodeCoverage, LineInv
    <3> QED BY <3>1, <3>2
  <2>3. ASSUME NEW f \in DOMAIN CodeFiles, NEW b \in BOOLEAN, CompileFile(f, b)
        PROVE  LineInv'
    <3> DEFINE file == [FetchFile(f) EXCEPT !.exec = CodeFiles[f],
              !.active = IF "dead_code" \in cc_options THEN CodeFiles[f] \ DeadLines[f] ELSE @]
    <3>1. UNCHANGED <<cc_options, cc_ran, cc_late>> /\ (cc_info' = cc_info \/ cc_info' = WithFile(f, file))
      BY <2>3, Zenon DEF CompileFile
    <3>2. CASE cc_info' = cc_info
      BY <3>1, <3>2 DEF LineInv
    <3>3. CASE cc_info' = WithFile(f, file)
      <4>1. /\ file \in Covered(f) /\ file.hit = FetchFile(f).hit /\ file.exec = CodeFiles[f]
            /\ file.active = IF "dead_code" \in cc_options THEN CodeFiles[f] \ DeadLines[f]
                             ELSE FetchFile(f).active
        BY FileFetched DEF Covered
      <4>2. file.active \subseteq file.exec
        BY <4>1, FileFetched DEF Covered
      <4>3. "dead_code" \in cc_options => file.exec \ file.active \subseteq DeadLines[f]
        BY <4>1
      <4>4. \A n : n \in file.hit <=> <<f, n>> \in cc_ran
        BY <4>1, FileFetched
      <4> HIDE DEF file
      <4> QED BY <3>1, <3>3, <4>1, <4>2, <4>3, <4>4, FileKept, Zenon
    <3> QED BY <3>1, <3>2, <3>3
  <2>4. ASSUME NEW f \in DOMAIN CodeFiles, NEW n \in CodeFiles[f] \ DeadLines[f], RunLine(f, n)
        PROVE  LineInv'
    <3> DEFINE file == [FetchFile(f) EXCEPT !.hit = @ \cup {n}]
    <3>1. /\ UNCHANGED <<cc_options, cc_late>>
          /\ (cc_info' = cc_info /\ cc_ran' = cc_ran)
               \/ (cc_info' = WithFile(f, file) /\ cc_ran' = cc_ran \cup {<<f, n>>})
      BY <2>4, Zenon DEF RunLine
    <3>2. CASE cc_info' = cc_info /\ cc_ran' = cc_ran
      BY <3>1, <3>2 DEF LineInv
    <3>3. CASE cc_info' = WithFile(f, file) /\ cc_ran' = cc_ran \cup {<<f, n>>}
      <4>1. /\ file \in Covered(f) /\ file.hit = FetchFile(f).hit \cup {n}
            /\ file.exec = FetchFile(f).exec /\ file.active = FetchFile(f).active
        BY FileFetched DEF Covered
      <4>2. file.active \subseteq file.exec
        BY <4>1, FileFetched DEF LineInv
      <4>3. "dead_code" \in cc_options /\ ~cc_late => file.exec \ file.active \subseteq DeadLines[f]
        BY <4>1, FileFetched DEF LineInv
      <4>4. \A m : m \in file.hit <=> <<f, m>> \in cc_ran'
        BY <3>3, <4>1, FileFetched
      <4> HIDE DEF file
      <4>5. \A r \in cc_ran' : r \in cc_ran \/ r[1] = f
        BY <3>3
      <4>6. \A g : g # f => \A m : <<g, m>> \in cc_ran' <=> <<g, m>> \in cc_ran
        BY <3>3
      <4> QED BY <3>1, <3>3, <4>1, <4>2, <4>3, <4>4, <4>5, <4>6, FileKept, Zenon
    <3> QED BY <3>1, <3>2, <3>3
  <2>5. CASE UNCHANGED lineVars
    BY <2>5 DEF lineVars, LineInv
  <2> QED BY <2>1, <2>2, <2>3, <2>4, <2>5, Zenon DEF LineNext
<1>3. LineInv => LinesAreReported
  <2> SUFFICES ASSUME LineInv, NEW f \in DOMAIN cc_info, NEW n \in CodeFiles[f]
               PROVE  /\ (Reported(f, n) = 1) = (<<f, n>> \in cc_ran)
                      /\ (Reported(f, n) = -2 /\ ~cc_late) => n \in DeadLines[f]
                      /\ Reported(f, n) \in {1, -1, -2, 10}
    BY DEF LinesAreReported
  <2>1. (Reported(f, n) = 1) <=> (<<f, n>> \in cc_ran)
    BY LineReported DEF LineInv
  <2> QED BY <2>1, LineReported DEF LineInv
<1> QED BY <1>1, <1>2, <1>3, PTL DEF LineSpec
-----------------------------------------------------------------------------

(* Branches and paths.                                                        *)



\* The opcode the analysis is at, and how far the loop over the outs is.
Current == IF stage = "branches" THEN position ELSE NotSet
LoopAt == IF stage = "outs" THEN position ELSE OpCount(op_array)
LastOp == OpCount(op_array) - 1

\* Opcodes that are executed one after the other, and those of one branch.
Straight(s, c) == \A k \in s..(c - 1) : ~EndsBranch(op_array, k)
InBranch(s, c) == s <= c /\ Straight(s, c) /\ \A k \in (s + 1)..c : k \notin starts

AnalysisTyped ==
  /\ op_array \in OpArrays /\ stage \in {"branches", "outs", "paths"}
  /\ active_code \subseteq DOMAIN op_array /\ starts \subseteq active_code
  /\ calls_left \subseteq DOMAIN op_array /\ (stage # "branches" => calls_left = {})
  /\ entry_points \subseteq DOMAIN op_array /\ (stage = "branches" => entry_points = {})
  /\ branch_ends \subseteq DOMAIN op_array
  /\ outs \in [DOMAIN op_array -> Seq(DOMAIN op_array \cup {EXIT})] /\ highest_out \in Nat
  /\ (stage = "branches" => position \in active_code \cup {NotSet})
  /\ (stage = "outs" => position \in 0..OpCount(op_array))
  /\ last_start \in starts \cup {NotSet} /\ in_branch \in BOOLEAN
  /\ (stage = "branches" => last_start = NotSet /\ in_branch = FALSE)
  /\ paths \subseteq Seq(DOMAIN op_array) /\ open_paths \subseteq Seq(DOMAIN op_array) \ {<<>>}
  /\ (stage # "paths" => open_paths = {})

\* An opcode that is found goes on to others that are, or will be.
Followed(i) ==
  IF EndsBranch(op_array, i)
  THEN i \in branch_ends /\ ToSet(Jumps(op_array, i)) \ {EXIT} \subseteq starts \cup calls_left
  ELSE i + 1 \in active_code
Begun(i) ==
  \E s \in starts : s <= i /\ Straight(s, i)

BranchesInv ==
  /\ {0} \cup Catches(op_array) \subseteq starts \cup calls_left
  /\ \A i \in active_code : i # Current => Followed(i)
  /\ \A i \in active_code : Begun(i)
  /\ \A i \in branch_ends : EndsBranch(op_array, i) /\ (i \in active_code \/ i = LastOp)
  /\ stage # "branches" => entry_points \subseteq starts /\ 0 \in entry_points

\* What the opcodes after the one reached have as outs are their jumps.
RawOuts(i) ==
  \/ i \in active_code /\ outs[i] = Jumps(op_array, i)
  \/ (i \in active_code => i = Current) /\ outs[i] = <<>>

OutsInv ==
  /\ \A i \in DOMAIN op_array : Len(outs[i]) <= highest_out
  /\ \A i \in DOMAIN op_array : ToSet(outs[i]) \subseteq ((starts \cup calls_left) \ {0}) \cup {EXIT}
  /\ \A s \in starts \cup calls_left : s = 0 \/ highest_out >= 1 \/ s \in Catches(op_array)
  /\ stage = "branches" => \A i \in DOMAIN op_array : RawOuts(i)
  /\ stage = "outs" => \A i \in DOMAIN op_array : i >= position => RawOuts(i)

OutsOf(s, c) == EndsBranch(op_array, c) => outs[s] = Jumps(op_array, c)
GoesBehind(s, c) == ~EndsBranch(op_array, c) /\ c + 1 \in starts => outs[s] = <<c + 1>>

LastStart ==
  IF LoopAt = 0 THEN last_start = NotSet
  ELSE last_start \in starts /\ last_start < LoopAt /\ \A k \in (last_start + 1)..(LoopAt - 1) : k \notin starts
Open == in_branch = (LoopAt > 0 /\ \A k \in last_start..(LoopAt - 1) : k \notin branch_ends)
LoopInv ==
  stage # "branches" =>
  /\ LastStart /\ Open
  /\ LastOp \in active_code =>
       \A s \in starts : \A c \in DOMAIN op_array : InBranch(s, c) =>
         (c < LoopAt => OutsOf(s, c)) /\ (c + 1 < LoopAt => GoesBehind(s, c))

\* The paths that can be taken and go nowhere else.
WholePath(p) ==
  /\ p \in Seq(DOMAIN op_array) /\ p # <<>> /\ p[1] \in entry_points
  /\ \A j \in 1..(Len(p) - 1) : p[j + 1] \in ToSet(outs[p[j]]) \ {0, EXIT}
  /\ \A j, k \in 1..(Len(p) - 1) : p[j] = p[k] /\ p[j + 1] = p[k + 1] => j = k
  /\ Onwards(p) = {}
Kept(p) == p \in paths \/ \E m \in 1..Len(p) : SubSeq(p, 1, m) \in open_paths
PathsInv == stage = "paths" => \A p : WholePath(p) => Kept(p)

AnalysisInv == AnalysisTyped /\ BranchesInv /\ OutsInv /\ LoopInv /\ PathsInv

\* The run.
GoesTo(c, next) == IF EndsBranch(op_array, c) THEN next \in ToSet(Jumps(op_array, c)) ELSE next = c + 1
Since(i, k) == executed[k] = i /\ \A m \in (k + 1)..Len(executed) : executed[m] \notin Watched
RunTyped ==
  /\ executed \in Seq(active_code) /\ pc \in DOMAIN op_array \cup {EXIT}
  /\ walked \in Seq((starts \cup {NotSet}) \X starts)
  /\ last_branch_nr \in starts \cup {NotSet}
  /\ cov_path \in Seq(Int)
  /\ executed = <<>> =>
       /\ pc = 0 /\ last_branch_nr = NotSet /\ hit_branch = {} /\ walked = <<>>
       /\ visited_branches = {} /\ cov_path = <<>>
  /\ executed # <<>> => Analysed /\ pc # 0 /\ walked # <<>> /\ (pc # EXIT => pc \in active_code)
PlaceInv ==
  executed # <<>> =>
    /\ last_branch_nr \in Watched /\ (AllNoticed => InBranch(last_branch_nr, Last(executed)))
    /\ \E k \in 1..Len(executed) : Since(last_branch_nr, k)
    /\ pc # EXIT /\ pc \notin entry_points => GoesTo(Last(executed), pc)
HitsInv ==
  executed # <<>> =>
  \A i \in starts :
      /\ Bit(i) \in hit_branch <=> i \in ToSet(executed) \cap Watched
      /\ \A k \in 1..Len(outs[i]) : \A j : j = outs[i][k] /\ j \notin entry_points =>
           (Bit(i) + k \in hit_branch <=> {i, j} \subseteq Watched /\ Stepped(i, j))
WalkInv ==
  /\ \A x, y : <<x, y>> \in visited_branches <=> \E k \in 1..Len(walked) : walked[k] = <<y, x>>
  /\ \A k \in 1..Len(walked) :
       IF walked[k][1] = NotSet THEN walked[k][2] \in entry_points
       ELSE /\ k > 1 /\ walked[k][1] = walked[k - 1][2] /\ walked[k][2] # 0
            /\ LastOp \in active_code /\ AllNoticed => walked[k][2] \in ToSet(outs[walked[k][1]])
  /\ walked # <<>> => walked[Len(walked)][2] = last_branch_nr
EndInv ==
  StepsDiffer /\ walked # <<>> =>
  \A k \in 1..Len(walked) : BeginsPath(k) =>
    \/ cov_path # <<>> /\ cov_path = PathFrom(k)
    \/ pc = EXIT /\ cov_path = <<>> /\ (PathFrom(k) \in paths => PathFrom(k) \in hit_paths)
RunInv == RunTyped /\ PlaceInv /\ HitsInv /\ WalkInv /\ EndInv

\* The ends of a function of the engine's: the first opcode, and the last, a return.
LEMMA IsOpArrayMeans ==
  ASSUME NEW ops, IsOpArray(ops)
  PROVE  /\ OpCount(ops) \in Nat \ {0} /\ DOMAIN ops = 0..(OpCount(ops) - 1)
         /\ OpCount(ops) - 1 \in DOMAIN ops /\ 0 \in DOMAIN ops
         /\ IsReturn(ops, OpCount(ops) - 1) /\ ops[0].op # "SWITCH"
         /\ \A i \in DOMAIN ops :
               /\ ops[i].op \notin {"FAST_CALL", "FAST_RET"}
               /\ HasTarget(ops, i) => ops[i].to \in DOMAIN ops \ {0}
<1> HIDE DEF OpCount, IsReturn, HasTarget
<1>1. /\ OpCount(ops) \in Nat \ {0} /\ DOMAIN ops = 0..(OpCount(ops) - 1)
      /\ IsReturn(ops, OpCount(ops) - 1) /\ ops[0].op # "SWITCH"
      /\ \A i \in DOMAIN ops :
               /\ ops[i].op \notin {"FAST_CALL", "FAST_RET"}
               /\ HasTarget(ops, i) => ops[i].to \in DOMAIN ops \ {0}
  BY DEF IsOpArray
<1>2. OpCount(ops) - 1 \in DOMAIN ops /\ 0 \in DOMAIN ops
  BY <1>1
<1> QED BY <1>1, <1>2

\* Where an opcode goes is in the function, but never to its first opcode, and
\* only one that ends a branch does not go on to the next.
LEMMA JumpsStayInside ==
  ASSUME NEW ops, IsOpArray(ops), NEW i \in DOMAIN ops
  PROVE  /\ Jumps(ops, i) \in Seq((DOMAIN ops \ {0}) \cup {EXIT})
         /\ ~EndsBranch(ops, i) => i + 1 \in DOMAIN ops /\ Jumps(ops, i) = <<>>
         /\ IsReturn(ops, i) => EndsBranch(ops, i) /\ ToSet(Jumps(ops, i)) \subseteq {EXIT}
         /\ IsCatch(ops, i) => Jumps(ops, i) # <<>>
<1> DEFINE N == OpCount(ops)  o == ops[i].op  to == ops[i].to
           T == (DOMAIN ops \ {0}) \cup {EXIT}
<1>0. /\ N \in Nat \ {0} /\ DOMAIN ops = 0..(N - 1)
      /\ N - 1 \in DOMAIN ops /\ IsReturn(ops, N - 1)
      /\ o \notin {"FAST_CALL", "FAST_RET"}
      /\ HasTarget(ops, i) => to \in DOMAIN ops \ {0}
  BY IsOpArrayMeans, Zenon
<1>1. i \in Nat /\ (~IsReturn(ops, i) => i + 1 \in DOMAIN ops \ {0} /\ N - 1 \in DOMAIN ops \ {0})
  <2> HIDE DEF N
  <2> QED BY ONLY <1>0, i \in DOMAIN ops
<1>2. CASE o \in {"JMP", "GOTO"}
  <2>1. Jumps(ops, i) = <<to>>
    BY <1>2 DEF Jumps
  <2>2. HasTarget(ops, i) /\ ~IsReturn(ops, i) /\ ~IsCatch(ops, i)
    BY <1>2 DEF HasTarget, IsReturn, IsCatch
  <2>3. <<to>> \in Seq(T) /\ <<to>> # <<>>
    BY <1>0, <2>2
  <2> QED BY <2>1, <2>2, <2>3, <1>1 DEF EndsBranch
<1>3. CASE o \in {"JMPZ", "FE_RESET", "FE_FETCH", "JMP_FRAMELESS"}
  <2>1. Jumps(ops, i) = <<i + 1, to>>
    BY <1>3 DEF Jumps
  <2>2. HasTarget(ops, i) /\ ~IsReturn(ops, i) /\ ~IsCatch(ops, i)
    BY <1>3 DEF HasTarget, IsReturn, IsCatch
  <2>3. <<i + 1, to>> \in Seq(T) /\ <<i + 1, to>> # <<>>
    BY <1>0, <1>1, <2>2
  <2> QED BY <2>1, <2>2, <2>3, <1>1 DEF EndsBranch
<1>4. CASE o = "CATCH"
  <2>1. Jumps(ops, i) \in {<<i + 1>>, <<i + 1, to>>}
    BY <1>4 DEF Jumps
  <2>2. HasTarget(ops, i) /\ ~IsReturn(ops, i)
    BY <1>4 DEF HasTarget, IsReturn
  <2>3. <<i + 1, to>> \in Seq(T) /\ <<i + 1, to>> # <<>> /\ <<i + 1>> \in Seq(T) /\ <<i + 1>> # <<>>
    BY <1>0, <1>1, <2>2
  <2> QED BY <2>1, <2>2, <2>3, <1>1 DEF EndsBranch
<1>5. CASE o = "LAST_CATCH"
  <2>1. Jumps(ops, i) = <<i + 1, EXIT>>
    BY <1>5 DEF Jumps
  <2>2. ~IsReturn(ops, i)
    BY <1>5 DEF IsReturn
  <2>3. <<i + 1, EXIT>> \in Seq(T) /\ <<i + 1, EXIT>> # <<>>
    <3>1. i + 1 \in T /\ EXIT \in T
      BY <1>1, <2>2
    <3> HIDE DEF T
    <3> QED BY ONLY <3>1
  <2> QED BY <2>1, <2>2, <2>3, <1>1 DEF EndsBranch
<1>6. CASE o = "MATCH"
  <2>1. Jumps(ops, i) = <<to, N - 1>>
    BY <1>6 DEF Jumps
  <2>2. HasTarget(ops, i) /\ ~IsReturn(ops, i) /\ ~IsCatch(ops, i)
    BY <1>6 DEF HasTarget, IsReturn, IsCatch
  <2>3. <<to, N - 1>> \in Seq(T) /\ <<to, N - 1>> # <<>>
    <3> HIDE DEF N
    <3> QED BY <1>0, <1>1, <2>2
  <2> QED BY <2>1, <2>2, <2>3, <1>1 DEF EndsBranch
<1>7. CASE o = "SWITCH"
  <2>1. Jumps(ops, i) = <<to, N - 1, i + 1>>
    BY <1>7 DEF Jumps
  <2>2. HasTarget(ops, i) /\ ~IsReturn(ops, i) /\ ~IsCatch(ops, i)
    BY <1>7 DEF HasTarget, IsReturn, IsCatch
  <2>3. <<to, N - 1, i + 1>> \in Seq(T) /\ <<to, N - 1, i + 1>> # <<>>
    <3> HIDE DEF N
    <3> QED BY <1>0, <1>1, <2>2
  <2> QED BY <2>1, <2>2, <2>3, <1>1 DEF EndsBranch
<1>8. CASE o \in {"RETURN", "THROW", "CALL_EXIT"}
  <2>1. Jumps(ops, i) = <<EXIT>>
    BY <1>8 DEF Jumps
  <2>2. ~IsCatch(ops, i)
    BY <1>8 DEF IsCatch
  <2>3. <<EXIT>> \in Seq(T) /\ <<EXIT>> # <<>> /\ ToSet(<<EXIT>>) \subseteq {EXIT}
    BY DEF ToSet
  <2> QED BY <2>1, <2>2, <2>3 DEF EndsBranch
<1>9. CASE o = "RETURN_BY_REF"
  <2>1. Jumps(ops, i) = <<>>
    BY <1>9 DEF Jumps
  <2>2. ~IsCatch(ops, i) /\ EndsBranch(ops, i)
    BY <1>9 DEF IsCatch, EndsBranch
  <2>3. <<>> \in Seq(T) /\ ToSet(<<>>) \subseteq {EXIT}
    BY DEF ToSet
  <2> QED BY <2>1, <2>2, <2>3
<1>10. CASE o \notin {"JMP", "GOTO", "JMPZ", "FE_RESET", "FE_FETCH", "JMP_FRAMELESS", "CATCH", "LAST_CATCH",
                      "MATCH", "SWITCH", "RETURN", "THROW", "CALL_EXIT", "RETURN_BY_REF"}
  <2>1. Jumps(ops, i) = <<>>
    BY <1>10, <1>0 DEF Jumps
  <2>2. ~IsCatch(ops, i) /\ ~IsReturn(ops, i)
    BY <1>10 DEF IsCatch, IsReturn
  <2>3. <<>> \in Seq(T)
    OBVIOUS
  <2> QED BY <2>1, <2>2, <2>3, <1>1
<1> QED BY ONLY <1>2, <1>3, <1>4, <1>5, <1>6, <1>7, <1>8, <1>9, <1>10

\* The function that is analysed is one of the engine's, and xdebug_find_jumps stays
\* inside it.
LEMMA OpArrayFacts ==
  ASSUME AnalysisTyped
  PROVE  /\ IsOpArray(op_array) /\ OpCount(op_array) \in Nat \ {0}
         /\ LastOp = OpCount(op_array) - 1 /\ DOMAIN op_array = 0..LastOp
         /\ LastOp \in DOMAIN op_array /\ 0 \in DOMAIN op_array /\ EndsBranch(op_array, LastOp)
         /\ \A i \in DOMAIN op_array :
              /\ Jumps(op_array, i) \in Seq((DOMAIN op_array \ {0}) \cup {EXIT})
              /\ ~EndsBranch(op_array, i) => i + 1 \in DOMAIN op_array /\ Jumps(op_array, i) = <<>>
              /\ IsCatch(op_array, i) => Jumps(op_array, i) # <<>>
<1>1. IsOpArray(op_array)
  BY CoverageAssumption DEF AnalysisTyped
<1>2. /\ OpCount(op_array) \in Nat \ {0} /\ DOMAIN op_array = 0..(OpCount(op_array) - 1)
      /\ OpCount(op_array) - 1 \in DOMAIN op_array /\ 0 \in DOMAIN op_array
      /\ IsReturn(op_array, OpCount(op_array) - 1)
  BY <1>1, IsOpArrayMeans, Zenon
<1>3. \A i \in DOMAIN op_array :
        /\ Jumps(op_array, i) \in Seq((DOMAIN op_array \ {0}) \cup {EXIT})
        /\ ~EndsBranch(op_array, i) => i + 1 \in DOMAIN op_array /\ Jumps(op_array, i) = <<>>
        /\ IsReturn(op_array, i) => EndsBranch(op_array, i)
        /\ IsCatch(op_array, i) => Jumps(op_array, i) # <<>>
  BY <1>1, JumpsStayInside, Zenon
<1> QED BY <1>1, <1>2, <1>3, Zenon DEF LastOp

\* The same without the jumps, for steps that look at none.
LEMMA OpArrayBounds ==
  ASSUME AnalysisTyped
  PROVE  /\ OpCount(op_array) \in Nat \ {0} /\ LastOp = OpCount(op_array) - 1 /\ LastOp \in Nat
         /\ DOMAIN op_array = 0..LastOp /\ active_code \subseteq DOMAIN op_array
         /\ LastOp \in DOMAIN op_array /\ 0 \in DOMAIN op_array
<1>1. /\ OpCount(op_array) \in Nat \ {0} /\ LastOp = OpCount(op_array) - 1
      /\ DOMAIN op_array = 0..LastOp
      /\ LastOp \in DOMAIN op_array /\ 0 \in DOMAIN op_array
  BY OpArrayFacts, Zenon
<1>2. active_code \subseteq DOMAIN op_array
  BY DEF AnalysisTyped
<1> HIDE DEF OpCount
<1> QED BY ONLY <1>1, <1>2

\* prefill_from_oparray begins with nothing found.
LEMMA AnalysisBegins == CoverageInit => AnalysisInv
<1> SUFFICES ASSUME CoverageInit
             PROVE  AnalysisInv
  OBVIOUS
<1>0. IsOpArray(op_array)
  BY CoverageAssumption DEF CoverageInit
<1>1. DOMAIN op_array \subseteq Nat /\ 0 \in DOMAIN op_array
  BY <1>0, IsOpArrayMeans
<1>2. AnalysisTyped
  BY <1>0, <1>1 DEF AnalysisTyped, CoverageInit, Catches
<1>3. BranchesInv
  BY DEF BranchesInv, CoverageInit, Current
<1>4. OutsInv
  BY DEF OutsInv, CoverageInit, RawOuts, Current, ToSet
<1> QED BY <1>2, <1>3, <1>4 DEF AnalysisInv, LoopInv, PathsInv, CoverageInit

\* xdebug_analysis_branch, called for the target of a jump or a catch block: it
\* begins a branch at an opcode, whether it has been there before or not.
LEMMA AnalysisBranchKeeps ==
  ASSUME AnalysisInv, AnalysisBranch
  PROVE  AnalysisInv'
<1>1. AnalysisTyped /\ BranchesInv /\ OutsInv
  BY DEF AnalysisInv
<1>2. /\ stage = "branches" /\ position = NotSet /\ stage' = "branches"
      /\ op_array' = op_array /\ branch_ends' = branch_ends /\ outs' = outs
      /\ highest_out' = highest_out /\ entry_points' = entry_points /\ paths' = paths
      /\ last_start' = last_start /\ in_branch' = in_branch /\ open_paths' = open_paths
  BY DEF AnalysisBranch
<1>3. PICK at \in calls_left :
        /\ calls_left' = calls_left \ {at} /\ starts' = starts \cup {at}
        /\ position' = IF at \in active_code THEN NotSet ELSE at
        /\ active_code' = active_code \cup {at}
  BY Zenon DEF AnalysisBranch
<1>4. DOMAIN op_array = 0..LastOp /\ active_code \subseteq DOMAIN op_array /\ at \in DOMAIN op_array
      /\ LastOp \in Nat
  BY <1>1, <1>3, OpArrayBounds DEF AnalysisTyped
<1>5. AnalysisTyped'
  BY <1>1, <1>2, <1>3 DEF AnalysisTyped
<1>6. BranchesInv'
  <2>1. ({0} \cup Catches(op_array) \subseteq starts \cup calls_left)'
    BY <1>1, <1>2, <1>3 DEF BranchesInv, Catches, IsCatch
  <2>2. ASSUME NEW i \in active_code', i # Current'
        PROVE  Followed(i)'
    <3>1. i \in active_code /\ i # Current
      BY <1>2, <1>3, <1>4, <2>2 DEF Current, NotSet
    <3>2. Followed(i)
      BY <1>1, <3>1 DEF BranchesInv
    <3> QED BY <1>2, <1>3, <3>2 DEF Followed
  <2>3. ASSUME NEW i \in active_code'
        PROVE  Begun(i)'
    <3>1. CASE i \in active_code
      <4>1. Begun(i)
        BY <1>1, <3>1 DEF BranchesInv
      <4> QED BY <4>1, <1>2, <1>3 DEF Begun, Straight
    <3>2. CASE i = at
      <4>1. i \in starts' /\ i <= i /\ Straight(i, i)'
        BY <3>2, <1>3, <1>4 DEF Straight
      <4> QED BY <4>1 DEF Begun
    <3> QED BY <3>1, <3>2, <1>3
  <2>4. ASSUME NEW i \in branch_ends'
        PROVE  (EndsBranch(op_array, i) /\ (i \in active_code \/ i = LastOp))'
    BY <1>1, <1>2, <1>3 DEF BranchesInv, LastOp
  <2> QED BY <1>2, <2>1, <2>2, <2>3, <2>4 DEF BranchesInv
<1>7. OutsInv'
  <2>1. starts' \cup calls_left' = starts \cup calls_left
    BY <1>3
  <2>2. ASSUME NEW i \in DOMAIN op_array
        PROVE  RawOuts(i)'
    <3>1. RawOuts(i)
      BY <1>1, <1>2 DEF OutsInv
    <3>2. CASE i \in active_code /\ outs[i] = Jumps(op_array, i)
      BY <3>2, <1>2, <1>3 DEF RawOuts
    <3>3. CASE (i \in active_code => i = Current) /\ outs[i] = <<>>
      <4>1. i \notin active_code
        BY <3>3, <1>2, <1>4 DEF Current, NotSet
      <4>2. i \in active_code' => i = Current'
        BY <4>1, <1>2, <1>3 DEF Current
      <4> QED BY <4>2, <3>3, <1>2 DEF RawOuts
    <3> QED BY <3>1, <3>2, <3>3 DEF RawOuts
  <2> QED BY <1>1, <1>2, <2>1, <2>2 DEF OutsInv, Catches, IsCatch
<1> QED BY <1>2, <1>5, <1>6, <1>7 DEF AnalysisInv, LoopInv, PathsInv

\* A turn of its loop leaves no way out of the opcode behind: what it jumps to has
\* been begun or is still to be, and without a jump the next opcode is live.
LEMMA FollowBranchKeeps ==
  ASSUME AnalysisInv, FollowBranch
  PROVE  AnalysisInv'
<1> DEFINE jumps == Jumps(op_array, position)
           ends == EndsBranch(op_array, position)
<1>1. AnalysisTyped /\ BranchesInv /\ OutsInv
  BY DEF AnalysisInv
<1>2. /\ stage = "branches" /\ position # NotSet /\ stage' = "branches"
      /\ op_array' = op_array /\ starts' = starts
      /\ entry_points' = entry_points /\ paths' = paths
      /\ last_start' = last_start /\ in_branch' = in_branch /\ open_paths' = open_paths
  BY DEF FollowBranch
<1>3. /\ DOMAIN op_array = 0..LastOp /\ active_code \subseteq DOMAIN op_array
      /\ position \in active_code /\ position \in DOMAIN op_array /\ LastOp \in Nat
      /\ jumps \in Seq((DOMAIN op_array \ {0}) \cup {EXIT})
      /\ ~ends => position + 1 \in DOMAIN op_array
  <2>1. /\ active_code \subseteq DOMAIN op_array /\ position \in active_code
        /\ position \in DOMAIN op_array
    BY <1>1, <1>2 DEF AnalysisTyped
  <2>2. /\ DOMAIN op_array = 0..LastOp
        /\ jumps \in Seq((DOMAIN op_array \ {0}) \cup {EXIT})
        /\ ~ends => position + 1 \in DOMAIN op_array
    BY <1>1, <2>1, OpArrayFacts, Zenon
  <2>3. LastOp \in Nat
    BY <1>1, OpArrayBounds
  <2> QED BY <2>1, <2>2, <2>3
<1>4. CASE ends
  <2>1. /\ branch_ends' = branch_ends \cup {position} /\ outs' = [outs EXCEPT ![position] = jumps]
        /\ highest_out' = MaxOf(highest_out, Len(jumps))
        /\ calls_left' = calls_left \cup (ToSet(jumps) \ {EXIT})
        /\ position' = NotSet /\ active_code' = active_code
    BY <1>4 DEF FollowBranch
  <2> HIDE DEF jumps
  <2>2. ToSet(jumps) \subseteq (DOMAIN op_array \ {0}) \cup {EXIT} /\ Len(jumps) \in Nat
    BY <1>3 DEF ToSet
  <2>3. highest_out' \in Nat /\ highest_out' >= highest_out /\ highest_out' >= Len(jumps)
    BY <1>1, <2>1, <2>2 DEF AnalysisTyped, MaxOf
  <2>4. /\ outs \in [DOMAIN op_array -> Seq(DOMAIN op_array \cup {EXIT})]
        /\ \A i \in DOMAIN op_array : outs'[i] = IF i = position THEN jumps ELSE outs[i]
        /\ jumps \in Seq(DOMAIN op_array \cup {EXIT})
    BY <1>1, <1>3, <2>1 DEF AnalysisTyped
  <2>5. AnalysisTyped'
    <3>1. outs' \in [DOMAIN op_array -> Seq(DOMAIN op_array \cup {EXIT})]
      BY <2>1, <2>4
    <3>2. calls_left' \subseteq DOMAIN op_array /\ branch_ends' \subseteq DOMAIN op_array
      BY <1>1, <1>3, <2>1, <2>2 DEF AnalysisTyped
    <3> QED BY <1>1, <1>2, <2>1, <2>3, <3>1, <3>2 DEF AnalysisTyped
  <2>6. BranchesInv'
    <3>1. ({0} \cup Catches(op_array) \subseteq starts \cup calls_left)'
      BY <1>1, <1>2, <2>1 DEF BranchesInv, Catches, IsCatch
    <3>2. ASSUME NEW i \in active_code', i # Current'
          PROVE  Followed(i)'
      <4>1. CASE i = position
        <5>1. i \in branch_ends' /\ ToSet(jumps) \ {EXIT} \subseteq starts' \cup calls_left'
          BY <4>1, <1>2, <2>1
        <5> QED BY <5>1, <4>1, <1>2, <1>4 DEF Followed, jumps
      <4>2. CASE i # position
        <5>1. Followed(i)
          BY <4>2, <1>1, <1>2, <2>1 DEF BranchesInv, Current
        <5> QED BY <5>1, <1>2, <2>1 DEF Followed
      <4> QED BY <4>1, <4>2
    <3>3. ASSUME NEW i \in active_code'
          PROVE  Begun(i)'
      <4>1. Begun(i)
        BY <1>1, <2>1 DEF BranchesInv
      <4> QED BY <4>1, <1>2 DEF Begun, Straight
    <3>4. ASSUME NEW i \in branch_ends'
          PROVE  (EndsBranch(op_array, i) /\ (i \in active_code \/ i = LastOp))'
      BY <1>1, <1>2, <1>3, <1>4, <2>1 DEF BranchesInv, LastOp
    <3> QED BY <1>2, <3>1, <3>2, <3>3, <3>4 DEF BranchesInv
  <2>7. OutsInv'
    <3>1. ASSUME NEW i \in DOMAIN op_array
          PROVE  /\ Len(outs'[i]) <= highest_out'
                 /\ ToSet(outs'[i]) \subseteq ((starts' \cup calls_left') \ {0}) \cup {EXIT}
      <4>1. CASE i = position
        BY <4>1, <2>1, <2>2, <2>3, <2>4
      <4>2. CASE i # position
        <5>1. outs'[i] = outs[i] /\ Len(outs[i]) \in Nat
          BY <4>2, <2>4
        <5>2. /\ Len(outs[i]) <= highest_out
              /\ ToSet(outs[i]) \subseteq ((starts \cup calls_left) \ {0}) \cup {EXIT}
          BY <1>1 DEF OutsInv
        <5>3. highest_out \in Nat
          BY <1>1 DEF AnalysisTyped
        <5> QED BY <5>1, <5>2, <5>3, <2>1, <2>3, <1>2
      <4> QED BY <4>1, <4>2
    <3>2. ASSUME NEW s \in starts' \cup calls_left'
          PROVE  s = 0 \/ highest_out' >= 1 \/ s \in Catches(op_array)
      <4>1. CASE s \in starts \cup calls_left
        <5>1. s = 0 \/ highest_out >= 1 \/ s \in Catches(op_array)
          BY <4>1, <1>1 DEF OutsInv
        <5>2. highest_out \in Nat
          BY <1>1 DEF AnalysisTyped
        <5> QED BY <5>1, <5>2, <2>3
      <4>2. CASE s \in ToSet(jumps)
        <5>1. Len(jumps) >= 1
          BY <4>2, <1>3 DEF ToSet
        <5> QED BY <5>1, <2>2, <2>3
      <4> QED BY <4>1, <4>2, <2>1, <1>2
    <3>3. ASSUME NEW i \in DOMAIN op_array
          PROVE  RawOuts(i)'
      <4>1. CASE i = position
        BY <4>1, <1>2, <1>3, <2>1, <2>4 DEF RawOuts, jumps
      <4>2. CASE i # position
        <5>1. RawOuts(i)
          BY <1>1, <1>2 DEF OutsInv
        <5>2. i # Current
          BY <4>2, <1>2 DEF Current
        <5>3. outs'[i] = outs[i]
          BY <4>2, <2>4
        <5> QED BY <5>1, <5>2, <5>3, <1>2, <2>1 DEF RawOuts
      <4> QED BY <4>1, <4>2
    <3> QED BY <1>2, <3>1, <3>2, <3>3 DEF OutsInv, Catches, IsCatch
  <2> QED BY <1>2, <2>5, <2>6, <2>7 DEF AnalysisInv, LoopInv, PathsInv
<1>5. CASE ~ends
  <2>1. /\ branch_ends' = branch_ends /\ outs' = outs /\ highest_out' = highest_out
        /\ calls_left' = calls_left /\ position' = position + 1
        /\ active_code' = active_code \cup {position + 1}
    BY <1>5 DEF FollowBranch
  <2>2. position + 1 \in DOMAIN op_array
    BY <1>3, <1>5
  <2>3. AnalysisTyped'
    BY <1>1, <1>2, <2>1, <2>2 DEF AnalysisTyped
  <2>4. BranchesInv'
    <3>1. ({0} \cup Catches(op_array) \subseteq starts \cup calls_left)'
      BY <1>1, <1>2, <2>1 DEF BranchesInv, Catches, IsCatch
    <3>2. ASSUME NEW i \in active_code', i # Current'
          PROVE  Followed(i)'
      <4>1. CASE i = position
        BY <4>1, <1>2, <1>5, <2>1 DEF Followed
      <4>2. CASE i # position
        <5>1. Followed(i)
          BY <4>2, <3>2, <1>1, <1>2, <2>1 DEF BranchesInv, Current
        <5> QED BY <5>1, <1>2, <2>1 DEF Followed
      <4> QED BY <4>1, <4>2
    <3>3. ASSUME NEW i \in active_code'
          PROVE  Begun(i)'
      <4>1. CASE i \in active_code
        <5>1. Begun(i)
          BY <1>1, <4>1 DEF BranchesInv
        <5> QED BY <5>1, <1>2 DEF Begun, Straight
      <4>2. CASE i = position + 1
        <5>1. PICK s \in starts : s <= position /\ Straight(s, position)
          BY <1>1, <1>3 DEF BranchesInv, Begun
        <5>2. s \in Nat /\ position \in Nat
          BY <1>1, <1>3 DEF AnalysisTyped
        <5>3. \A k \in s..((position + 1) - 1) : ~EndsBranch(op_array, k)
          BY <5>1, <5>2, <1>5 DEF Straight
        <5> QED BY <5>1, <5>2, <5>3, <4>2, <1>2 DEF Begun, Straight
      <4> QED BY <4>1, <4>2, <2>1
    <3>4. ASSUME NEW i \in branch_ends'
          PROVE  (EndsBranch(op_array, i) /\ (i \in active_code \/ i = LastOp))'
      BY <1>1, <1>2, <2>1 DEF BranchesInv, LastOp
    <3> QED BY <1>2, <3>1, <3>2, <3>3, <3>4 DEF BranchesInv
  <2>5. OutsInv'
    <3>1. ASSUME NEW i \in DOMAIN op_array
          PROVE  RawOuts(i)'
      <4>1. RawOuts(i)
        BY <1>1, <1>2 DEF OutsInv
      <4>2. CASE i \in active_code /\ outs[i] = Jumps(op_array, i)
        BY <4>2, <1>2, <2>1 DEF RawOuts
      <4>3. CASE i = position /\ outs[i] = <<>>
        <5>1. Jumps(op_array, position) = <<>>
          BY <1>1, <1>3, <1>5, OpArrayFacts
        <5> QED BY <4>3, <5>1, <1>2, <1>3, <2>1 DEF RawOuts
      <4>4. CASE i \notin active_code /\ outs[i] = <<>>
        BY <4>4, <1>2, <2>1 DEF RawOuts, Current
      <4> QED BY <4>1, <4>2, <4>3, <4>4, <1>2 DEF RawOuts, Current
    <3> QED BY <1>1, <1>2, <2>1, <3>1 DEF OutsInv, Catches, IsCatch
  <2> QED BY <1>2, <2>3, <2>4, <2>5 DEF AnalysisInv, LoopInv, PathsInv
<1> QED BY <1>4, <1>5

\* only_leave_first_catch takes entry points away, never the function's begin, and the
\* last opcode is an end though it may be dead.
LEMMA BranchesFoundKeeps ==
  ASSUME AnalysisInv, BranchesFound
  PROVE  AnalysisInv'
<1> DEFINE entries == {0} \cup Catches(op_array)
<1>1. AnalysisTyped /\ BranchesInv /\ OutsInv
  BY DEF AnalysisInv
<1>2. /\ stage = "branches" /\ position = NotSet /\ calls_left = {} /\ calls_left' = {}
      /\ stage' = "outs" /\ position' = 0
      /\ op_array' = op_array /\ starts' = starts /\ active_code' = active_code
      /\ entry_points' = entries \ Chained(op_array, entries)
      /\ branch_ends' = branch_ends \cup {LastOp}
      /\ outs' = outs /\ highest_out' = highest_out /\ paths' = paths
      /\ last_start' = last_start /\ in_branch' = in_branch /\ open_paths' = open_paths
  BY DEF BranchesFound, LastOp
<1>3. /\ DOMAIN op_array = 0..LastOp /\ LastOp \in Nat /\ LastOp \in DOMAIN op_array
      /\ EndsBranch(op_array, LastOp) /\ 0 \in DOMAIN op_array /\ LastOp = OpCount(op_array) - 1
  BY <1>1, OpArrayFacts, OpArrayBounds, Zenon
<1>4. entries \subseteq starts /\ entries \subseteq DOMAIN op_array
  BY <1>1, <1>2, <1>3 DEF BranchesInv, Catches
<1>5. 0 \notin Chained(op_array, entries)
  <2>1. IsOpArray(op_array)
    BY <1>1, OpArrayFacts
  <2>2. ASSUME NEW i \in entries, op_array[i].op = "CATCH"
        PROVE  op_array[i].to # 0
    BY <1>4, <2>1, <2>2 DEF IsOpArray, HasTarget
  <2> QED BY <2>2 DEF Chained
<1>6. entry_points' \subseteq starts /\ 0 \in entry_points' /\ entry_points' \subseteq DOMAIN op_array
  BY <1>2, <1>4, <1>5
<1>7. AnalysisTyped'
  <2>1. branch_ends' \subseteq DOMAIN op_array
    BY <1>1, <1>2, <1>3 DEF AnalysisTyped
  <2>2. OpCount(op_array) \in Nat
    BY <1>1, OpArrayBounds
  <2>3. 0 \in 0..OpCount(op_array)
    BY ONLY <2>2
  <2> QED BY <1>1, <1>2, <1>6, <2>1, <2>3 DEF AnalysisTyped
<1>8. BranchesInv'
  <2>1. ({0} \cup Catches(op_array) \subseteq starts \cup calls_left)'
    BY <1>1, <1>2 DEF BranchesInv, Catches, IsCatch
  <2>2. ASSUME NEW i \in active_code'
        PROVE  Followed(i)' /\ Begun(i)'
    <3>1. i # Current
      BY <1>1, <1>2, <1>3 DEF Current, NotSet, AnalysisTyped
    <3>2. Followed(i) /\ Begun(i)
      BY <3>1, <1>1, <1>2 DEF BranchesInv
    <3> QED BY <3>2, <1>2 DEF Followed, Begun, Straight
  <2>3. ASSUME NEW i \in branch_ends'
        PROVE  (EndsBranch(op_array, i) /\ (i \in active_code \/ i = LastOp))'
    BY <1>1, <1>2, <1>3 DEF BranchesInv, LastOp
  <2> QED BY <1>2, <1>6, <2>1, <2>2, <2>3 DEF BranchesInv
<1>9. OutsInv'
  <2>1. ASSUME NEW i \in DOMAIN op_array
        PROVE  RawOuts(i)'
    <3>1. RawOuts(i) /\ i # Current /\ i # Current'
      BY <1>1, <1>2, <1>3 DEF OutsInv, Current, NotSet
    <3> QED BY <3>1, <1>2 DEF RawOuts
  <2> QED BY <1>1, <1>2, <2>1 DEF OutsInv, Catches, IsCatch
<1>10. LoopInv'
  <2>1. LoopAt' = 0
    BY <1>2 DEF LoopAt
  <2>2. LastStart' /\ Open'
    BY <1>1, <1>2, <2>1 DEF LastStart, Open, AnalysisTyped
  <2>3. ASSUME NEW c \in DOMAIN op_array
        PROVE  ~(c < 0) /\ ~(c + 1 < 0)
    BY <1>3
  <2> QED BY <1>2, <2>1, <2>2, <2>3 DEF LoopInv
<1> QED BY <1>2, <1>7, <1>8, <1>9, <1>10 DEF AnalysisInv, PathsInv

\* When the branches are found, what is straight behind live code is live.
LEMMA StraightStaysActive ==
  ASSUME AnalysisTyped, BranchesInv, stage # "branches",
         NEW s \in active_code, NEW c \in DOMAIN op_array, s <= c, Straight(s, c)
  PROVE  c \in active_code
<1>1. /\ DOMAIN op_array = 0..LastOp /\ LastOp \in Nat /\ active_code \subseteq DOMAIN op_array
  BY OpArrayBounds
<1>2. \A i \in active_code : ~EndsBranch(op_array, i) => i + 1 \in active_code
  BY <1>1 DEF BranchesInv, Followed, Current, NotSet
<1>3. s \in Nat /\ c \in Nat
  BY <1>1
<1> DEFINE S == {n \in Nat : s + n <= c => s + n \in active_code}
<1>4. 0 \in S
  BY <1>3
<1>5. ASSUME NEW n \in Nat, n \in S
      PROVE  n + 1 \in S
  <2>1. CASE s + (n + 1) <= c
    <3>1. s + n \in active_code /\ s + n \in s..(c - 1)
      BY <1>3, <1>5, <2>1
    <3>2. ~EndsBranch(op_array, s + n)
      BY <3>1 DEF Straight
    <3>3. (s + n) + 1 \in active_code
      BY <3>1, <3>2, <1>2
    <3> QED BY <3>3, <1>3
  <2>2. CASE ~(s + (n + 1) <= c)
    BY <2>2
  <2> QED BY <2>1, <2>2
<1>6. \A n \in Nat : n \in S
  <2> HIDE DEF S
  <2> QED BY <1>4, <1>5, Induction, Zenon
<1>7. c - s \in S
  BY <1>3, <1>6
<1> QED BY <1>3, <1>7

\* A turn of the loop over the outs: the branch the opcode is in, and what it
\* changes.
Branch == IF position \in starts THEN position ELSE last_start
TurnMeans ==
  /\ position \in DOMAIN op_array /\ position \in Nat
  /\ Branch \in starts /\ Branch <= position
  /\ \A k \in (Branch + 1)..position : k \notin starts
  /\ position > 0 => last_start \in starts /\ last_start < position
  /\ in_branch => position > 0
  /\ last_start' = Branch
  /\ in_branch' = (position \notin branch_ends /\ (position \in starts \/ in_branch))
  /\ outs' \in [DOMAIN op_array -> Seq(DOMAIN op_array \cup {EXIT})]
  /\ \A x \in DOMAIN op_array :
       outs'[x] = IF position \in branch_ends /\ x = Branch THEN outs[position]
                  ELSE IF position \in starts /\ in_branch /\ x = last_start THEN <<position>>
                  ELSE outs[x]

\* What a turn of xdebug_branch_post_process changes: the outs of two branches at
\* most, the one it leaves behind and the one it is in.
LEMMA FindOutsTurns ==
  ASSUME AnalysisInv, FindOuts
  PROVE  TurnMeans
<1> DEFINE linked == IF position \in starts /\ in_branch THEN [outs EXCEPT ![last_start] = <<position>>] ELSE outs
           T == Seq(DOMAIN op_array \cup {EXIT})
<1>1. AnalysisTyped /\ BranchesInv /\ LoopInv
  BY DEF AnalysisInv
<1>2. /\ stage = "outs" /\ position < OpCount(op_array)
      /\ last_start' = Branch
      /\ in_branch' = (position \notin branch_ends /\ (position \in starts \/ in_branch))
      /\ outs' = IF position \in branch_ends THEN [linked EXCEPT ![Branch] = linked[position]] ELSE linked
  BY DEF FindOuts, Branch
<1>3. /\ OpCount(op_array) \in Nat \ {0} /\ LastOp = OpCount(op_array) - 1 /\ LastOp \in Nat
      /\ DOMAIN op_array = 0..LastOp
      /\ starts \subseteq DOMAIN op_array /\ starts \subseteq 0..LastOp
  BY <1>1, OpArrayBounds DEF AnalysisTyped
<1>4. position \in DOMAIN op_array /\ position \in Nat /\ LoopAt = position
  <2>1. position \in 0..OpCount(op_array)
    BY <1>1, <1>2 DEF AnalysisTyped
  <2> HIDE DEF OpCount, LastOp
  <2>2. position \in DOMAIN op_array /\ position \in Nat
    BY <1>2, <1>3, <2>1
  <2> QED BY <2>2, <1>2 DEF LoopAt
<1>5. LastStart /\ Open
  BY <1>1, <1>2 DEF LoopInv
<1>6. position = 0 => position \in starts
  BY <1>1, <1>2 DEF BranchesInv
<1>7. /\ position > 0 => last_start \in starts /\ last_start < position
                         /\ \A k \in (last_start + 1)..(position - 1) : k \notin starts
      /\ in_branch => position > 0
  <2>1. position > 0 => LoopAt # 0
    BY <1>4
  <2> QED BY <2>1, <1>4, <1>5, Zenon DEF LastStart, Open
<1>8. /\ Branch \in starts /\ Branch <= position
      /\ \A k \in (Branch + 1)..position : k \notin starts
  <2>1. CASE position \in starts
    BY <2>1, <1>4 DEF Branch
  <2>2. CASE position \notin starts
    <3>1. Branch = last_start /\ position > 0
      BY <2>2, <1>4, <1>6 DEF Branch
    <3>2. Branch \in starts /\ Branch \in Nat /\ Branch < position
          /\ \A k \in (Branch + 1)..(position - 1) : k \notin starts
      BY <3>1, <1>3, <1>7
    <3> QED BY ONLY <3>2, <2>2, <1>4
  <2> QED BY <2>1, <2>2
<1>9. outs \in [DOMAIN op_array -> T]
  BY <1>1 DEF AnalysisTyped
<1>10. <<position>> \in T
  BY <1>4
<1>11. linked \in [DOMAIN op_array -> T] /\ linked[position] = outs[position]
       /\ \A x \in DOMAIN op_array :
            linked[x] = IF position \in starts /\ in_branch /\ x = last_start THEN <<position>> ELSE outs[x]
  <2> HIDE DEF T
  <2>1. position > 0 => last_start # position
    BY <1>3, <1>4, <1>7
  <2> QED BY <1>4, <1>7, <1>9, <1>10, <2>1
<1>12. outs' \in [DOMAIN op_array -> T]
       /\ \A x \in DOMAIN op_array :
       outs'[x] = IF position \in branch_ends /\ x = Branch THEN outs[position]
                  ELSE IF position \in starts /\ in_branch /\ x = last_start THEN <<position>>
                  ELSE outs[x]
  <2> HIDE DEF T, linked
  <2>1. Branch \in DOMAIN op_array
    BY <1>3, <1>8
  <2> QED BY ONLY <1>2, <1>4, <1>11, <2>1
<1> QED BY <1>2, <1>4, <1>7, <1>8, <1>12 DEF TurnMeans

\* The opcode of a turn is in a branch that began at or before it.
LEMMA FindOutsKeepsTypes ==
  ASSUME AnalysisInv, FindOuts, TurnMeans
  PROVE  AnalysisTyped' /\ BranchesInv' /\ stage' = "outs" /\ LoopAt' = position + 1
<1>1. AnalysisTyped /\ BranchesInv
  BY DEF AnalysisInv
<1>2. /\ stage = "outs" /\ stage' = "outs" /\ position' = position + 1
      /\ position < OpCount(op_array)
      /\ op_array' = op_array /\ starts' = starts /\ active_code' = active_code
      /\ entry_points' = entry_points /\ branch_ends' = branch_ends /\ calls_left' = calls_left
      /\ highest_out' = highest_out /\ paths' = paths /\ open_paths' = open_paths
  BY DEF FindOuts
<1>3. position' \in 0..OpCount(op_array)
  <2>1. position \in Nat /\ OpCount(op_array) \in Nat
    BY <1>1, OpArrayBounds DEF TurnMeans
  <2> HIDE DEF OpCount
  <2> QED BY ONLY <1>2, <2>1
<1>4. last_start' \in starts /\ in_branch' \in BOOLEAN
      /\ outs' \in [DOMAIN op_array -> Seq(DOMAIN op_array \cup {EXIT})]
  BY DEF TurnMeans
<1>5. AnalysisTyped'
  BY <1>1, <1>2, <1>3, <1>4 DEF AnalysisTyped
<1>6. BranchesInv'
  BY <1>1, <1>2 DEF BranchesInv, Followed, Begun, Straight, Current, Catches, IsCatch, LastOp
<1> QED BY <1>2, <1>5, <1>6 DEF LoopAt

\* Outs lead to branches or out of the function, and are no more than highest_out.
LEMMA FindOutsKeepsOuts ==
  ASSUME AnalysisInv, FindOuts, TurnMeans
  PROVE  OutsInv'
<1>1. AnalysisTyped /\ BranchesInv /\ OutsInv
  BY DEF AnalysisInv
<1>2. /\ stage = "outs" /\ stage' = "outs" /\ position' = position + 1
      /\ op_array' = op_array /\ starts' = starts /\ active_code' = active_code
      /\ calls_left' = calls_left /\ highest_out' = highest_out
  BY DEF FindOuts
<1>3. /\ DOMAIN op_array = 0..LastOp /\ LastOp \in Nat /\ highest_out \in Nat
      /\ starts \subseteq active_code /\ starts \subseteq DOMAIN op_array
      /\ outs \in [DOMAIN op_array -> Seq(DOMAIN op_array \cup {EXIT})]
  BY <1>1, OpArrayBounds DEF AnalysisTyped
<1>4. position \in DOMAIN op_array /\ position \in Nat
  BY DEF TurnMeans
<1>5. /\ Len(outs[position]) <= highest_out
      /\ ToSet(outs[position]) \subseteq ((starts \cup calls_left) \ {0}) \cup {EXIT}
  BY <1>1, <1>4 DEF OutsInv
<1>6. ASSUME position \in starts, in_branch
      PROVE  /\ Len(<<position>>) <= highest_out
             /\ ToSet(<<position>>) \subseteq ((starts \cup calls_left) \ {0}) \cup {EXIT}
  <2>1. position > 0
    BY <1>6 DEF TurnMeans
  <2>2. highest_out >= 1
    <3>1. CASE position \in Catches(op_array)
      <4>1. Jumps(op_array, position) # <<>>
        BY <3>1, <1>1, <1>4, OpArrayFacts DEF Catches
      <4>2. RawOuts(position)
        BY <1>1, <1>2, <1>4 DEF OutsInv
      <4>3. outs[position] = Jumps(op_array, position)
        BY <4>2, <1>2, <1>3, <1>4, <1>6 DEF RawOuts, Current, NotSet
      <4>4. outs[position] \in Seq(DOMAIN op_array \cup {EXIT}) /\ outs[position] # <<>>
        BY <4>1, <4>3, <1>3, <1>4
      <4>5. Len(outs[position]) >= 1
        BY ONLY <4>4
      <4>6. Len(outs[position]) \in Nat
        BY <4>4
      <4> QED BY ONLY <4>5, <4>6, <1>3, <1>5
    <3>2. CASE position \notin Catches(op_array)
      BY <3>2, <2>1, <1>1, <1>4, <1>6 DEF OutsInv
    <3> QED BY <3>1, <3>2
  <2>3. Len(<<position>>) = 1 /\ ToSet(<<position>>) = {position}
    BY DEF ToSet
  <2> QED BY <2>1, <2>2, <2>3, <1>6
<1>7. ASSUME NEW x \in DOMAIN op_array
      PROVE  /\ Len(outs'[x]) <= highest_out
             /\ ToSet(outs'[x]) \subseteq ((starts \cup calls_left) \ {0}) \cup {EXIT}
  <2>1. outs'[x] \in {outs[position], outs[x]} \/ (position \in starts /\ in_branch /\ outs'[x] = <<position>>)
    BY DEF TurnMeans
  <2>2. /\ Len(outs[x]) <= highest_out
        /\ ToSet(outs[x]) \subseteq ((starts \cup calls_left) \ {0}) \cup {EXIT}
    BY <1>1 DEF OutsInv
  <2> QED BY <2>1, <2>2, <1>5, <1>6
<1>8. ASSUME NEW i \in DOMAIN op_array, i >= position'
      PROVE  RawOuts(i)'
  <2>1. i # Branch /\ i # position /\ (in_branch => i # last_start)
    <3>1. Branch <= position /\ Branch \in Nat /\ (in_branch => last_start < position /\ last_start \in Nat)
      BY <1>3 DEF TurnMeans
    <3> QED BY ONLY <3>1, <1>2, <1>3, <1>4, <1>8
  <2>2. outs'[i] = outs[i]
    BY <2>1 DEF TurnMeans
  <2>3. RawOuts(i)
    BY <1>1, <1>2, <1>3, <1>4, <1>8 DEF OutsInv
  <2> QED BY <2>2, <2>3, <1>2 DEF RawOuts, Current
<1>9. \A s \in starts \cup calls_left : s = 0 \/ highest_out >= 1 \/ s \in Catches(op_array)
  BY <1>1 DEF OutsInv
<1> QED BY <1>2, <1>7, <1>8, <1>9 DEF OutsInv, Catches, IsCatch

\* The branches that the loop has passed have the outs of their last opcode, or the
\* branch that starts behind them.
LEMMA FindOutsKeepsLoop ==
  ASSUME AnalysisInv, FindOuts, TurnMeans
  PROVE  LoopInv'
<1> DEFINE p == position
<1>1. AnalysisTyped /\ BranchesInv /\ OutsInv /\ LoopInv
  BY DEF AnalysisInv
<1>2. /\ stage = "outs" /\ stage' = "outs" /\ position' = p + 1
      /\ op_array' = op_array /\ starts' = starts /\ active_code' = active_code
      /\ branch_ends' = branch_ends /\ LastOp' = LastOp
  BY DEF FindOuts, LastOp
<1>3. /\ DOMAIN op_array = 0..LastOp /\ LastOp \in Nat
      /\ starts \subseteq active_code /\ active_code \subseteq DOMAIN op_array /\ starts \subseteq Nat
      /\ outs \in [DOMAIN op_array -> Seq(DOMAIN op_array \cup {EXIT})]
  <2>1. /\ DOMAIN op_array = 0..LastOp /\ LastOp \in Nat /\ active_code \subseteq DOMAIN op_array
    BY <1>1, OpArrayBounds, Zenon
  <2>2. starts \subseteq active_code
        /\ outs \in [DOMAIN op_array -> Seq(DOMAIN op_array \cup {EXIT})]
    BY <1>1 DEF AnalysisTyped
  <2>3. starts \subseteq Nat
    BY ONLY <2>1, <2>2
  <2> QED BY <2>1, <2>2, <2>3, Zenon
<1>4. /\ p \in DOMAIN op_array /\ p \in Nat /\ LoopAt = p /\ LoopAt' = p + 1
      /\ Branch \in starts /\ Branch <= p /\ Branch \in Nat
      /\ \A k \in (Branch + 1)..p : k \notin starts
  BY <1>2, <1>3 DEF TurnMeans, LoopAt
<1>5. /\ last_start' = Branch /\ in_branch' = (p \notin branch_ends /\ (p \in starts \/ in_branch))
      /\ in_branch => p > 0 /\ last_start \in starts /\ last_start < p
  BY DEF TurnMeans
<1>6. LastStart'
  BY <1>2, <1>4, <1>5 DEF LastStart
<1>7. in_branch = (p > 0 /\ \A k \in last_start..(p - 1) : k \notin branch_ends)
  BY <1>1, <1>2, <1>4 DEF LoopInv, Open
<1>8. p > 0 => last_start \in starts /\ last_start < p /\ \A k \in (last_start + 1)..(p - 1) : k \notin starts
  BY <1>1, <1>2, <1>4 DEF LoopInv, LastStart
<1>9. Open'
  <2>1. in_branch' = \A k \in Branch..p : k \notin branch_ends
    <3>1. CASE p \in starts
      <4>1. Branch = p
        BY <3>1 DEF Branch
      <4>2. (\A k \in Branch..p : k \notin branch_ends) <=> p \notin branch_ends
        BY <4>1, <1>4
      <4> QED BY <4>2, <3>1, <1>5, Zenon
    <3>2. CASE p \notin starts
      <4>1. Branch = last_start /\ p > 0
        BY <3>2, <1>4 DEF Branch
      <4>2. in_branch' = (p \notin branch_ends /\ in_branch)
        BY <3>2, <1>5
      <4>3. (\A k \in Branch..p : k \notin branch_ends)
              <=> p \notin branch_ends /\ \A k \in Branch..(p - 1) : k \notin branch_ends
        BY <1>4
      <4> QED BY <4>1, <4>2, <4>3, <1>7, Zenon
    <3> QED BY <3>1, <3>2
  <2>2. p + 1 > 0 /\ (p + 1) - 1 = p
    BY <1>4
  <2> QED BY <2>1, <2>2, <1>2, <1>4, <1>5 DEF Open
<1>10. ASSUME LastOp \in active_code, NEW s \in starts, NEW c \in DOMAIN op_array, InBranch(s, c)
       PROVE  (c < p + 1 => OutsOf(s, c)') /\ (c + 1 < p + 1 => GoesBehind(s, c)')
  <2>1. /\ s \in Nat /\ c \in Nat /\ s <= c /\ Straight(s, c) /\ s \in DOMAIN op_array
        /\ \A k \in (s + 1)..c : k \notin starts
    BY <1>3, <1>10 DEF InBranch
  <2>2. c \in active_code
    BY <1>1, <1>2, <1>3, <2>1, StraightStaysActive
  <2>3. EndsBranch(op_array, c) => c \in branch_ends
    <3>1. c # Current
      BY <1>2, <2>1 DEF Current, NotSet
    <3>2. Followed(c)
      BY <3>1, <2>2, <1>1 DEF BranchesInv
    <3> QED BY <3>2 DEF Followed
  <2>4. (c < p => OutsOf(s, c)) /\ (c + 1 < p => GoesBehind(s, c))
    BY <1>1, <1>2, <1>4, <1>10 DEF LoopInv
  <2>5. outs'[s] = IF p \in branch_ends /\ s = Branch THEN outs[p]
                  ELSE IF p \in starts /\ in_branch /\ s = last_start THEN <<p>>
                  ELSE outs[s]
    BY <2>1 DEF TurnMeans
  <2>6. ASSUME c < p, EndsBranch(op_array, c)
        PROVE  outs'[s] = Jumps(op_array, c)
    <3>1. outs[s] = Jumps(op_array, c)
      BY <2>4, <2>6 DEF OutsOf
    <3>2. ~(p \in starts /\ in_branch /\ s = last_start)
      <4>1. s = last_start => c \in last_start..(p - 1)
        BY <2>1, <2>6, <1>4
      <4> QED BY <4>1, <2>3, <2>6, <1>7, Zenon
    <3>3. ~(p \in branch_ends /\ s = Branch)
      <4> SUFFICES ASSUME p \in branch_ends, s = Branch
                   PROVE  FALSE
        OBVIOUS
      <4>1. p \in active_code
        BY <1>1, <1>10 DEF BranchesInv
      <4>2. PICK b \in starts : b <= p /\ Straight(b, p)
        BY <4>1, <1>1 DEF BranchesInv, Begun
      <4>3. b <= s
        BY <4>2, <1>3, <1>4
      <4>4. c \in b..(p - 1)
        BY <4>2, <4>3, <2>1, <2>6, <1>3, <1>4
      <4> QED BY <4>2, <4>4, <2>6 DEF Straight
    <3> QED BY <3>1, <3>2, <3>3, <2>5
  <2>7. ASSUME c = p, EndsBranch(op_array, c)
        PROVE  outs'[s] = Jumps(op_array, c)
    <3>1. s = Branch
      <4>1. ~(s < Branch)
        BY <2>1, <2>7, <1>4
      <4>2. ~(Branch < s)
        BY <2>1, <2>7, <1>4
      <4> QED BY ONLY <4>1, <4>2, <2>1, <1>4
    <3>2. outs'[s] = outs[p]
      BY <3>1, <2>3, <2>5, <2>7
    <3>3. RawOuts(p)
      BY <1>1, <1>2, <1>4 DEF OutsInv
    <3>4. outs[p] = Jumps(op_array, p)
      BY <3>3, <2>2, <2>7, <1>2, <1>4 DEF RawOuts, Current, NotSet
    <3> QED BY <3>2, <3>4, <2>7
  <2>8. ASSUME c + 1 < p, ~EndsBranch(op_array, c), c + 1 \in starts
        PROVE  outs'[s] = <<c + 1>>
    <3>1. outs[s] = <<c + 1>>
      BY <2>4, <2>8 DEF GoesBehind
    <3>2. ~(p > 0 /\ s = last_start)
      <4>1. s = last_start /\ p > 0 => c + 1 \in (last_start + 1)..(p - 1)
        BY <2>1, <2>8, <1>4
      <4> QED BY <4>1, <2>8, <1>8
    <3>3. s # Branch
      <4>1. s = Branch => c + 1 \in (Branch + 1)..p
        BY <2>1, <2>8, <1>4
      <4> QED BY <4>1, <2>8, <1>4
    <3> QED BY <3>1, <3>2, <3>3, <2>5, <1>5
  <2>9. ASSUME c + 1 = p, ~EndsBranch(op_array, c), c + 1 \in starts
        PROVE  outs'[s] = <<c + 1>>
    <3>1. Branch = p /\ s # p /\ p > 0
      BY <2>1, <2>9, <1>4 DEF Branch
    <3>2. s = last_start
      <4>0. last_start \in Nat
        BY <3>1, <1>3, <1>8
      <4>1. ~(s < last_start)
        BY <4>0, <2>1, <2>9, <1>4, <1>8, <3>1
      <4>2. ~(last_start < s)
        BY <4>0, <2>1, <2>9, <1>4, <1>8, <3>1
      <4> QED BY ONLY <4>0, <4>1, <4>2, <2>1
    <3>3. in_branch
      <4>1. ASSUME NEW k \in s..(p - 1)
            PROVE  k \notin branch_ends
        <5>1. k \in s..(c - 1) \/ k = c
          BY <2>1, <2>9, <1>4
        <5>2. ~EndsBranch(op_array, k)
          BY <5>1, <2>1, <2>9 DEF Straight
        <5> QED BY <5>2, <1>1 DEF BranchesInv
      <4> QED BY <4>1, <3>1, <3>2, <1>7
    <3> QED BY <3>1, <3>2, <3>3, <2>5, <2>9
  <2>10. OutsOf(s, c)' = (EndsBranch(op_array, c) => outs'[s] = Jumps(op_array, c))
    BY <1>2 DEF OutsOf
  <2>11. GoesBehind(s, c)' = (~EndsBranch(op_array, c) /\ c + 1 \in starts => outs'[s] = <<c + 1>>)
    BY <1>2 DEF GoesBehind
  <2>12. c < p + 1 => c < p \/ c = p
    BY <2>1, <1>4
  <2>13. c + 1 < p + 1 => c + 1 < p \/ c + 1 = p
    BY <2>1, <1>4
  <2> QED BY ONLY <2>6, <2>7, <2>8, <2>9, <2>10, <2>11, <2>12, <2>13
<1>11. ASSUME NEW s \in starts, NEW c \in DOMAIN op_array
       PROVE  InBranch(s, c)' = InBranch(s, c)
  BY <1>2 DEF InBranch, Straight
<1> QED BY <1>2, <1>4, <1>6, <1>9, <1>10, <1>11 DEF LoopInv

\* So a turn of xdebug_branch_post_process keeps what is known of the analysis.
LEMMA FindOutsKeeps ==
  ASSUME AnalysisInv, FindOuts
  PROVE  AnalysisInv'
<1>1. TurnMeans
  BY FindOutsTurns
<1> QED BY <1>1, FindOutsKeepsTypes, FindOutsKeepsOuts, FindOutsKeepsLoop DEF AnalysisInv, PathsInv

\* xdebug_branch_find_paths: every path begins at an entry point.
LEMMA OutsFoundKeeps ==
  ASSUME AnalysisInv, OutsFound
  PROVE  AnalysisInv'
<1>1. AnalysisTyped /\ BranchesInv /\ OutsInv /\ LoopInv
  BY DEF AnalysisInv
<1>2. /\ stage = "outs" /\ position = OpCount(op_array) /\ stage' = "paths" /\ position' = NotSet
      /\ open_paths' = {<<i>> : i \in entry_points}
      /\ op_array' = op_array /\ starts' = starts /\ active_code' = active_code
      /\ entry_points' = entry_points /\ branch_ends' = branch_ends /\ calls_left' = calls_left
      /\ outs' = outs /\ highest_out' = highest_out /\ paths' = paths
      /\ last_start' = last_start /\ in_branch' = in_branch
  BY DEF OutsFound, branchVars
<1>3. entry_points \subseteq DOMAIN op_array
  BY <1>1 DEF AnalysisTyped
<1>4. AnalysisTyped'
  <2> DEFINE D == DOMAIN op_array
  <2>1. \A i \in D : <<i>> \in Seq(D) \ {<<>>}
    <3> HIDE DEF D
    <3> QED OBVIOUS
  <2>2. open_paths' \subseteq Seq(D) \ {<<>>}
    BY <2>1, <1>2, <1>3
  <2> QED BY <1>1, <1>2, <2>2 DEF AnalysisTyped
<1>5. BranchesInv'
  BY <1>1, <1>2 DEF BranchesInv, Followed, Begun, Straight, Current, Catches, IsCatch, LastOp
<1>6. OutsInv'
  BY <1>1, <1>2 DEF OutsInv, Catches, IsCatch
<1>7. LoopInv'
  <2>1. LoopAt' = LoopAt /\ LastOp' = LastOp
    BY <1>2 DEF LoopAt, LastOp
  <2>2. LastStart' /\ Open'
    BY <1>1, <1>2, <2>1 DEF LoopInv, LastStart, Open
  <2> QED BY <1>1, <1>2, <2>1, <2>2 DEF LoopInv, InBranch, Straight, OutsOf, GoesBehind
<1>8. PathsInv'
  <2>1. ASSUME NEW p, WholePath(p)'
        PROVE  Kept(p)'
    <3>1. p \in Seq(DOMAIN op_array) /\ p # <<>> /\ p[1] \in entry_points
      BY <2>1, <1>2 DEF WholePath
    <3>2. 1 \in 1..Len(p)
      BY ONLY <3>1
    <3>3. SubSeq(p, 1, 1) = <<p[1]>>
      <4>1. SubSeq(p, 1, 1) \in Seq({p[1]}) /\ Len(SubSeq(p, 1, 1)) = 1 /\ SubSeq(p, 1, 1)[1] = p[1]
        BY ONLY <3>1, <3>2
      <4>2. <<p[1]>> \in Seq({p[1]}) /\ Len(<<p[1]>>) = 1 /\ <<p[1]>>[1] = p[1]
        BY ONLY TRUE
      <4>3. \A i \in 1..Len(SubSeq(p, 1, 1)) : SubSeq(p, 1, 1)[i] = <<p[1]>>[i]
        BY ONLY <4>1, <4>2
      <4> QED BY <4>1, <4>2, <4>3, SeqEqual
    <3> QED BY <3>1, <3>2, <3>3, <1>2 DEF Kept
  <2> QED BY <2>1 DEF PathsInv
<1> QED BY <1>4, <1>5, <1>6, <1>7, <1>8 DEF AnalysisInv

\* xdebug_branch_find_path: a path that it does not keep yet has a beginning it will
\* still go on from.
LEMMA FindPathKeeps ==
  ASSUME AnalysisInv, FindPath
  PROVE  AnalysisInv'
<1> DEFINE D == DOMAIN op_array
<1>1. AnalysisTyped /\ BranchesInv /\ OutsInv /\ LoopInv /\ PathsInv
  BY DEF AnalysisInv
<1>2. /\ stage = "paths" /\ stage' = "paths" /\ position' = position
      /\ op_array' = op_array /\ starts' = starts /\ active_code' = active_code
      /\ entry_points' = entry_points /\ branch_ends' = branch_ends /\ calls_left' = calls_left
      /\ outs' = outs /\ highest_out' = highest_out
      /\ last_start' = last_start /\ in_branch' = in_branch
  BY DEF FindPath
<1>3. PICK path \in open_paths :
        /\ paths' = IF Onwards(path) = {} THEN paths \cup {path} ELSE paths
        /\ open_paths' = (open_paths \ {path}) \cup {Append(path, out) : out \in Onwards(path)}
  BY Zenon DEF FindPath
<1>4. path \in Seq(D) /\ path # <<>> /\ calls_left = {} /\ starts \subseteq D
      /\ open_paths \subseteq Seq(D) \ {<<>>} /\ paths \subseteq Seq(D)
  BY <1>1, <1>2, <1>3 DEF AnalysisTyped
<1>5. Onwards(path) \subseteq D
  <2>1. Last(path) \in D
    BY <1>4 DEF Last
  <2>2. ToSet(outs[Last(path)]) \subseteq starts \cup {EXIT}
    BY <2>1, <1>1, <1>4 DEF OutsInv
  <2> QED BY <2>2, <1>4 DEF Onwards
<1>6. AnalysisTyped'
  <2>1. \A out \in D : Append(path, out) \in Seq(D) \ {<<>>}
    BY <1>4
  <2>2. open_paths' \subseteq Seq(D) \ {<<>>} /\ paths' \subseteq Seq(D)
    BY <2>1, <1>3, <1>4, <1>5
  <2> QED BY <1>1, <1>2, <2>2 DEF AnalysisTyped
<1>7. BranchesInv'
  BY <1>1, <1>2 DEF BranchesInv, Followed, Begun, Straight, Current, Catches, IsCatch, LastOp
<1>8. OutsInv'
  BY <1>1, <1>2 DEF OutsInv, Catches, IsCatch
<1>9. LoopInv'
  BY <1>1, <1>2 DEF LoopInv, LastStart, Open, InBranch, Straight, OutsOf, GoesBehind, LoopAt, LastOp
<1>10. PathsInv'
  <2>1. ASSUME NEW p, WholePath(p)'
        PROVE  Kept(p)'
    <3>1. WholePath(p)
      BY <2>1, <1>2 DEF WholePath, Onwards
    <3>2. p \in Seq(D) /\ p # <<>> /\ Len(p) \in Nat
      BY <3>1 DEF WholePath
    <3>3. CASE p \in paths
      BY <3>3, <1>3 DEF Kept
    <3>4. CASE \E m \in 1..Len(p) : SubSeq(p, 1, m) \in open_paths
      <4>1. PICK m \in 1..Len(p) : SubSeq(p, 1, m) \in open_paths
        BY <3>4
      <4>2. CASE SubSeq(p, 1, m) # path
        BY <4>1, <4>2, <1>3 DEF Kept
      <4>3. CASE SubSeq(p, 1, m) = path /\ m = Len(p)
        <5>1. SubSeq(p, 1, m) = p
          BY <4>3, <3>2
        <5>2. Onwards(path) = {}
          BY <5>1, <4>3, <3>1 DEF WholePath
        <5> QED BY <5>1, <5>2, <4>3, <1>3 DEF Kept
      <4>4. CASE SubSeq(p, 1, m) = path /\ m # Len(p)
        <5>1. m \in 1..(Len(p) - 1) /\ m + 1 \in 1..Len(p)
          BY <4>1, <4>4, <3>2
        <5>2. Len(path) = m /\ \A k \in 1..m : path[k] = p[k]
          BY ONLY <4>4, <3>2, <5>1
        <5>3. Last(path) = p[m]
          BY <5>1, <5>2 DEF Last
        <5>4. p[m + 1] \in ToSet(outs[p[m]]) \ {0, EXIT}
          BY <5>1, <3>1 DEF WholePath
        <5>5. <<p[m], p[m + 1]>> \notin StepsOf(path)
          <6> SUFFICES ASSUME <<p[m], p[m + 1]>> \in StepsOf(path)
                       PROVE  FALSE
            OBVIOUS
          <6>1. PICK k \in 1..(Len(path) - 1) : <<p[m], p[m + 1]>> = <<path[k], path[k + 1]>>
            BY DEF StepsOf
          <6>2. k \in 1..(m - 1) /\ k \in 1..m /\ k + 1 \in 1..m /\ k \in 1..(Len(p) - 1)
            BY <6>1, <5>1, <5>2, <3>2
          <6>3. p[m] = p[k] /\ p[m + 1] = p[k + 1]
            BY <6>1, <6>2, <5>2
          <6>4. m = k
            BY <6>2, <6>3, <5>1, <3>1 DEF WholePath
          <6> QED BY <6>2, <6>4
        <5>6. p[m + 1] \in Onwards(path)
          BY <5>3, <5>4, <5>5 DEF Onwards
        <5>7. SubSeq(p, 1, m + 1) = Append(path, p[m + 1])
          <6>1. SubSeq(p, 1, m + 1) = Append(SubSeq(p, 1, m), p[m + 1])
            BY ONLY <3>2, <5>1
          <6> QED BY <6>1, <4>4
        <5>8. SubSeq(p, 1, m + 1) \in open_paths'
          BY <5>6, <5>7, <1>3
        <5> QED BY <5>1, <5>8 DEF Kept
      <4> QED BY <4>2, <4>3, <4>4
    <3> QED BY <3>1, <3>3, <3>4, <1>1, <1>2 DEF PathsInv, Kept
  <2> QED BY <2>1 DEF PathsInv
<1> QED BY <1>6, <1>7, <1>8, <1>9, <1>10 DEF AnalysisInv

\* A run changes nothing of the analysis.
LEMMA AnalysisStays ==
  ASSUME AnalysisInv, UNCHANGED <<branchVars, analysisVars>>
  PROVE  AnalysisInv'
<1> USE DEF branchVars, analysisVars
<1>1. AnalysisTyped'
  BY DEF AnalysisInv, AnalysisTyped
<1>2. BranchesInv'
  BY DEF AnalysisInv, BranchesInv, Followed, Begun, Straight, Current, Catches, IsCatch, LastOp
<1>3. OutsInv'
  BY DEF AnalysisInv, OutsInv, RawOuts, Current, Catches, IsCatch
<1>4. LoopInv'
  BY DEF AnalysisInv, LoopInv, LastStart, Open, InBranch, Straight, OutsOf, GoesBehind, LoopAt, LastOp
<1>5. PathsInv'
  BY DEF AnalysisInv, PathsInv, WholePath, Kept, Onwards
<1> QED BY <1>1, <1>2, <1>3, <1>4, <1>5 DEF AnalysisInv

\* What the run finds of the analysis.
AnalysisMeans ==
  /\ DOMAIN op_array = 0..LastOp /\ LastOp \in Nat /\ LastOp + 1 = LoopAt
  /\ active_code \subseteq DOMAIN op_array /\ starts \subseteq active_code /\ starts \subseteq Nat
  /\ 0 \in starts /\ entry_points \subseteq starts /\ 0 \in entry_points
  /\ highest_out \in Nat
  /\ \A i \in starts : /\ outs[i] \in Seq(Int) /\ Len(outs[i]) \in 0..highest_out
                       /\ ToSet(outs[i]) \subseteq (starts \ {0}) \cup {EXIT}
JumpsMean ==
  \A i \in active_code :
     IF EndsBranch(op_array, i)
     THEN ToSet(Jumps(op_array, i)) \subseteq (starts \ {0}) \cup {EXIT}
     ELSE i + 1 \in active_code

\* When prefill_from_oparray is done, branches have their outs.
LEMMA AnalysisGives ==
  ASSUME AnalysisInv, Analysed
  PROVE  AnalysisMeans
<1>1. AnalysisTyped /\ BranchesInv /\ OutsInv /\ stage = "paths" /\ calls_left = {}
  BY DEF AnalysisInv, Analysed, AnalysisTyped
<1>2. /\ OpCount(op_array) \in Nat \ {0} /\ LastOp = OpCount(op_array) - 1 /\ LastOp \in Nat
      /\ DOMAIN op_array = 0..LastOp /\ active_code \subseteq DOMAIN op_array
  BY <1>1, OpArrayBounds
<1>3. LastOp + 1 = LoopAt
  <2>1. LoopAt = OpCount(op_array)
    BY <1>1 DEF LoopAt
  <2> HIDE DEF OpCount, LastOp, LoopAt
  <2> QED BY ONLY <2>1, <1>2
<1>4. /\ starts \subseteq active_code /\ starts \subseteq Nat /\ highest_out \in Nat
      /\ 0 \in starts /\ entry_points \subseteq starts /\ 0 \in entry_points
  BY <1>1, <1>2 DEF AnalysisTyped, BranchesInv
<1>5. ASSUME NEW i \in starts
      PROVE  /\ outs[i] \in Seq(Int) /\ Len(outs[i]) \in 0..highest_out
             /\ ToSet(outs[i]) \subseteq (starts \ {0}) \cup {EXIT}
  <2>1. i \in DOMAIN op_array /\ DOMAIN op_array \cup {EXIT} \subseteq Int
    BY <1>2, <1>4 DEF EXIT
  <2>2. outs[i] \in Seq(DOMAIN op_array \cup {EXIT})
    BY <2>1, <1>1 DEF AnalysisTyped
  <2>3. outs[i] \in Seq(Int) /\ Len(outs[i]) \in Nat
    BY ONLY <2>1, <2>2
  <2>4. Len(outs[i]) <= highest_out /\ ToSet(outs[i]) \subseteq (starts \ {0}) \cup {EXIT}
    BY <2>1, <1>1 DEF OutsInv
  <2>5. Len(outs[i]) \in 0..highest_out
    BY ONLY <2>3, <2>4, <1>4
  <2> QED BY <2>3, <2>4, <2>5
<1> QED BY <1>2, <1>3, <1>4, <1>5 DEF AnalysisMeans

\* When prefill_from_oparray is done, live code goes on to live code.
LEMMA JumpsGiven ==
  ASSUME AnalysisInv, Analysed
  PROVE  JumpsMean
<1>1. AnalysisTyped /\ BranchesInv /\ stage = "paths" /\ calls_left = {}
  BY DEF AnalysisInv, Analysed, AnalysisTyped
<1>2. ASSUME NEW i \in active_code
      PROVE  IF EndsBranch(op_array, i)
             THEN ToSet(Jumps(op_array, i)) \subseteq (starts \ {0}) \cup {EXIT}
             ELSE i + 1 \in active_code
  <2>1. i \in DOMAIN op_array /\ i # NotSet
    BY <1>1, OpArrayBounds DEF NotSet
  <2>2. Followed(i)
    BY <2>1, <1>1 DEF BranchesInv, Current
  <2>3. Jumps(op_array, i) \in Seq((DOMAIN op_array \ {0}) \cup {EXIT})
    BY <2>1, <1>1, OpArrayFacts, Zenon
  <2>4. ToSet(Jumps(op_array, i)) \subseteq (DOMAIN op_array \ {0}) \cup {EXIT}
    BY <2>3 DEF ToSet
  <2> QED BY <2>2, <2>4, <1>1 DEF Followed
<1> QED BY <1>2 DEF JumpsMean

\* The engine goes where the analysis says, to a catch block, or leaves.
LEMMA SuccessorsGo ==
  ASSUME IsOpArray(op_array), pc \in DOMAIN op_array, NEW n \in Successors, n # EXIT
  PROVE  GoesTo(pc, n)
<1> DEFINE o == op_array[pc].op  to == op_array[pc].to
<1>1. pc \in Int /\ o \notin {"FAST_CALL", "FAST_RET"}
  BY IsOpArrayMeans
<1>2. CASE o \in {"JMP", "GOTO"}
  <2>1. Jumps(op_array, pc) = <<to>>
    BY <1>2 DEF Jumps
  <2>2. n = to
    BY <1>2 DEF Successors
  <2>3. <<to>> # <<>> /\ ToSet(<<to>>) = {to}
    BY DEF ToSet
  <2> QED BY <2>1, <2>2, <2>3 DEF GoesTo, EndsBranch
<1>3. CASE o \in {"JMPZ", "FE_RESET", "FE_FETCH", "JMP_FRAMELESS"}
  <2>1. Jumps(op_array, pc) = <<pc + 1, to>>
    BY <1>3 DEF Jumps
  <2>2. n \in {pc + 1, to}
    BY <1>3 DEF Successors
  <2>3. <<pc + 1, to>> # <<>> /\ ToSet(<<pc + 1, to>>) = {pc + 1, to}
    BY DEF ToSet
  <2> QED BY <2>1, <2>2, <2>3 DEF GoesTo, EndsBranch
<1>4. CASE o = "CATCH"
  <2>1. Jumps(op_array, pc) = IF to = pc + 1 THEN <<pc + 1>> ELSE <<pc + 1, to>>
    BY <1>4 DEF Jumps
  <2>2. n \in {pc + 1, to}
    BY <1>4 DEF Successors
  <2>3. /\ <<pc + 1, to>> # <<>> /\ ToSet(<<pc + 1, to>>) = {pc + 1, to}
        /\ <<pc + 1>> # <<>> /\ ToSet(<<pc + 1>>) = {pc + 1}
    BY DEF ToSet
  <2>4. CASE to = pc + 1
    BY <2>1, <2>2, <2>3, <2>4 DEF GoesTo, EndsBranch
  <2>5. CASE to # pc + 1
    BY <2>1, <2>2, <2>3, <2>5 DEF GoesTo, EndsBranch
  <2> QED BY <2>4, <2>5
<1>5. CASE o = "LAST_CATCH"
  <2>1. Jumps(op_array, pc) = <<pc + 1, EXIT>>
    BY <1>5 DEF Jumps
  <2>2. n \in {pc + 1, EXIT}
    BY <1>5 DEF Successors
  <2>3. <<pc + 1, EXIT>> # <<>> /\ ToSet(<<pc + 1, EXIT>>) = {pc + 1, EXIT}
    BY DEF ToSet
  <2> QED BY <2>1, <2>2, <2>3 DEF GoesTo, EndsBranch
<1>6. CASE o = "MATCH"
  <2> DEFINE e == OpCount(op_array) - 1
  <2>1. Jumps(op_array, pc) = <<to, e>>
    BY <1>6 DEF Jumps
  <2>2. n \in {to, e}
    BY <1>6 DEF Successors
  <2> HIDE DEF e
  <2>3. <<to, e>> # <<>> /\ ToSet(<<to, e>>) = {to, e}
    BY DEF ToSet
  <2> QED BY <2>1, <2>2, <2>3 DEF GoesTo, EndsBranch
<1>7. CASE o = "SWITCH"
  <2> DEFINE e == OpCount(op_array) - 1
  <2>1. Jumps(op_array, pc) = <<to, e, pc + 1>>
    BY <1>7 DEF Jumps
  <2>2. n = pc + 1
    BY <1>7 DEF Successors
  <2> HIDE DEF e
  <2>3. <<to, e, pc + 1>> # <<>> /\ ToSet(<<to, e, pc + 1>>) = {to, e, pc + 1}
    BY DEF ToSet
  <2> QED BY <2>1, <2>2, <2>3 DEF GoesTo, EndsBranch
<1>8. CASE o \in {"RETURN", "THROW", "CALL_EXIT", "RETURN_BY_REF"}
  BY <1>8 DEF Successors
<1>9. CASE o \notin {"JMP", "GOTO", "JMPZ", "FE_RESET", "FE_FETCH", "JMP_FRAMELESS", "CATCH", "LAST_CATCH",
                     "MATCH", "SWITCH", "RETURN", "THROW", "CALL_EXIT", "RETURN_BY_REF"}
  <2>1. Jumps(op_array, pc) = <<>>
    BY <1>1, <1>9 DEF Jumps
  <2>2. n = pc + 1
    BY <1>1, <1>9 DEF Successors
  <2>3. ~EndsBranch(op_array, pc)
    BY <2>1, <1>9 DEF EndsBranch
  <2> QED BY <2>2, <2>3 DEF GoesTo
<1> QED BY ONLY <1>2, <1>3, <1>4, <1>5, <1>6, <1>7, <1>8, <1>9

\* Nothing has run yet.
IdleRun ==
  /\ executed = <<>> /\ walked = <<>> /\ pc = 0 /\ last_branch_nr = NotSet /\ hit_branch = {}
  /\ visited_branches = {} /\ cov_path = <<>>

\* Nothing has run: xdebug_code_coverage_start_of_function.
LEMMA RunIsIdle == AnalysisTyped /\ IdleRun => RunInv
<1> SUFFICES ASSUME AnalysisTyped, IdleRun
             PROVE  RunInv
  OBVIOUS
<1>1. 0 \in DOMAIN op_array
  BY OpArrayBounds
<1>2. RunTyped
  BY <1>1 DEF RunTyped, IdleRun
<1>3. PlaceInv /\ HitsInv /\ EndInv
  BY DEF PlaceInv, HitsInv, EndInv, IdleRun
<1>4. WalkInv
  BY DEF WalkInv, IdleRun
<1> QED BY <1>2, <1>3, <1>4 DEF RunInv

\* A step of the run: what is true of the opcode that is executed.
Entered == pc # 0 /\ pc \in entry_points
Before == IF Entered THEN NotSet ELSE last_branch_nr
StepMeans ==
  /\ AnalysisMeans /\ JumpsMean
  /\ Watched' = Watched /\ Watched \subseteq starts /\ 0 \in Watched
  /\ op_array' = op_array /\ active_code' = active_code /\ starts' = starts /\ outs' = outs
  /\ entry_points' = entry_points /\ highest_out' = highest_out /\ paths' = paths
  /\ stage' = stage /\ open_paths' = open_paths
  /\ pc # EXIT /\ pc \in active_code /\ pc \in Nat
  /\ executed \in Seq(active_code) /\ executed' = Append(executed, pc)
  /\ pc' \in DOMAIN op_array \cup {EXIT} /\ pc' # 0 /\ (pc' # EXIT => pc' \in active_code)
  /\ pc' # EXIT /\ pc' \notin entry_points => GoesTo(pc, pc')
  /\ executed = <<>> => pc = 0 /\ last_branch_nr = NotSet
  /\ executed # <<>> => pc # 0 /\ last_branch_nr \in Watched
  /\ IF pc \in Watched
     THEN /\ MarkReached(Before)
          /\ cov_path' = IF <<pc, Before>> \in visited_branches
                         THEN IF Entered THEN <<>> ELSE cov_path
                         ELSE Append(IF Entered THEN <<>> ELSE cov_path, pc)
     ELSE UNCHANGED <<hit_branch, visited_branches, last_branch_nr, cov_path, walked>>
  /\ pc \notin Watched => executed # <<>>

\* An opcode is executed: the handlers of code coverage before it, and where the engine
\* goes after it.
LEMMA StepsMean ==
  ASSUME AnalysisInv, RunInv, ExecuteOpcode
  PROVE  StepMeans
<1>1. Analysed /\ pc # EXIT /\ RunTyped /\ PlaceInv /\ AnalysisTyped
  BY DEF ExecuteOpcode, RunInv, AnalysisInv
<1>2. AnalysisMeans /\ JumpsMean
  BY <1>1, AnalysisGives, JumpsGiven
<1>3. /\ op_array' = op_array /\ active_code' = active_code /\ starts' = starts /\ outs' = outs
      /\ entry_points' = entry_points /\ highest_out' = highest_out /\ paths' = paths
      /\ stage' = stage /\ open_paths' = open_paths /\ executed' = Append(executed, pc)
  BY DEF ExecuteOpcode, branchVars, analysisVars
<1>4. pc \in active_code /\ pc \in Nat /\ pc \in DOMAIN op_array
  BY <1>1, <1>2 DEF RunTyped, AnalysisMeans
<1>5. /\ executed \in Seq(active_code)
      /\ executed = <<>> => pc = 0 /\ last_branch_nr = NotSet
      /\ executed # <<>> => pc # 0 /\ last_branch_nr \in Watched
  BY <1>1 DEF RunTyped, PlaceInv
<1>11. Watched' = Watched /\ Watched \subseteq starts /\ 0 \in Watched
  <2>1. op_array[0].op # "SWITCH"
    BY <1>1, OpArrayFacts, IsOpArrayMeans, Zenon
  <2> QED BY <2>1, <1>2, <1>3 DEF Watched, AnalysisMeans
<1>6. pc' \in Successors \cup (IF MayThrow THEN Handlers \cup {EXIT} ELSE {})
  BY DEF ExecuteOpcode
<1>7. ASSUME pc' # EXIT
      PROVE  pc' # 0 /\ pc' \in active_code /\ (pc' \notin entry_points => GoesTo(pc, pc'))
  <2>1. CASE pc' \in Successors
    <3>1. IsOpArray(op_array)
      BY <1>1, OpArrayFacts
    <3>2. GoesTo(pc, pc')
      BY <3>1, <2>1, <1>4, <1>7, SuccessorsGo
    <3>3. CASE EndsBranch(op_array, pc)
      <4>1. pc' \in ToSet(Jumps(op_array, pc))
        BY <3>2, <3>3 DEF GoesTo
      <4>2. ToSet(Jumps(op_array, pc)) \subseteq (starts \ {0}) \cup {EXIT}
        BY <3>3, <1>2, <1>4 DEF JumpsMean
      <4> QED BY <4>1, <4>2, <3>2, <1>2, <1>7 DEF AnalysisMeans
    <3>4. CASE ~EndsBranch(op_array, pc)
      <4>1. pc' = pc + 1
        BY <3>2, <3>4 DEF GoesTo
      <4>2. pc + 1 \in active_code
        BY <3>4, <1>2, <1>4 DEF JumpsMean
      <4> QED BY <4>1, <4>2, <3>2, <1>4
    <3> QED BY <3>3, <3>4
  <2>2. CASE pc' \in Handlers
    <3>1. pc' > pc + 1 /\ pc' \in entry_points
      BY <2>2 DEF Handlers
    <3>2. pc' \in starts /\ pc' \in Nat
      BY <3>1, <1>2 DEF AnalysisMeans
    <3> QED BY <3>1, <3>2, <1>2, <1>4 DEF AnalysisMeans
  <2> QED BY <2>1, <2>2, <1>6, <1>7
<1>8. pc' \in DOMAIN op_array \cup {EXIT} /\ pc' # 0
  BY <1>2, <1>7 DEF AnalysisMeans, EXIT
<1>9. IF pc \in Watched
      THEN /\ MarkReached(Before)
           /\ cov_path' = IF <<pc, Before>> \in visited_branches
                          THEN IF Entered THEN <<>> ELSE cov_path
                          ELSE Append(IF Entered THEN <<>> ELSE cov_path, pc)
      ELSE UNCHANGED <<hit_branch, visited_branches, last_branch_nr, cov_path, walked>>
  BY Zenon DEF ExecuteOpcode, OpcodeHandler, Entered, Before
<1>10. pc \notin Watched => executed # <<>>
  BY <1>5, <1>11
<1> QED BY <1>1, <1>2, <1>3, <1>4, <1>5, <1>7, <1>8, <1>9, <1>10, <1>11, Zenon DEF StepMeans

\* The opcodes executed are live ones, and a run begins with the first.
LEMMA StepKeepsTypes ==
  ASSUME Analysed, RunTyped, StepMeans
  PROVE  RunTyped' /\ Analysed'
<1>1. Analysed'
  BY DEF Analysed, StepMeans
<1>2. executed' \in Seq(active_code) /\ executed' # <<>>
  <2>1. executed \in Seq(active_code) /\ pc \in active_code /\ executed' = Append(executed, pc)
    BY DEF StepMeans
  <2> QED BY ONLY <2>1
<1>3. /\ walked' \in Seq((starts \cup {NotSet}) \X starts) /\ walked' # <<>>
      /\ last_branch_nr' \in starts \cup {NotSet} /\ cov_path' \in Seq(Int)
  <2>1. /\ walked \in Seq((starts \cup {NotSet}) \X starts)
        /\ last_branch_nr \in starts \cup {NotSet} /\ cov_path \in Seq(Int)
        /\ executed # <<>> => walked # <<>>
    BY DEF RunTyped
  <2>2. CASE pc \in Watched
    <3>1. walked' = Append(walked, <<Before, pc>>) /\ last_branch_nr' = pc
      BY <2>2 DEF StepMeans, MarkReached
    <3>7. pc \in starts
      BY <2>2 DEF StepMeans
    <3>2. <<Before, pc>> \in (starts \cup {NotSet}) \X starts
      BY <2>1, <3>7 DEF Before
    <3>3. walked' \in Seq((starts \cup {NotSet}) \X starts) /\ walked' # <<>>
      <4> DEFINE X == (starts \cup {NotSet}) \X starts  w == <<Before, pc>>
      <4>1. walked \in Seq(X) /\ w \in X /\ walked' = Append(walked, w)
        BY <2>1, <3>1, <3>2
      <4> HIDE DEF X, w
      <4>2. walked' \in Seq(X) /\ walked' # <<>>
        BY ONLY <4>1
      <4> QED BY <4>2 DEF X
    <3>4. pc \in Int
      BY DEF StepMeans
    <3>5. cov_path' \in {<<>>, cov_path, Append(<<>>, pc), Append(cov_path, pc)}
      BY <2>2 DEF StepMeans
    <3>6. cov_path' \in Seq(Int)
      <4>1. Append(<<>>, pc) \in Seq(Int) /\ <<>> \in Seq(Int)
        BY ONLY <3>4
      <4>2. Append(cov_path, pc) \in Seq(Int)
        BY ONLY <2>1, <3>4
      <4> QED BY ONLY <2>1, <3>5, <4>1, <4>2
    <3> QED BY <3>1, <3>3, <3>6, <3>7
  <2>3. CASE pc \notin Watched
    <3>1. walked' = walked /\ last_branch_nr' = last_branch_nr /\ cov_path' = cov_path /\ executed # <<>>
      BY <2>3 DEF StepMeans
    <3> QED BY <3>1, <2>1
  <2> QED BY <2>2, <2>3
<1>4. /\ pc' \in DOMAIN op_array \cup {EXIT} /\ pc' # 0 /\ (pc' # EXIT => pc' \in active_code)
      /\ op_array' = op_array /\ active_code' = active_code /\ starts' = starts
  BY DEF StepMeans
<1> QED BY <1>1, <1>2, <1>3, <1>4 DEF RunTyped

\* An opcode that begins no branch comes after the one before it.
LEMMA NextInBranch ==
  ASSUME AnalysisMeans, JumpsMean, RunTyped, PlaceInv, executed # <<>>, pc # EXIT, pc \notin starts
  PROVE  pc = Last(executed) + 1 /\ ~EndsBranch(op_array, Last(executed)) /\ Last(executed) \in active_code
<1>1. Last(executed) \in active_code
  BY DEF RunTyped, Last
<1>2. GoesTo(Last(executed), pc)
  BY DEF PlaceInv, AnalysisMeans
<1>3. CASE EndsBranch(op_array, Last(executed))
  <2>1. pc \in ToSet(Jumps(op_array, Last(executed)))
    BY <1>2, <1>3 DEF GoesTo
  <2>2. ToSet(Jumps(op_array, Last(executed))) \subseteq (starts \ {0}) \cup {EXIT}
    BY <1>1, <1>3 DEF JumpsMean
  <2> QED BY <2>1, <2>2
<1>4. CASE ~EndsBranch(op_array, Last(executed))
  BY <1>1, <1>2, <1>4 DEF GoesTo
<1> QED BY <1>3, <1>4

\* What has been executed after one more opcode.
LEMMA ExecutedOn ==
  ASSUME StepMeans
  PROVE  ToSet(executed') = ToSet(executed) \cup {pc}
<1>0. executed \in Seq(active_code) /\ executed' = Append(executed, pc)
  BY DEF StepMeans
<1>1. /\ DOMAIN executed = 1..Len(executed) /\ Len(executed) \in Nat
      /\ DOMAIN executed' = 1..(Len(executed) + 1)
      /\ executed'[Len(executed) + 1] = pc /\ \A k \in 1..Len(executed) : executed'[k] = executed[k]
  BY <1>0
<1> QED BY <1>1 DEF ToSet

\* What was noticed so far, and is now.
LEMMA NoticedOn ==
  ASSUME StepMeans, AllNoticed'
  PROVE  AllNoticed /\ (pc \in starts => pc \in Watched)
<1>1. starts' = starts /\ Watched' = Watched
  BY DEF StepMeans
<1>2. ToSet(executed') = ToSet(executed) \cup {pc}
  BY ExecutedOn
<1> QED BY <1>1, <1>2 DEF AllNoticed

\* last_branch_nr is the branch the engine is in, as long as no branch began that is
\* not noticed.
LEMMA StepKeepsPlace ==
  ASSUME RunTyped, PlaceInv, StepMeans
  PROVE  PlaceInv'
<1>0. /\ executed \in Seq(active_code) /\ executed' = Append(executed, pc) /\ starts' = starts
      /\ op_array' = op_array /\ entry_points' = entry_points /\ pc \in Nat /\ pc # EXIT
      /\ active_code \subseteq Nat /\ starts \subseteq Nat
      /\ Watched' = Watched /\ Watched \subseteq starts
      /\ pc' # EXIT /\ pc' \notin entry_points => GoesTo(pc, pc')
  BY DEF StepMeans, AnalysisMeans
<1>1. /\ Len(executed') = Len(executed) + 1 /\ Len(executed) \in Nat
      /\ executed'[Len(executed) + 1] = pc /\ Last(executed') = pc
      /\ \A k \in 1..Len(executed) : executed'[k] = executed[k]
  BY <1>0 DEF Last
<1>2. (pc # EXIT /\ pc \notin entry_points => GoesTo(Last(executed), pc))'
  BY <1>0, <1>1 DEF GoesTo
<1>3. /\ last_branch_nr' \in Watched
      /\ AllNoticed' => InBranch(last_branch_nr, Last(executed))'
      /\ \E k \in 1..Len(executed') : Since(last_branch_nr, k)'
  <2>1. CASE pc \in Watched
    <3>1. last_branch_nr' = pc
      BY <2>1 DEF StepMeans, MarkReached
    <3>2. InBranch(last_branch_nr, Last(executed))'
      BY <3>1, <1>0, <1>1 DEF InBranch, Straight
    <3>3. Len(executed') \in 1..Len(executed') /\ Since(last_branch_nr, Len(executed))'
      BY <3>1, <1>0, <1>1 DEF Since
    <3> QED BY <2>1, <3>1, <3>2, <3>3
  <2>2. CASE pc \notin Watched
    <3>1. last_branch_nr' = last_branch_nr /\ executed # <<>>
      BY <2>2 DEF StepMeans
    <3>2. /\ last_branch_nr \in Watched /\ (AllNoticed => InBranch(last_branch_nr, Last(executed)))
          /\ \E k \in 1..Len(executed) : Since(last_branch_nr, k)
      BY <3>1 DEF PlaceInv
    <3>3. ASSUME AllNoticed'
          PROVE  InBranch(last_branch_nr, Last(executed))'
      <4>1. pc \notin starts /\ InBranch(last_branch_nr, Last(executed))
        BY <2>2, <3>2, <3>3, NoticedOn
      <4>2. pc = Last(executed) + 1 /\ ~EndsBranch(op_array, Last(executed)) /\ Last(executed) \in active_code
        BY <4>1, <3>1, <1>0, NextInBranch DEF StepMeans
      <4>3. last_branch_nr \in Nat /\ Last(executed) \in Nat
        BY <3>2, <4>2, <1>0
      <4>4. last_branch_nr <= pc
        BY <4>1, <4>2, <4>3 DEF InBranch
      <4>5. Straight(last_branch_nr, pc)
        <5> SUFFICES ASSUME NEW k \in last_branch_nr..(pc - 1)
                     PROVE  ~EndsBranch(op_array, k)
          BY DEF Straight
        <5>1. k = Last(executed) \/ k \in last_branch_nr..(Last(executed) - 1)
          BY <4>2, <4>3
        <5> QED BY <5>1, <4>1, <4>2 DEF InBranch, Straight
      <4>6. ASSUME NEW k \in (last_branch_nr + 1)..pc
            PROVE  k \notin starts
        <5>1. k = pc \/ k \in (last_branch_nr + 1)..Last(executed)
          BY <4>2, <4>3
        <5> QED BY <5>1, <4>1 DEF InBranch
      <4>7. InBranch(last_branch_nr, pc)
        BY <4>4, <4>5, <4>6 DEF InBranch
      <4> QED BY <4>7, <3>1, <1>0, <1>1 DEF InBranch, Straight
    <3>7. PICK k \in 1..Len(executed) : Since(last_branch_nr, k)
      BY <3>2
    <3>8. k \in 1..Len(executed') /\ Since(last_branch_nr, k)'
      <4>1. k \in 1..Len(executed') /\ executed'[k] = last_branch_nr
        BY <3>7, <1>1 DEF Since
      <4>2. ASSUME NEW m \in (k + 1)..Len(executed')
            PROVE  executed'[m] \notin Watched
        <5>1. CASE m = Len(executed) + 1
          BY <5>1, <2>2, <1>1
        <5>2. CASE m # Len(executed) + 1
          <6>1. m \in (k + 1)..Len(executed) /\ m \in 1..Len(executed)
            BY <5>2, <1>1
          <6> QED BY <6>1, <3>7, <1>1 DEF Since
        <5> QED BY <5>1, <5>2
      <4> QED BY <4>1, <4>2, <3>1, <1>0 DEF Since
    <3> QED BY <3>1, <3>2, <3>3, <3>8
  <2> QED BY <2>1, <2>2
<1> QED BY <1>0, <1>2, <1>3 DEF PlaceInv

\* The bits of two branches in add_branches' hits differ, as do those of two outs.
LEMMA BranchBitsDiffer ==
  ASSUME NEW h \in Nat, NEW i \in Nat, NEW j \in Nat, NEW k \in 0..h, NEW m \in 0..h,
         i * (1 + h) + k = j * (1 + h) + m
  PROVE  i = j /\ k = m
<1>1. ASSUME NEW x \in Nat, NEW y \in Nat, x < y
      PROVE  y * (1 + h) >= x * (1 + h) + (1 + h)
  <2>1. y - (x + 1) \in Nat
    BY <1>1
  <2>2. (y - (x + 1)) * (1 + h) >= 0
    BY <2>1
  <2>3. (y - (x + 1)) * (1 + h) = y * (1 + h) - (x * (1 + h) + (1 + h))
    OBVIOUS
  <2>4. x * (1 + h) \in Int /\ y * (1 + h) \in Int
    OBVIOUS
  <2> QED BY ONLY <2>2, <2>3, <2>4, h \in Nat
<1>2. i * (1 + h) \in Int /\ j * (1 + h) \in Int
  OBVIOUS
<1>3. ~(i < j)
  BY <1>1, <1>2
<1>4. ~(j < i)
  BY <1>1, <1>2
<1>5. i = j
  BY <1>3, <1>4
<1> QED BY ONLY <1>2, <1>5, i * (1 + h) + k = j * (1 + h) + m, k \in 0..h, m \in 0..h, h \in Nat

\* A step is new when it is the one from the branch begun last to the one that begins.
LEMMA SteppedOn ==
  ASSUME RunTyped, PlaceInv, StepMeans, NEW i \in Watched, NEW j
  PROVE  Stepped(i, j)' <=> Stepped(i, j) \/ (executed # <<>> /\ i = last_branch_nr /\ j = pc)
<1>0. /\ executed \in Seq(active_code) /\ executed' = Append(executed, pc) /\ Watched' = Watched
  BY DEF StepMeans
<1>1. /\ Len(executed') = Len(executed) + 1 /\ Len(executed) \in Nat
      /\ DOMAIN executed = 1..Len(executed) /\ DOMAIN executed' = 1..(Len(executed) + 1)
      /\ executed'[Len(executed) + 1] = pc
      /\ \A k \in 1..Len(executed) : executed'[k] = executed[k]
  BY <1>0
<1>2. ASSUME Stepped(i, j)
      PROVE  Stepped(i, j)'
  <2>1. PICK k, m \in DOMAIN executed :
          /\ k < m /\ executed[k] = i /\ executed[m] = j
          /\ \A between \in (k + 1)..(m - 1) : executed[between] \notin Watched
    BY <1>2 DEF Stepped
  <2>2. /\ k \in DOMAIN executed' /\ m \in DOMAIN executed' /\ executed'[k] = i /\ executed'[m] = j
        /\ \A between \in (k + 1)..(m - 1) : executed'[between] \notin Watched
    BY <2>1, <1>1
  <2> QED BY <2>1, <2>2, <1>0 DEF Stepped
<1>3. ASSUME executed # <<>>, i = last_branch_nr, j = pc
      PROVE  Stepped(i, j)'
  <2>1. PICK k \in 1..Len(executed) : Since(last_branch_nr, k)
    BY <1>3 DEF PlaceInv
  <2>2. /\ k \in DOMAIN executed' /\ Len(executed) + 1 \in DOMAIN executed' /\ k < Len(executed) + 1
        /\ executed'[k] = i /\ executed'[Len(executed) + 1] = j
        /\ \A between \in (k + 1)..((Len(executed) + 1) - 1) : executed'[between] \notin Watched
    BY <2>1, <1>1, <1>3 DEF Since
  <2> QED BY <2>2, <1>0 DEF Stepped
<1>4. ASSUME Stepped(i, j)'
      PROVE  Stepped(i, j) \/ (executed # <<>> /\ i = last_branch_nr /\ j = pc)
  <2>1. PICK k, m \in DOMAIN executed' :
          /\ k < m /\ executed'[k] = i /\ executed'[m] = j
          /\ \A between \in (k + 1)..(m - 1) : executed'[between] \notin Watched
    BY <1>4, <1>0 DEF Stepped
  <2>2. CASE m = Len(executed) + 1
    <3>1. executed # <<>> /\ j = pc /\ k \in 1..Len(executed)
      BY <2>1, <2>2, <1>0, <1>1
    <3>2. PICK n \in 1..Len(executed) : Since(last_branch_nr, n)
      BY <3>1 DEF PlaceInv
    <3>3. last_branch_nr \in Watched
      BY <3>1 DEF PlaceInv
    <3>4. ~(k < n)
      <4>1. k < n => n \in (k + 1)..(m - 1) /\ executed'[n] = last_branch_nr
        BY <3>1, <3>2, <2>2, <1>1 DEF Since
      <4> QED BY <4>1, <3>3, <2>1
    <3>5. ~(n < k)
      <4>1. n < k => k \in (n + 1)..Len(executed) /\ executed[k] = i
        BY <3>1, <3>2, <2>1, <1>1
      <4> QED BY <4>1, <3>2 DEF Since
    <3>6. k = n
      BY <3>1, <3>2, <3>4, <3>5
    <3> QED BY <3>1, <3>2, <3>6, <2>1, <1>1 DEF Since
  <2>3. CASE m # Len(executed) + 1
    <3>1. k \in 1..Len(executed) /\ m \in 1..Len(executed)
      BY <2>1, <2>3, <1>1
    <3>2. \A between \in (k + 1)..(m - 1) : executed[between] \notin Watched
      BY <3>1, <2>1, <1>1
    <3> QED BY <3>1, <3>2, <2>1, <1>1 DEF Stepped
  <2> QED BY <2>2, <2>3
<1> QED BY <1>2, <1>3, <1>4

\* What is hit when nothing has run yet, too.
HitsAre ==
  \A i \in starts :
      /\ Bit(i) \in hit_branch <=> i \in ToSet(executed) \cap Watched
      /\ \A k \in 1..Len(outs[i]) : \A j : j = outs[i][k] /\ j \notin entry_points =>
           (Bit(i) + k \in hit_branch <=> {i, j} \subseteq Watched /\ Stepped(i, j))

\* What is hit when something has run holds when nothing has, too.
LEMMA HitsGiven ==
  ASSUME RunTyped, HitsInv
  PROVE  HitsAre
<1>1. CASE executed = <<>>
  <2>1. hit_branch = {} /\ ToSet(executed) = {} /\ \A i, j : ~Stepped(i, j)
    BY <1>1 DEF RunTyped, ToSet, Stepped
  <2> QED BY <2>1 DEF HitsAre
<1>2. CASE executed # <<>>
  <2>1. ASSUME NEW i \in starts
        PROVE  /\ Bit(i) \in hit_branch <=> i \in ToSet(executed) \cap Watched
               /\ \A k \in 1..Len(outs[i]) : \A j : j = outs[i][k] /\ j \notin entry_points =>
                    (Bit(i) + k \in hit_branch <=> {i, j} \subseteq Watched /\ Stepped(i, j))
    BY <1>2, Zenon DEF HitsInv
  <2> QED BY <2>1 DEF HitsAre
<1> QED BY <1>1, <1>2

\* The bits that are new.
LEMMA NewBits ==
  ASSUME StepMeans, pc \in Watched, NEW i \in starts
  PROVE  /\ Bit(i)' = Bit(i)
         /\ Bit(i) \in hit_branch' <=> Bit(i) \in hit_branch \/ i = pc
         /\ \A k \in 1..Len(outs[i]) :
              Bit(i) + k \in hit_branch' <=>
                Bit(i) + k \in hit_branch \/ (Before # NotSet /\ i = Before /\ outs[i][k] = pc)
<1>1. /\ highest_out \in Nat /\ starts \subseteq Nat /\ highest_out' = highest_out
      /\ \A s \in starts : Len(outs[s]) \in 0..highest_out
      /\ pc \in starts /\ (Before # NotSet => Before \in starts)
  BY DEF StepMeans, AnalysisMeans, Before, Entered
<1> DEFINE taken == IF Before = NotSet THEN {}
                    ELSE {Bit(Before) + k : k \in {j \in 1..Len(outs[Before]) : outs[Before][j] = pc}}
<1>2. hit_branch' = hit_branch \cup {Bit(pc)} \cup taken
  BY DEF StepMeans, MarkReached
<1>3. ASSUME NEW s \in starts, NEW t \in starts, NEW k \in 0..highest_out, NEW m \in 0..highest_out,
             Bit(s) + k = Bit(t) + m
      PROVE  s = t /\ k = m
  <2>1. s * (1 + highest_out) + k = t * (1 + highest_out) + m
    BY <1>3 DEF Bit
  <2>2. s \in Nat /\ t \in Nat /\ highest_out \in Nat
    BY <1>1
  <2> QED BY <2>1, <2>2, BranchBitsDiffer
<1>4. \A s \in starts : Bit(s) \in Int /\ Bit(s) + 0 = Bit(s)
  BY <1>1 DEF Bit
<1>5. 0 \in 0..highest_out
  BY <1>1
<1>6. Bit(i) \in hit_branch' <=> Bit(i) \in hit_branch \/ i = pc
  <2>1. Bit(i) = Bit(pc) => i = pc
    BY <1>1, <1>3, <1>4, <1>5
  <2>2. Bit(i) \notin taken
    <3> SUFFICES ASSUME Before # NotSet, NEW k \in 1..Len(outs[Before]), Bit(i) = Bit(Before) + k
                 PROVE  FALSE
      OBVIOUS
    <3>0. Before \in starts /\ Len(outs[Before]) \in 0..highest_out /\ highest_out \in Nat
      BY <1>1
    <3>1. Before \in starts /\ k \in 0..highest_out /\ k # 0
      BY ONLY <3>0, k \in 1..Len(outs[Before])
    <3>2. Bit(i) + 0 = Bit(Before) + k
      BY <1>4
    <3> HIDE DEF Bit
    <3> QED BY <3>1, <3>2, <1>3, <1>5
  <2> QED BY <2>1, <2>2, <1>2
<1>7. ASSUME NEW k \in 1..Len(outs[i])
      PROVE  Bit(i) + k \in hit_branch' <=>
                Bit(i) + k \in hit_branch \/ (Before # NotSet /\ i = Before /\ outs[i][k] = pc)
  <2>1. k \in 0..highest_out /\ k # 0
    BY <1>1
  <2>2. Bit(i) + k # Bit(pc)
    <3>1. Bit(i) + k = Bit(pc) + 0 => k = 0
      BY <2>1, <1>1, <1>3, <1>5
    <3> QED BY <3>1, <2>1, <1>1, <1>4
  <2>3. ASSUME Bit(i) + k \in taken
        PROVE  Before # NotSet /\ i = Before /\ outs[i][k] = pc
    <3>1. Before # NotSet
      BY <2>3
    <3>2. PICK j \in 1..Len(outs[Before]) : outs[Before][j] = pc /\ Bit(i) + k = Bit(Before) + j
      BY <2>3
    <3>0. Before \in starts /\ Len(outs[Before]) \in 0..highest_out /\ highest_out \in Nat
      BY <3>1, <1>1
    <3>3. Before \in starts /\ j \in 0..highest_out
      BY ONLY <3>0, j \in 1..Len(outs[Before])
    <3>4. i = Before /\ k = j
      BY <3>2, <3>3, <2>1, <1>3
    <3> QED BY <3>1, <3>2, <3>4
  <2>4. ASSUME Before # NotSet, i = Before, outs[i][k] = pc
        PROVE  Bit(i) + k \in taken
    BY <2>4
  <2> QED BY <2>2, <2>3, <2>4, <1>2
<1>8. Bit(i)' = Bit(i)
  BY <1>1 DEF Bit
<1> QED BY <1>6, <1>7, <1>8

\* xdebug_branch_info_mark_reached sets the bits of what has been reached, and no
\* other.
LEMMA StepKeepsHits ==
  ASSUME RunTyped, PlaceInv, HitsInv, StepMeans
  PROVE  HitsInv'
<1>0. /\ executed \in Seq(active_code) /\ pc \in active_code /\ executed' = Append(executed, pc)
      /\ starts' = starts /\ Watched' = Watched /\ Watched \subseteq starts
      /\ outs' = outs /\ entry_points' = entry_points /\ entry_points \subseteq starts /\ highest_out' = highest_out
  BY DEF StepMeans, AnalysisMeans
<1>1. HitsAre
  BY HitsGiven
<1>2. ToSet(executed') = ToSet(executed) \cup {pc}
  BY ExecutedOn
<1>3. ASSUME NEW i \in starts
      PROVE  /\ Bit(i)' \in hit_branch' <=> i \in ToSet(executed') \cap Watched
             /\ \A k \in 1..Len(outs[i]) : \A j : j = outs[i][k] /\ j \notin entry_points =>
                  (Bit(i)' + k \in hit_branch' <=> {i, j} \subseteq Watched /\ Stepped(i, j)')
  <2>0. /\ Bit(i) \in hit_branch <=> i \in ToSet(executed) \cap Watched
        /\ \A k \in 1..Len(outs[i]) : \A j : j = outs[i][k] /\ j \notin entry_points =>
             (Bit(i) + k \in hit_branch <=> {i, j} \subseteq Watched /\ Stepped(i, j))
    BY <1>1 DEF HitsAre
  <2>1. CASE pc \in Watched
    <3>1. /\ Bit(i)' = Bit(i)
          /\ Bit(i) \in hit_branch' <=> Bit(i) \in hit_branch \/ i = pc
          /\ \A k \in 1..Len(outs[i]) :
               Bit(i) + k \in hit_branch' <=>
                 Bit(i) + k \in hit_branch \/ (Before # NotSet /\ i = Before /\ outs[i][k] = pc)
      BY <2>1, NewBits
    <3>2. ASSUME NEW k \in 1..Len(outs[i]), NEW j, j = outs[i][k], j \notin entry_points
          PROVE  Bit(i) + k \in hit_branch' <=> {i, j} \subseteq Watched /\ Stepped(i, j)'
      <4>1. i \in Watched =>
              (Stepped(i, j)' <=> Stepped(i, j) \/ (executed # <<>> /\ i = last_branch_nr /\ j = pc))
        BY SteppedOn
      <4>2. j = pc => Before = last_branch_nr
        BY <3>2 DEF Before, Entered
      <4>3. /\ executed # <<>> <=> last_branch_nr # NotSet
            /\ executed # <<>> => last_branch_nr \in Watched
        <5>1. /\ executed = <<>> => last_branch_nr = NotSet
              /\ executed # <<>> => last_branch_nr \in Watched
          BY Zenon DEF StepMeans
        <5>2. Watched \subseteq Nat
          BY Zenon DEF StepMeans, AnalysisMeans
        <5> QED BY ONLY <5>1, <5>2 DEF NotSet
      <4>4. Bit(i) + k \in hit_branch <=> {i, j} \subseteq Watched /\ Stepped(i, j)
        BY <3>2, <2>0
      <4>5. Bit(i) + k \in hit_branch' <=>
              Bit(i) + k \in hit_branch \/ (Before # NotSet /\ i = Before /\ j = pc)
        BY <3>1, <3>2
      <4>6. {i, j} \subseteq Watched <=> i \in Watched /\ j \in Watched
        OBVIOUS
      <4> QED BY ONLY <4>1, <4>2, <4>3, <4>4, <4>5, <4>6, <2>1
    <3> QED BY <3>1, <3>2, <2>0, <2>1, <1>2
  <2>2. CASE pc \notin Watched
    <3>1. hit_branch' = hit_branch
      BY <2>2 DEF StepMeans
    <3>2. Bit(i)' = Bit(i)
      BY <1>0 DEF Bit
    <3>3. ASSUME NEW j
          PROVE  {i, j} \subseteq Watched /\ Stepped(i, j)' <=> {i, j} \subseteq Watched /\ Stepped(i, j)
      <4>1. i \in Watched =>
              (Stepped(i, j)' <=> Stepped(i, j) \/ (executed # <<>> /\ i = last_branch_nr /\ j = pc))
        BY SteppedOn
      <4>2. {i, j} \subseteq Watched <=> i \in Watched /\ j \in Watched
        OBVIOUS
      <4> QED BY ONLY <4>1, <4>2, <2>2
    <3> QED BY <3>1, <3>2, <3>3, <2>0, <2>2, <1>2
  <2> QED BY <2>1, <2>2
<1>4. ASSUME NEW i \in starts'
      PROVE  (/\ Bit(i) \in hit_branch <=> i \in ToSet(executed) \cap Watched
              /\ \A k \in 1..Len(outs[i]) : \A j : j = outs[i][k] /\ j \notin entry_points =>
                  (Bit(i) + k \in hit_branch <=> {i, j} \subseteq Watched /\ Stepped(i, j)))'
  BY <1>0, <1>3
<1> QED BY <1>4 DEF HitsInv

\* The step to a branch that is begun, and not entered as a catch block.
LEMMA StepIsOut ==
  ASSUME AnalysisInv, Analysed, RunTyped, PlaceInv, StepMeans, executed # <<>>,
         pc \in starts, pc \notin entry_points, LastOp \in active_code, AllNoticed
  PROVE  pc \in ToSet(outs[last_branch_nr])
<1> DEFINE c == Last(executed)
<1>1. AnalysisMeans /\ stage = "paths" /\ pc # EXIT /\ LoopInv
  BY DEF StepMeans, Analysed, AnalysisInv
<1>2. last_branch_nr \in starts /\ InBranch(last_branch_nr, c) /\ GoesTo(c, pc)
  BY <1>1 DEF PlaceInv, StepMeans
<1>3. c \in active_code
  BY DEF RunTyped, Last
<1>4. c \in DOMAIN op_array /\ c < LoopAt /\ c \in Nat /\ LastOp \in Nat /\ LastOp + 1 = LoopAt
      /\ pc \in 0..LastOp
  <2>1. DOMAIN op_array = 0..LastOp /\ LastOp \in Nat /\ LastOp + 1 = LoopAt /\ c \in 0..LastOp
        /\ pc \in 0..LastOp
    BY <1>1, <1>3 DEF AnalysisMeans
  <2> HIDE DEF LastOp, LoopAt, c
  <2> QED BY ONLY <2>1
<1>5. (c < LoopAt => OutsOf(last_branch_nr, c)) /\ (c + 1 < LoopAt => GoesBehind(last_branch_nr, c))
  BY <1>1, <1>2, <1>4 DEF LoopInv
<1>6. CASE EndsBranch(op_array, c)
  <2>1. outs[last_branch_nr] = Jumps(op_array, c) /\ pc \in ToSet(Jumps(op_array, c))
    BY <1>2, <1>4, <1>5, <1>6 DEF OutsOf, GoesTo
  <2> QED BY <2>1
<1>7. CASE ~EndsBranch(op_array, c)
  <2>1. pc = c + 1
    BY <1>2, <1>7 DEF GoesTo
  <2>2. c + 1 < LoopAt
    <3> HIDE DEF LastOp, LoopAt, c
    <3> QED BY ONLY <2>1, <1>4
  <2>3. outs[last_branch_nr] = <<pc>>
    BY <2>1, <2>2, <1>5, <1>7 DEF GoesBehind
  <2>4. ToSet(<<pc>>) = {pc}
    BY DEF ToSet
  <2> QED BY <2>3, <2>4
<1> QED BY <1>6, <1>7

\* A branch is walked to from the one before it, along one of its outs, or is entered
\* as a catch block; visited_branches has what was walked.
LEMMA StepKeepsWalk ==
  ASSUME AnalysisInv, Analysed, RunTyped, PlaceInv, WalkInv, StepMeans
  PROVE  WalkInv'
<1> DEFINE X == (starts \cup {NotSet}) \X starts  w == <<Before, pc>>
<1>1. /\ walked \in Seq(X) /\ starts' = starts /\ entry_points' = entry_points /\ outs' = outs
      /\ active_code' = active_code /\ LastOp' = LastOp /\ AnalysisMeans
      /\ pc \in Watched => pc \in starts
      /\ AllNoticed' => AllNoticed
      /\ executed = <<>> => walked = <<>>
      /\ executed # <<>> => walked # <<>>
  BY NoticedOn DEF RunTyped, StepMeans, LastOp
<1>2. CASE pc \notin Watched
  <2>1. walked' = walked /\ visited_branches' = visited_branches /\ last_branch_nr' = last_branch_nr
    BY <1>2 DEF StepMeans
  <2> QED BY <2>1, <1>1 DEF WalkInv
<1>3. CASE pc \in Watched
  <2>1. /\ walked' = Append(walked, w) /\ visited_branches' = visited_branches \cup {<<pc, Before>>}
        /\ last_branch_nr' = pc
    BY <1>3 DEF StepMeans, MarkReached
  <2>2. w \in X /\ w[1] = Before /\ w[2] = pc
    BY <1>1, <1>3 DEF Before, RunTyped
  <2>3. /\ Len(walked') = Len(walked) + 1 /\ Len(walked) \in Nat /\ walked'[Len(walked) + 1] = w
        /\ \A k \in 1..Len(walked) : walked'[k] = walked[k]
    <3> HIDE DEF X, w
    <3> QED BY ONLY <1>1, <2>1, <2>2
  <2>4. ASSUME NEW x, NEW y
        PROVE  <<x, y>> \in visited_branches' <=> \E k \in 1..Len(walked') : walked'[k] = <<y, x>>
    <3>1. <<x, y>> \in visited_branches <=> \E k \in 1..Len(walked) : walked[k] = <<y, x>>
      BY DEF WalkInv
    <3>2. <<x, y>> = <<pc, Before>> <=> w = <<y, x>>
      OBVIOUS
    <3>3. (\E k \in 1..Len(walked') : walked'[k] = <<y, x>>)
            <=> w = <<y, x>> \/ \E k \in 1..Len(walked) : walked[k] = <<y, x>>
      <4> HIDE DEF w
      <4>1. ASSUME NEW k \in 1..Len(walked')
            PROVE  k \in 1..Len(walked) \/ k = Len(walked) + 1
        BY <2>3
      <4>2. Len(walked) + 1 \in 1..Len(walked') /\ \A k \in 1..Len(walked) : k \in 1..Len(walked')
        BY <2>3
      <4> QED BY <4>1, <4>2, <2>3
    <3> QED BY <3>1, <3>2, <3>3, <2>1
  <2>5. ASSUME NEW k \in 1..Len(walked')
        PROVE  IF walked'[k][1] = NotSet THEN walked'[k][2] \in entry_points
               ELSE /\ k > 1 /\ walked'[k][1] = walked'[k - 1][2] /\ walked'[k][2] # 0
                    /\ LastOp \in active_code /\ AllNoticed' =>
                         walked'[k][2] \in ToSet(outs[walked'[k][1]])
    <3>1. CASE k \in 1..Len(walked)
      <4>1. IF walked[k][1] = NotSet THEN walked[k][2] \in entry_points
            ELSE /\ k > 1 /\ walked[k][1] = walked[k - 1][2] /\ walked[k][2] # 0
                 /\ LastOp \in active_code /\ AllNoticed => walked[k][2] \in ToSet(outs[walked[k][1]])
        BY <3>1, Zenon DEF WalkInv
      <4>2. walked'[k] = walked[k] /\ (k > 1 => walked'[k - 1] = walked[k - 1])
        BY <3>1, <2>3
      <4> QED BY <4>1, <4>2, <1>1
    <3>2. CASE k = Len(walked) + 1
      <4>1. walked'[k] = w
        BY <3>2, <2>3
      <4>2. CASE Before = NotSet
        <5>1. pc \in entry_points
          BY <4>2 DEF Before, Entered, StepMeans, AnalysisMeans, NotSet
        <5> QED BY <5>1, <4>1, <4>2, <2>2
      <4>3. CASE Before # NotSet
        <5>1. executed # <<>> /\ pc # 0 /\ pc \notin entry_points /\ Before = last_branch_nr
          BY <4>3 DEF Before, Entered, StepMeans
        <5>2. Len(walked) \in 1..Len(walked) /\ k - 1 = Len(walked) /\ k > 1
          BY <5>1, <3>2, <2>3, <1>1
        <5>3. walked[Len(walked)][2] = last_branch_nr
          BY <5>1, <1>1 DEF WalkInv
        <5>4. LastOp \in active_code /\ AllNoticed' => pc \in ToSet(outs[last_branch_nr])
          BY <5>1, <1>1, <1>3, StepIsOut
        <5>5. walked'[k - 1] = walked[Len(walked)]
          BY <5>2, <2>3
        <5> HIDE DEF w
        <5> QED BY <5>1, <5>2, <5>3, <5>4, <5>5, <4>1, <4>3, <2>2
      <4> QED BY <4>2, <4>3
    <3> QED BY <3>1, <3>2, <2>3
  <2>6. walked'[Len(walked')][2] = last_branch_nr'
    BY <2>1, <2>2, <2>3
  <2>7. \A x, y : <<x, y>> \in visited_branches' <=> \E k \in 1..Len(walked') : walked'[k] = <<y, x>>
    BY <2>4
  <2>8. \A k \in 1..Len(walked') :
          IF walked'[k][1] = NotSet THEN walked'[k][2] \in entry_points'
          ELSE /\ k > 1 /\ walked'[k][1] = walked'[k - 1][2] /\ walked'[k][2] # 0
               /\ LastOp' \in active_code' /\ AllNoticed' => walked'[k][2] \in ToSet(outs'[walked'[k][1]])
    BY <2>5, <1>1
  <2> QED BY <2>6, <2>7, <2>8, Zenon DEF WalkInv
<1> QED BY <1>2, <1>3

\* A function from 1..n is a sequence.
LEMMA ListedIsSeq ==
  ASSUME NEW S, NEW n \in Nat, NEW f \in [1..n -> S]
  PROVE  f \in Seq(S) /\ Len(f) = n
OBVIOUS

\* The path goes on by a step that is new.
LEMMA PathGoesOn ==
  ASSUME RunTyped, StepMeans, NEW w \in (starts \cup {NotSet}) \X starts, walked' = Append(walked, w),
         w[1] # NotSet, NEW k \in 1..Len(walked), BeginsPath(k)'
  PROVE  BeginsPath(k) /\ PathFrom(k)' = Append(PathFrom(k), w[2])
<1>1. walked \in Seq((starts \cup {NotSet}) \X starts)
  BY DEF RunTyped
<1>2. /\ Len(walked') = Len(walked) + 1 /\ Len(walked) \in Nat /\ walked'[Len(walked) + 1] = w
      /\ \A j \in 1..Len(walked) : walked'[j] = walked[j]
  BY ONLY <1>1, w \in (starts \cup {NotSet}) \X starts, walked' = Append(walked, w)
<1>3. BeginsPath(k)
  BY <1>2 DEF BeginsPath
<1> DEFINE n == Len(walked) - k + 1
<1>4. n \in Nat \ {0} /\ Len(walked') - k + 1 = n + 1
  BY <1>2
<1>5. ASSUME NEW j \in 1..n
      PROVE  k + j - 1 \in 1..Len(walked) /\ walked[k + j - 1][2] \in starts
  <2>1. k + j - 1 \in 1..Len(walked)
    BY <1>2
  <2> QED BY <2>1, <1>1
<1>6. PathFrom(k) \in Seq(starts) /\ Len(PathFrom(k)) = n
      /\ \A j \in 1..n : PathFrom(k)[j] = walked[k + j - 1][2]
  <2>1. PathFrom(k) = [j \in 1..n |-> walked[k + j - 1][2]]
    BY Zenon DEF PathFrom
  <2>2. PathFrom(k) \in [1..n -> starts]
    BY <2>1, <1>5
  <2>3. \A j \in 1..n : PathFrom(k)[j] = walked[k + j - 1][2]
    BY <2>1
  <2> HIDE DEF n
  <2>4. PathFrom(k) \in Seq(starts) /\ Len(PathFrom(k)) = n
    BY <2>2, <1>4, ListedIsSeq
  <2> QED BY <2>3, <2>4
<1>7. w[2] \in starts
  OBVIOUS
<1>8. ASSUME NEW j \in 1..(n + 1)
      PROVE  walked'[k + j - 1][2] = Append(PathFrom(k), w[2])[j] /\ walked'[k + j - 1][2] \in starts
  <2>1. CASE j = n + 1
    <3>1. k + j - 1 = Len(walked) + 1
      BY <2>1, <1>2
    <3>2. walked'[k + j - 1][2] = w[2]
      BY <3>1, <1>2
    <3> HIDE DEF n
    <3>3. Append(PathFrom(k), w[2])[n + 1] = w[2]
      BY ONLY <1>4, <1>6, <1>7
    <3> QED BY <3>2, <3>3, <2>1, <1>7
  <2>2. CASE j # n + 1
    <3>1. j \in 1..n
      BY <2>2, <1>4
    <3>2. walked'[k + j - 1] = walked[k + j - 1]
      BY <3>1, <1>2, <1>5
    <3> HIDE DEF n
    <3>3. Append(PathFrom(k), w[2])[j] = PathFrom(k)[j]
      BY ONLY <3>1, <1>4, <1>6, <1>7
    <3> QED BY <3>1, <3>2, <3>3, <1>5, <1>6
  <2> QED BY <2>1, <2>2
<1>9. PathFrom(k)' = [j \in 1..(n + 1) |-> walked'[k + j - 1][2]]
  BY <1>4, Zenon DEF PathFrom
<1> HIDE DEF n
<1>10. PathFrom(k)' \in Seq(starts) /\ Len(PathFrom(k)') = n + 1
       /\ \A j \in 1..(n + 1) : PathFrom(k)'[j] = walked'[k + j - 1][2]
  <2>1. PathFrom(k)' \in [1..(n + 1) -> starts]
    BY <1>8, <1>9
  <2>2. \A j \in 1..(n + 1) : PathFrom(k)'[j] = walked'[k + j - 1][2]
    BY <1>9
  <2>3. n + 1 \in Nat
    BY <1>4
  <2>4. PathFrom(k)' \in Seq(starts) /\ Len(PathFrom(k)') = n + 1
    BY <2>1, <2>3, ListedIsSeq
  <2> QED BY <2>2, <2>4
<1>11. Append(PathFrom(k), w[2]) \in Seq(starts) /\ Len(Append(PathFrom(k), w[2])) = n + 1
  BY <1>6, <1>7
<1>12. \A j \in 1..Len(PathFrom(k)') : PathFrom(k)'[j] = Append(PathFrom(k), w[2])[j]
  BY <1>8, <1>10
<1> QED BY <1>3, <1>10, <1>11, <1>12, SeqEqual

\* The path of the level is the one walked since the catch block entered last, as long
\* as no step is walked twice.
LEMMA StepKeepsEnd ==
  ASSUME RunTyped, WalkInv, EndInv, StepMeans
  PROVE  EndInv'
<1> DEFINE X == (starts \cup {NotSet}) \X starts  w == <<Before, pc>>
<1>1. /\ walked \in Seq(X) /\ pc # EXIT /\ cov_path \in Seq(Int)
      /\ pc \in Watched => pc \in starts
      /\ executed = <<>> => walked = <<>> /\ cov_path = <<>>
  BY DEF RunTyped, StepMeans
<1>2. CASE pc \notin Watched
  <2>1. walked' = walked /\ cov_path' = cov_path
    BY <1>2 DEF StepMeans
  <2> SUFFICES ASSUME StepsDiffer', walked' # <<>>, NEW k \in 1..Len(walked'), BeginsPath(k)'
               PROVE  cov_path' # <<>> /\ cov_path' = PathFrom(k)'
    BY DEF EndInv
  <2>2. StepsDiffer /\ walked # <<>> /\ k \in 1..Len(walked) /\ BeginsPath(k) /\ PathFrom(k)' = PathFrom(k)
    BY <2>1 DEF StepsDiffer, BeginsPath, PathFrom
  <2>3. cov_path # <<>> /\ cov_path = PathFrom(k)
    BY <2>2, <1>1 DEF EndInv
  <2> QED BY <2>1, <2>2, <2>3
<1>3. CASE pc \in Watched
  <2>1. /\ walked' = Append(walked, w)
        /\ cov_path' = IF <<pc, Before>> \in visited_branches
                       THEN IF Entered THEN <<>> ELSE cov_path
                       ELSE Append(IF Entered THEN <<>> ELSE cov_path, pc)
    BY <1>3 DEF StepMeans, MarkReached
  <2>2. w \in X /\ w[1] = Before /\ w[2] = pc
    BY <1>1, <1>3 DEF Before, RunTyped
  <2>3. /\ Len(walked') = Len(walked) + 1 /\ Len(walked) \in Nat /\ walked'[Len(walked) + 1] = w
        /\ \A k \in 1..Len(walked) : walked'[k] = walked[k]
    <3> HIDE DEF X, w
    <3> QED BY ONLY <1>1, <2>1, <2>2
  <2> SUFFICES ASSUME StepsDiffer', walked' # <<>>, NEW k \in 1..Len(walked'), BeginsPath(k)'
               PROVE  cov_path' # <<>> /\ cov_path' = PathFrom(k)'
    BY DEF EndInv
  <2>4. StepsDiffer
    <3>1. \A i, j \in 1..Len(walked) : i \in 1..Len(walked') /\ j \in 1..Len(walked')
      BY <2>3
    <3> QED BY <3>1, <2>3 DEF StepsDiffer
  <2>5. <<pc, Before>> \notin visited_branches
    <3> SUFFICES ASSUME NEW j \in 1..Len(walked), walked[j] = w
                 PROVE  FALSE
      BY DEF WalkInv
    <3> HIDE DEF w
    <3>1. j \in 1..Len(walked') /\ Len(walked) + 1 \in 1..Len(walked') /\ walked'[j] = walked'[Len(walked) + 1]
      BY <2>3
    <3>2. j = Len(walked) + 1
      BY <3>1 DEF StepsDiffer
    <3> QED BY <3>2, <2>3
  <2>6. CASE Before = NotSet
    <3>1. k = Len(walked) + 1
      <4>1. k < Len(walked) + 1 => Len(walked) + 1 \in (k + 1)..Len(walked')
        BY <2>3
      <4>2. w[1] = NotSet
        BY <2>2, <2>6
      <4>3. ~(k < Len(walked) + 1)
        BY <4>1, <4>2, <2>3 DEF BeginsPath
      <4> QED BY <4>3, <2>3
    <3>2. PathFrom(k)' = <<pc>>
      <4>1. Len(walked') - k + 1 = 1
        BY <3>1, <2>3
      <4>2. PathFrom(k)' = [j \in 1..1 |-> walked'[k + j - 1][2]]
        BY <4>1, Zenon DEF PathFrom
      <4>3. \A j \in 1..1 : walked'[k + j - 1][2] = pc
        BY <3>1, <2>2, <2>3
      <4>4. PathFrom(k)' \in Seq({pc}) /\ Len(PathFrom(k)') = 1 /\ PathFrom(k)'[1] = pc
        BY <4>2, <4>3
      <4>5. <<pc>> \in Seq({pc}) /\ Len(<<pc>>) = 1 /\ <<pc>>[1] = pc
        BY ONLY TRUE
      <4>6. \A i \in 1..Len(PathFrom(k)') : PathFrom(k)'[i] = <<pc>>[i]
        BY <4>4, <4>5
      <4> QED BY <4>4, <4>5, <4>6, SeqEqual
    <3>3. cov_path' = Append(<<>>, pc)
      <4>1. Entered \/ cov_path = <<>>
        BY <2>6, <1>1 DEF Before, StepMeans, AnalysisMeans, NotSet
      <4> QED BY <4>1, <2>1, <2>5
    <3>4. Append(<<>>, pc) = <<pc>> /\ <<pc>> # <<>>
      BY ONLY TRUE
    <3> QED BY <3>2, <3>3, <3>4
  <2>7. CASE Before # NotSet
    <3>1. ~Entered /\ executed # <<>>
      BY <2>7 DEF Before, StepMeans
    <3>2. k \in 1..Len(walked)
      <4>1. k # Len(walked) + 1
        BY <2>2, <2>3, <2>7 DEF BeginsPath
      <4> QED BY <4>1, <2>3
    <3>3. BeginsPath(k) /\ PathFrom(k)' = Append(PathFrom(k), pc)
      <4> HIDE DEF w
      <4> QED BY <3>2, <2>1, <2>2, <2>7, PathGoesOn
    <3>4. walked # <<>>
      BY <3>2
    <3>5. cov_path = PathFrom(k)
      BY <3>2, <3>3, <3>4, <2>4, <1>1 DEF EndInv
    <3>6. cov_path' = Append(cov_path, pc)
      BY <3>1, <2>1, <2>5
    <3>7. Append(cov_path, pc) # <<>>
      <4>1. pc \in Int
        BY DEF StepMeans
      <4>2. cov_path \in Seq(Int)
        BY <1>1
      <4> QED BY ONLY <4>1, <4>2
    <3> QED BY <3>3, <3>5, <3>6, <3>7
  <2> QED BY <2>6, <2>7
<1> QED BY <1>2, <1>3

\* xdebug_coverage_execute_ex_end reports that path.
LEMMA EndKeepsRun ==
  ASSUME AnalysisInv, RunInv, EndOfFunction
  PROVE  RunInv'
<1>1. /\ pc = EXIT /\ cov_path # <<>> /\ hit_paths' = hit_paths \cup EndedPaths /\ cov_path' = <<>>
      /\ pc' = pc /\ last_branch_nr' = last_branch_nr /\ visited_branches' = visited_branches
      /\ hit_branch' = hit_branch /\ executed' = executed /\ walked' = walked
      /\ UNCHANGED <<branchVars, analysisVars>>
  BY DEF EndOfFunction
<1> USE DEF branchVars, analysisVars
<1>2. RunTyped'
  BY <1>1 DEF RunInv, RunTyped, Analysed
<1>3. PlaceInv'
  BY <1>1 DEF RunInv, PlaceInv, InBranch, Straight, Since, GoesTo, Watched, AllNoticed
<1>4. HitsInv'
  <2>1. \A i : Bit(i)' = Bit(i)
    BY <1>1 DEF Bit
  <2>2. \A i, j : Stepped(i, j)' <=> Stepped(i, j)
    BY <1>1 DEF Stepped, Watched
  <2>3. Watched' = Watched
    BY <1>1 DEF Watched
  <2> QED BY <1>1, <2>1, <2>2, <2>3 DEF RunInv, HitsInv
<1>5. WalkInv'
  BY <1>1 DEF RunInv, WalkInv, LastOp, AllNoticed, Watched
<1>6. EndInv'
  <2> SUFFICES ASSUME StepsDiffer', walked' # <<>>, NEW k \in 1..Len(walked'), BeginsPath(k)'
               PROVE  PathFrom(k)' \in paths' => PathFrom(k)' \in hit_paths'
    BY <1>1 DEF EndInv
  <2>1. StepsDiffer /\ walked # <<>> /\ k \in 1..Len(walked) /\ BeginsPath(k)
        /\ PathFrom(k)' = PathFrom(k) /\ paths' = paths
    BY <1>1 DEF StepsDiffer, BeginsPath, PathFrom
  <2>2. cov_path = PathFrom(k)
    BY <2>1, <1>1 DEF RunInv, EndInv
  <2> QED BY <2>1, <2>2, <1>1 DEF EndedPaths
<1> QED BY <1>2, <1>3, <1>4, <1>5, <1>6 DEF RunInv

\* The path a call took at last is one that can be taken and goes nowhere else.
LEMMA LastPathIsWhole ==
  ASSUME AnalysisInv, RunInv, executed # <<>>, IsReturn(op_array, Last(executed)),
         LastOp \in active_code, StepsDiffer, AllNoticed, NEW k \in 1..Len(walked), BeginsPath(k)
  PROVE  WholePath(PathFrom(k))
<1> DEFINE X == (starts \cup {NotSet}) \X starts  n == Len(walked) - k + 1  P == PathFrom(k)
           c == Last(executed)
<1>1. /\ walked \in Seq(X) /\ Analysed /\ PlaceInv /\ WalkInv /\ AnalysisTyped /\ LoopInv
      /\ stage = "paths" /\ executed \in Seq(active_code)
  BY DEF RunInv, RunTyped, AnalysisInv, Analysed
<1>2. AnalysisMeans
  BY <1>1, AnalysisGives
<1>3. Len(walked) \in Nat /\ n \in Nat \ {0}
  BY <1>1
<1>4. \A j \in 1..n : k + j - 1 \in 1..Len(walked)
  BY <1>3
<1>5. P \in Seq(starts) /\ Len(P) = n /\ \A j \in 1..n : P[j] = walked[k + j - 1][2]
  <2>1. P = [j \in 1..n |-> walked[k + j - 1][2]]
    BY Zenon DEF PathFrom
  <2>2. \A j \in 1..n : walked[k + j - 1][2] \in starts
    BY <1>1, <1>4
  <2>3. P \in [1..n -> starts] /\ \A j \in 1..n : P[j] = walked[k + j - 1][2]
    BY <2>1, <2>2
  <2> HIDE DEF n, P
  <2>4. P \in Seq(starts) /\ Len(P) = n
    BY <2>3, <1>3, ListedIsSeq
  <2> QED BY <2>3, <2>4
<1>6. P \in Seq(DOMAIN op_array) /\ P # <<>>
  <2>1. starts \subseteq DOMAIN op_array
    BY <1>2 DEF AnalysisMeans
  <2> HIDE DEF n, P
  <2> QED BY ONLY <2>1, <1>3, <1>5
<1>7. P[1] \in entry_points
  <2>1. P[1] = walked[k][2]
    BY <1>3, <1>5
  <2>2. walked[k][1] = NotSet
    BY DEF BeginsPath
  <2> QED BY <2>1, <2>2, <1>1, Zenon DEF WalkInv
<1>8. ASSUME NEW j \in 1..(Len(P) - 1)
      PROVE  /\ k + j \in 1..Len(walked) /\ walked[k + j] = <<P[j], P[j + 1]>>
             /\ P[j + 1] \in ToSet(outs[P[j]]) \ {0, EXIT}
  <2>1. j \in 1..n /\ j + 1 \in 1..n /\ k + j \in (k + 1)..Len(walked) /\ k + j \in 1..Len(walked)
        /\ (k + j) - 1 = k + j - 1 /\ k + (j + 1) - 1 = k + j
    BY <1>3, <1>5
  <2>2. walked[k + j][1] # NotSet
    BY <2>1 DEF BeginsPath
  <2>3. /\ walked[k + j][1] = walked[(k + j) - 1][2] /\ walked[k + j][2] # 0
        /\ walked[k + j][2] \in ToSet(outs[walked[k + j][1]])
    BY <2>1, <2>2, <1>1, Zenon DEF WalkInv
  <2>4. P[j] = walked[k + j - 1][2] /\ P[j + 1] = walked[k + j][2]
    BY <2>1, <1>5
  <2>5. walked[k + j] = <<P[j], P[j + 1]>>
    <3>0. \A i \in 1..Len(walked) : walked[i] \in X
      <4> HIDE DEF X
      <4> QED BY <1>1
    <3>1. walked[k + j] \in X
      BY <2>1, <3>0
    <3>2. walked[k + j] = <<walked[k + j][1], walked[k + j][2]>>
      BY <3>1
    <3> QED BY <3>2, <2>1, <2>3, <2>4
  <2>6. P[j + 1] # EXIT
    <3>1. starts \subseteq Nat
      BY <1>2, Zenon DEF AnalysisMeans
    <3>2. P[j + 1] \in starts
      <4> HIDE DEF n, P
      <4> QED BY ONLY <2>1, <1>3, <1>5
    <3> QED BY ONLY <3>1, <3>2 DEF EXIT
  <2> QED BY <2>1, <2>3, <2>4, <2>5, <2>6
<1>9. ASSUME NEW i \in 1..(Len(P) - 1), NEW j \in 1..(Len(P) - 1), P[i] = P[j], P[i + 1] = P[j + 1]
      PROVE  i = j
  <2>1. k + i \in 1..Len(walked) /\ k + j \in 1..Len(walked) /\ walked[k + i] = walked[k + j]
    BY <1>8, <1>9
  <2>2. k + i = k + j
    BY <2>1 DEF StepsDiffer
  <2> QED BY <2>2, <1>3
<1>10. Onwards(P) = {}
  <2>1. Last(P) = last_branch_nr
    <3>1. Last(P) = P[n]
      BY <1>5 DEF Last
    <3>2. P[n] = walked[Len(walked)][2]
      <4>1. n \in 1..n /\ k + n - 1 = Len(walked)
        BY <1>3
      <4> QED BY <4>1, <1>5
    <3>3. walked # <<>>
      BY <1>3
    <3> QED BY <3>1, <3>2, <3>3, <1>1 DEF WalkInv
  <2>2. last_branch_nr \in starts /\ InBranch(last_branch_nr, c)
    BY <1>1 DEF PlaceInv, Watched
  <2>3. c \in active_code /\ c \in DOMAIN op_array /\ DOMAIN op_array = 0..LastOp /\ LastOp + 1 = LoopAt
        /\ LastOp \in Nat
    <3>1. c \in active_code
      BY <1>1 DEF Last
    <3> QED BY <3>1, <1>2 DEF AnalysisMeans
  <2>4. c < LoopAt
    <3> HIDE DEF c, LastOp, LoopAt
    <3> QED BY ONLY <2>3
  <2>5. OutsOf(last_branch_nr, c)
    BY <2>2, <2>3, <2>4, <1>1 DEF LoopInv
  <2>6. EndsBranch(op_array, c) /\ ToSet(Jumps(op_array, c)) \subseteq {EXIT}
    BY <1>1, <2>3, OpArrayFacts, JumpsStayInside, Zenon
  <2>7. ToSet(outs[last_branch_nr]) \subseteq {EXIT}
    BY <2>5, <2>6 DEF OutsOf
  <2> QED BY <2>1, <2>7 DEF Onwards
<1> QED BY <1>6, <1>7, <1>8, <1>9, <1>10 DEF WholePath

\* What the run keeps up is what its coverage promises.
LEMMA CoverageFollows ==
  ASSUME AnalysisInv, RunInv
  PROVE  CoverageIsExact
<1>1. AnalysisTyped /\ RunTyped /\ HitsInv /\ EndInv /\ PathsInv
  BY DEF RunInv, AnalysisInv
<1>2. ExecutedIsActive
  BY <1>1 DEF ExecutedIsActive, RunTyped, ToSet
<1>3. BranchesHit
  <2> SUFFICES ASSUME Analysed, NEW i \in starts
               PROVE  /\ Bit(i) \in hit_branch <=> i \in ToSet(executed) \cap Watched
                      /\ \A k \in 1..Len(outs[i]) : outs[i][k] \notin entry_points =>
                           (Bit(i) + k \in hit_branch <=> {i, outs[i][k]} \subseteq Watched /\ Stepped(i, outs[i][k]))
    BY DEF BranchesHit
  <2>1. HitsAre
    BY <1>1, HitsGiven
  <2> QED BY <2>1, Zenon DEF HitsAre
<1>4. PathHit
  <2> SUFFICES ASSUME pc = EXIT, cov_path = <<>>, executed # <<>>, IsReturn(op_array, Last(executed)),
                      LastOp \in active_code, StepsDiffer, AllNoticed, NEW k \in 1..Len(walked), BeginsPath(k)
               PROVE  PathFrom(k) \in hit_paths
    BY DEF PathHit, LastOp
  <2>1. WholePath(PathFrom(k))
    BY LastPathIsWhole
  <2>2. Analysed
    BY <1>1 DEF RunTyped
  <2>3. PathFrom(k) \in paths
    BY <2>1, <2>2, <1>1 DEF PathsInv, Kept, Analysed
  <2>4. walked # <<>>
    OBVIOUS
  <2> QED BY <2>3, <2>4, <1>1 DEF EndInv
<1> QED BY <1>2, <1>3, <1>4 DEF CoverageIsExact

\* While a function is analysed nothing of it has run.
LEMMA AnalysisStepKeepsRun ==
  ASSUME AnalysisInv, RunInv, AnalysisInv', ~Analysed, UNCHANGED runVars
  PROVE  RunInv'
<1>1. RunTyped /\ executed = <<>>
  BY DEF RunInv, RunTyped
<1>2. IdleRun
  BY <1>1 DEF RunTyped, IdleRun
<1>3. IdleRun'
  BY <1>2 DEF IdleRun, runVars
<1>4. (AnalysisTyped /\ IdleRun => RunInv)'
  BY RunIsIdle, PTL
<1> QED BY <1>3, <1>4 DEF AnalysisInv

\* Every step of the analysis and of the run keeps both invariants.
LEMMA CoverageKeeps ==
  ASSUME AnalysisInv, RunInv, [CoverageNext]_coverageVars
  PROVE  AnalysisInv' /\ RunInv'
<1>1. CASE AnalysisBranch
  <2>1. AnalysisInv' /\ ~Analysed /\ UNCHANGED runVars
    BY <1>1, AnalysisBranchKeeps DEF AnalysisBranch, Analysed
  <2> QED BY <2>1, AnalysisStepKeepsRun
<1>2. CASE FollowBranch
  <2>1. AnalysisInv' /\ ~Analysed /\ UNCHANGED runVars
    BY <1>2, FollowBranchKeeps DEF FollowBranch, Analysed
  <2> QED BY <2>1, AnalysisStepKeepsRun
<1>3. CASE BranchesFound
  <2>1. AnalysisInv' /\ ~Analysed /\ UNCHANGED runVars
    BY <1>3, BranchesFoundKeeps DEF BranchesFound, Analysed
  <2> QED BY <2>1, AnalysisStepKeepsRun
<1>4. CASE FindOuts
  <2>1. AnalysisInv' /\ ~Analysed /\ UNCHANGED runVars
    BY <1>4, FindOutsKeeps DEF FindOuts, Analysed
  <2> QED BY <2>1, AnalysisStepKeepsRun
<1>5. CASE OutsFound
  <2>1. AnalysisInv' /\ ~Analysed /\ UNCHANGED runVars
    BY <1>5, OutsFoundKeeps DEF OutsFound, Analysed
  <2> QED BY <2>1, AnalysisStepKeepsRun
<1>6. CASE FindPath
  <2>1. AnalysisInv' /\ ~Analysed /\ UNCHANGED runVars
    BY <1>6, FindPathKeeps DEF FindPath, Analysed
  <2> QED BY <2>1, AnalysisStepKeepsRun
<1>7. CASE ExecuteOpcode
  <2>1. StepMeans
    BY <1>7, StepsMean
  <2>2. Analysed /\ UNCHANGED <<branchVars, analysisVars>>
    BY <1>7 DEF ExecuteOpcode
  <2>3. AnalysisInv'
    BY <2>2, AnalysisStays
  <2>4. RunTyped /\ PlaceInv /\ HitsInv /\ WalkInv /\ EndInv
    BY DEF RunInv
  <2>5. RunTyped' /\ PlaceInv' /\ HitsInv' /\ WalkInv' /\ EndInv'
    BY <2>1, <2>2, <2>4, StepKeepsTypes, StepKeepsPlace, StepKeepsHits, StepKeepsWalk, StepKeepsEnd
  <2> QED BY <2>3, <2>5 DEF RunInv
<1>8. CASE EndOfFunction
  <2>1. UNCHANGED <<branchVars, analysisVars>>
    BY <1>8 DEF EndOfFunction
  <2> QED BY <1>8, <2>1, AnalysisStays, EndKeepsRun
<1>9. CASE UNCHANGED coverageVars
  <2>1. UNCHANGED <<branchVars, analysisVars>> /\ UNCHANGED runVars
    BY <1>9 DEF coverageVars
  <2>2. AnalysisInv'
    BY <2>1, AnalysisStays
  <2>3. RunTyped' /\ PlaceInv' /\ WalkInv' /\ EndInv'
    <3> USE <2>1 DEF branchVars, analysisVars, runVars
    <3>1. RunTyped'
      BY DEF RunInv, RunTyped, Analysed
    <3>2. PlaceInv'
      BY DEF RunInv, PlaceInv, InBranch, Straight, Since, GoesTo, Watched, AllNoticed
    <3>3. WalkInv'
      BY DEF RunInv, WalkInv, LastOp, AllNoticed, Watched
    <3>4. EndInv'
      <4>1. StepsDiffer' = StepsDiffer /\ \A k : BeginsPath(k)' = BeginsPath(k) /\ PathFrom(k)' = PathFrom(k)
        BY DEF StepsDiffer, BeginsPath, PathFrom
      <4> QED BY <4>1, Zenon DEF RunInv, EndInv
    <3> QED BY <3>1, <3>2, <3>3, <3>4
  <2>4. HitsInv'
    <3> USE <2>1 DEF branchVars, analysisVars, runVars
    <3>1. \A i : Bit(i)' = Bit(i)
      BY DEF Bit
    <3>2. \A i, j : Stepped(i, j)' <=> Stepped(i, j)
      BY DEF Stepped, Watched
    <3>3. Watched' = Watched
      BY DEF Watched
    <3> QED BY <3>1, <3>2, <3>3 DEF RunInv, HitsInv
  <2> QED BY <2>2, <2>3, <2>4 DEF RunInv
<1> QED BY <1>1, <1>2, <1>3, <1>4, <1>5, <1>6, <1>7, <1>8, <1>9 DEF CoverageNext

\* What add_branches and add_paths report is what has run, in every function of the
\* engine's and however long it runs: no opcode that ran is called dead, a branch is
\* hit when it was entered, a way out of it when it was taken, and the path of a call
\* that returns is one the analysis has found and is reported.  Not so of the branches
\* that begin at a switch, which xdebug_switch_handler does not mark.
THEOREM CoverageExact == CoverageSpec => []CoverageIsExact
<1>1. CoverageInit => AnalysisInv /\ RunInv
  <2> SUFFICES ASSUME CoverageInit
               PROVE  AnalysisInv /\ RunInv
    OBVIOUS
  <2>1. AnalysisInv
    BY AnalysisBegins
  <2>2. IdleRun
    BY DEF CoverageInit, IdleRun
  <2> QED BY <2>1, <2>2, RunIsIdle DEF AnalysisInv
<1>2. AnalysisInv /\ RunInv /\ [CoverageNext]_coverageVars => (AnalysisInv /\ RunInv)'
  BY CoverageKeeps
<1>3. AnalysisInv /\ RunInv => CoverageIsExact
  BY CoverageFollows
<1> QED BY <1>1, <1>2, <1>3, PTL DEF CoverageSpec

\* Branches, paths and lines: xdebug_get_code_coverage reports of them what has run.
THEOREM CoverageRight == CoverageSpec /\ LineSpec => []CoverageIsRight
BY CoverageExact, LinesReported, PTL DEF CoverageIsRight
=============================================================================
