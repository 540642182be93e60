-------------------------- MODULE ConnectionProofs ---------------------------
(***************************************************************************)
(* What the connections promise, for every number of workers, every launch *)
(* and every size of frame, read and kernel buffer: frames arrive in order *)
(* and are never made up, nothing but damage looks like a protocol error,  *)
(* one process of an incarnation serves at a time, and the loss of a       *)
(* worker does not end a run.                                              *)
(*                                                                         *)
(* The first half is about one direction of one connection.  The frames    *)
(* sent are laid out one behind the other, and every cell that the writer, *)
(* the kernel or the reader holds is the cell of that layout which follows *)
(* what has been taken, or a damaged one in its place (Carries).           *)
(***************************************************************************)
EXTENDS Connection, TLAPS

\* A leaf that names no prover is left to Zenon.
USE ZenonT(60)

Messages == [type : DOMAIN Lengths \cup {"Damaged"}, length : Nat, attempt : Nat]
CellSet == [frame : Messages, at : Nat]

Total(m) == kFrameOverhead + m.length

\* off[j] cells come before frame j of S.
Offsets(S, off) ==
    /\ off \in [1..(Len(S) + 1) -> Nat] /\ off[1] = 0
    /\ \A j \in 1..Len(S) : off[j + 1] = off[j] + Total(S[j])
    /\ \A j, k \in 1..(Len(S) + 1) : j <= k => off[j] <= off[k]

\* Cell c has number x in the layout, or is damaged and in its place.
IsCell(S, off, x, c, hurt) ==
    \E j \in 1..Len(S) : \E a \in 1..Total(S[j]) :
       /\ x = off[j] + a /\ c.at = a
       /\ c.frame = S[j] \/ (c.frame.type = "Damaged" /\ hurt # 0)

\* The cells of s are those behind number x.
Follow(S, off, x, s, hurt) == \A i \in 1..Len(s) : IsCell(S, off, x + i, s[i], hurt)

\* Frames S have been sent and G taken; the reader holds b, the kernel x, and the
\* writer still has o to write.  re and we are the ends of reader and writer, and
\* hurt is the number of damaged cells.
Carries(off, S, G, b, x, o, re, we, hurt) ==
    /\ S \in Seq(Messages) /\ G \in Seq(Messages)
    /\ b \in Seq(CellSet) /\ x \in Seq(CellSet) /\ o \in Seq(CellSet)
    /\ \A i \in 1..Len(S) : S[i].type # "Damaged" /\ S[i].length <= MaxPayload
    /\ Offsets(S, off)
    /\ Len(G) <= Len(S) /\ \A i \in 1..Len(G) : G[i] = S[i]
    /\ Follow(S, off, off[Len(G) + 1], b, hurt)
    /\ Follow(S, off, off[Len(G) + 1] + Len(b), x, hurt)
    /\ re = "Closed" => b = <<>> /\ x = <<>>
    /\ re # "Closed" => Follow(S, off, off[Len(G) + 1] + Len(b) + Len(x), o, hurt)
    /\ we = "Closed" => o = <<>>
    /\ re # "Closed" /\ we # "Closed" =>
          off[Len(G) + 1] + Len(b) + Len(x) + Len(o) = off[Len(S) + 1]

-----------------------------------------------------------------------------
(***************************************************************************)
(* One direction of a connection                                           *)
(***************************************************************************)

\* What a direction carries is typed, and no more frames are taken than were sent.
LEMMA CarriesTypes ==
    ASSUME NEW off, NEW S, NEW G, NEW b, NEW x, NEW o, NEW re, NEW we, NEW hurt,
           Carries(off, S, G, b, x, o, re, we, hurt)
    PROVE  /\ S \in Seq(Messages) /\ G \in Seq(Messages)
           /\ b \in Seq(CellSet) /\ x \in Seq(CellSet) /\ o \in Seq(CellSet)
           /\ Len(S) \in Nat /\ Len(G) \in Nat /\ Len(G) <= Len(S)
           /\ Len(b) \in Nat /\ Len(x) \in Nat /\ Len(o) \in Nat
           /\ off \in [1..(Len(S) + 1) -> Nat]
           /\ Len(G) + 1 \in 1..(Len(S) + 1) /\ Len(S) + 1 \in 1..(Len(S) + 1)
           /\ off[Len(G) + 1] \in Nat /\ off[Len(S) + 1] \in Nat
           /\ kFrameOverhead \in Nat /\ kFrameOverhead > 1
           /\ \A j \in 1..Len(S) : S[j] \in Messages /\ S[j].length \in Nat /\ Total(S[j]) \in Nat
                                   /\ Total(S[j]) > 1 /\ j + 1 \in 1..(Len(S) + 1)
<1>1. /\ S \in Seq(Messages) /\ G \in Seq(Messages) /\ Len(G) <= Len(S)
      /\ b \in Seq(CellSet) /\ x \in Seq(CellSet) /\ o \in Seq(CellSet)
      /\ off \in [1..(Len(S) + 1) -> Nat]
  BY DEF Carries, Offsets
<1>2. Len(S) \in Nat /\ Len(G) \in Nat /\ Len(b) \in Nat /\ Len(x) \in Nat /\ Len(o) \in Nat
  BY <1>1, SMTT(60)
<1>3. kFrameOverhead \in Nat /\ kFrameOverhead > 1
  BY FramingAssumption, SMTT(60) DEF kFrameOverhead
<1>4. ASSUME NEW j \in 1..Len(S)
      PROVE  /\ S[j] \in Messages /\ S[j].length \in Nat /\ Total(S[j]) \in Nat
             /\ Total(S[j]) > 1 /\ j + 1 \in 1..(Len(S) + 1)
  <2>1. S[j] \in Messages
    BY <1>1, <1>2, SMTT(60)
  <2>2. S[j].length \in Nat
    BY <2>1 DEF Messages
  <2> QED BY <1>2, <1>3, <2>1, <2>2, SMTT(60) DEF Total
<1>5. Len(G) + 1 \in 1..(Len(S) + 1) /\ Len(S) + 1 \in 1..(Len(S) + 1)
  BY <1>1, <1>2, SMTT(60)
<1>6. off[Len(G) + 1] \in Nat /\ off[Len(S) + 1] \in Nat
  BY <1>1, <1>5
<1> QED BY <1>1, <1>2, <1>3, <1>4, <1>5, <1>6

\* The cells of r are those behind number y, and the cells of s come after them.
Behind(S, off, y, r, s, hurt) ==
    /\ y \in Nat /\ r \in Seq(CellSet) /\ s \in Seq(CellSet)
    /\ Follow(S, off, y, r, hurt) /\ Follow(S, off, y + Len(r), s, hurt)

\* They still are when the first k cells of s join the end of r.
LEMMA BehindMove ==
    ASSUME NEW S, NEW off, NEW y, NEW r, NEW s, NEW hurt, Behind(S, off, y, r, s, hurt),
           NEW k \in 1..Len(s)
    PROVE  /\ Behind(S, off, y, r \o SubSeq(s, 1, k), SubSeq(s, k + 1, Len(s)), hurt)
           /\ Len(r \o SubSeq(s, 1, k)) = Len(r) + k
           /\ Len(SubSeq(s, k + 1, Len(s))) = Len(s) - k
<1> DEFINE h == SubSeq(s, 1, k)
           r2 == r \o SubSeq(s, 1, k)
           s2 == SubSeq(s, k + 1, Len(s))
<1>0. y \in Nat /\ r \in Seq(CellSet) /\ s \in Seq(CellSet)
  BY DEF Behind
<1>1. Len(r) \in Nat /\ Len(s) \in Nat /\ k \in Nat /\ k <= Len(s)
  BY <1>0, SMTT(60)
<1>2. h \in Seq(CellSet) /\ Len(h) = k /\ \A i \in 1..k : h[i] = s[i]
  BY <1>0, <1>1, SMTT(60)
<1>3. s2 \in Seq(CellSet) /\ Len(s2) = Len(s) - k /\ \A i \in 1..(Len(s) - k) : s2[i] = s[k + i]
  BY <1>0, <1>1, SMTT(60)
<1> HIDE DEF h, s2
<1>4. /\ r2 \in Seq(CellSet) /\ Len(r2) = Len(r) + k
      /\ \A i \in 1..(Len(r) + k) : r2[i] = IF i <= Len(r) THEN r[i] ELSE h[i - Len(r)]
  BY <1>0, <1>1, <1>2, SMTT(60) DEF h
<1> HIDE DEF r2
<1>5. ASSUME NEW i \in 1..Len(r2) PROVE IsCell(S, off, y + i, r2[i], hurt)
  <2>1. CASE i <= Len(r)
    <3>1. r2[i] = r[i] /\ i \in 1..Len(r)
      BY <1>1, <1>4, <2>1, SMTT(60)
    <3> QED BY <3>1 DEF Behind, Follow
  <2>2. CASE i > Len(r)
    <3>1. i - Len(r) \in 1..k /\ i - Len(r) \in 1..Len(s) /\ ~(i <= Len(r))
          /\ y + Len(r) + (i - Len(r)) = y + i
      BY <1>0, <1>1, <1>4, <2>2, SMTT(60)
    <3>2. r2[i] = s[i - Len(r)]
      BY <1>2, <1>4, <3>1
    <3>3. IsCell(S, off, y + Len(r) + (i - Len(r)), s[i - Len(r)], hurt)
      BY <3>1 DEF Behind, Follow
    <3> QED BY <3>1, <3>2, <3>3
  <2> QED BY <1>1, <1>4, <2>1, <2>2, SMTT(60)
<1>6. ASSUME NEW i \in 1..Len(s2) PROVE IsCell(S, off, y + Len(r2) + i, s2[i], hurt)
  <2>1. k + i \in 1..Len(s) /\ i \in 1..(Len(s) - k) /\ y + Len(r2) + i = y + Len(r) + (k + i)
    BY <1>0, <1>1, <1>3, <1>4, SMTT(60)
  <2>2. IsCell(S, off, y + Len(r) + (k + i), s[k + i], hurt)
    BY <2>1 DEF Behind, Follow
  <2> QED BY <1>3, <2>1, <2>2
<1> QED BY <1>0, <1>3, <1>4, <1>5, <1>6 DEF Behind, Follow, r2, s2

\* send_all takes cells over from the writer to the kernel, recv_some and push
\* from the kernel to the reader.
LEMMA CarriesWrite ==
    ASSUME NEW off, NEW S, NEW G, NEW b, NEW x, NEW o, NEW re, NEW we, NEW hurt,
           Carries(off, S, G, b, x, o, re, we, hurt), re # "Closed", NEW k \in 1..Len(o)
    PROVE  Carries(off, S, G, b, x \o SubSeq(o, 1, k), SubSeq(o, k + 1, Len(o)), re, we, hurt)
<1>1. /\ b \in Seq(CellSet) /\ x \in Seq(CellSet) /\ o \in Seq(CellSet)
      /\ Len(b) \in Nat /\ Len(x) \in Nat /\ Len(o) \in Nat
      /\ off[Len(G) + 1] \in Nat
  BY CarriesTypes
<1>2. PICK y : y = off[Len(G) + 1] + Len(b)
  OBVIOUS
<1>3. Behind(S, off, y, x, o, hurt)
  BY <1>1, <1>2, SMTT(60) DEF Carries, Behind
<1>4. PICK x2, o2 : x2 = x \o SubSeq(o, 1, k) /\ o2 = SubSeq(o, k + 1, Len(o))
  OBVIOUS
<1>5. /\ x2 \in Seq(CellSet) /\ o2 \in Seq(CellSet)
      /\ Len(x2) = Len(x) + k /\ Len(o2) = Len(o) - k
      /\ Follow(S, off, y, x2, hurt) /\ Follow(S, off, y + Len(x2), o2, hurt)
  <2>1. Behind(S, off, y, x2, o2, hurt) /\ Len(x2) = Len(x) + k /\ Len(o2) = Len(o) - k
    BY <1>3, <1>4, BehindMove, SMTT(60)
  <2> QED BY <2>1 DEF Behind
<1>6. we # "Closed"
  BY <1>1, SMTT(60) DEF Carries
<1>7. off[Len(G) + 1] + Len(b) + Len(x) + Len(o) = off[Len(G) + 1] + Len(b) + Len(x2) + Len(o2)
  BY <1>1, <1>5, SMTT(60)
<1>8. Carries(off, S, G, b, x2, o2, re, we, hurt)
  BY <1>2, <1>5, <1>6, <1>7 DEF Carries
<1> QED BY <1>4, <1>8

\* read() moves cells from the kernel to the accumulator; the order stays.
LEMMA CarriesRead ==
    ASSUME NEW off, NEW S, NEW G, NEW b, NEW x, NEW o, NEW re, NEW we, NEW hurt,
           Carries(off, S, G, b, x, o, re, we, hurt), NEW k \in 1..Len(x)
    PROVE  Carries(off, S, G, b \o SubSeq(x, 1, k), SubSeq(x, k + 1, Len(x)), o, re, we, hurt)
<1>1. /\ b \in Seq(CellSet) /\ x \in Seq(CellSet) /\ o \in Seq(CellSet)
      /\ Len(b) \in Nat /\ Len(x) \in Nat /\ Len(o) \in Nat
      /\ off[Len(G) + 1] \in Nat
  BY CarriesTypes
<1>2. PICK y : y = off[Len(G) + 1]
  OBVIOUS
<1>3. Behind(S, off, y, b, x, hurt)
  BY <1>1, <1>2 DEF Carries, Behind
<1>4. PICK b2, x2 : b2 = b \o SubSeq(x, 1, k) /\ x2 = SubSeq(x, k + 1, Len(x))
  OBVIOUS
<1>5. /\ b2 \in Seq(CellSet) /\ x2 \in Seq(CellSet)
      /\ Len(b2) = Len(b) + k /\ Len(x2) = Len(x) - k
      /\ Follow(S, off, y, b2, hurt) /\ Follow(S, off, y + Len(b2), x2, hurt)
  <2>1. Behind(S, off, y, b2, x2, hurt) /\ Len(b2) = Len(b) + k /\ Len(x2) = Len(x) - k
    BY <1>3, <1>4, BehindMove, SMTT(60)
  <2> QED BY <2>1 DEF Behind
<1>6. re # "Closed"
  BY <1>1, SMTT(60) DEF Carries
<1>7. y + Len(b) + Len(x) = y + Len(b2) + Len(x2)
  BY <1>1, <1>2, <1>5, SMTT(60)
<1>8. Carries(off, S, G, b2, x2, o, re, we, hurt)
  BY <1>2, <1>5, <1>6, <1>7 DEF Carries
<1> QED BY <1>4, <1>8

\* send_all begins with a frame when nothing is left of the one before it.
LEMMA CarriesSend ==
    ASSUME NEW off, NEW S, NEW G, NEW b, NEW x, NEW re, NEW we, NEW hurt,
           Carries(off, S, G, b, x, <<>>, re, we, hurt), we # "Closed",
           NEW m \in Messages, m.type # "Damaged", m.length <= MaxPayload
    PROVE  \E f : Carries(f, Append(S, m), G, b, x, encode_frame(m), re, we, hurt)
<1> DEFINE T == Append(S, m)
           n == Len(S)
           e == encode_frame(m)
           f == [j \in 1..(n + 2) |-> IF j <= n + 1 THEN off[j] ELSE off[n + 1] + Total(m)]
<1>1. /\ S \in Seq(Messages) /\ n \in Nat /\ G \in Seq(Messages) /\ Len(G) \in Nat /\ Len(G) <= n
      /\ Len(b) \in Nat /\ Len(x) \in Nat /\ off \in [1..(n + 1) -> Nat]
      /\ kFrameOverhead \in Nat /\ off[Len(G) + 1] \in Nat /\ off[n + 1] \in Nat
      /\ b \in Seq(CellSet) /\ x \in Seq(CellSet)
  BY CarriesTypes
<1>2. /\ T \in Seq(Messages) /\ Len(T) = n + 1 /\ T[n + 1] = m /\ \A j \in 1..n : T[j] = S[j]
  BY <1>1, SMTT(60)
<1>3. m.length \in Nat /\ Total(m) \in Nat
  BY <1>1, SMTT(60) DEF Messages, Total
<1>4. e \in Seq(CellSet) /\ Len(e) = Total(m) /\ \A i \in 1..Total(m) : e[i] = [frame |-> m, at |-> i]
  <2>1. e = [i \in 1..Total(m) |-> [frame |-> m, at |-> i]]
    BY DEF encode_frame, Total
  <2>2. \A i \in 1..Total(m) : [frame |-> m, at |-> i] \in CellSet
    BY <1>3, SMTT(60) DEF CellSet
  <2>3. e \in [1..Total(m) -> CellSet]
    BY <2>1, <2>2
  <2> QED BY <1>3, <2>1, <2>3, SMTT(60)
<1>5. /\ f \in [1..(n + 2) -> Nat] /\ \A j \in 1..(n + 1) : f[j] = off[j]
      /\ f[n + 2] = off[n + 1] + Total(m)
  BY <1>1, <1>3, SMTT(60)
<1> HIDE DEF T, e, f
<1>6. Offsets(T, f)
  <2>1. /\ off[1] = 0 /\ \A j \in 1..n : off[j + 1] = off[j] + Total(S[j])
        /\ \A j, k \in 1..(n + 1) : j <= k => off[j] <= off[k]
    BY DEF Carries, Offsets
  <2>2. f[1] = 0 /\ Len(T) + 1 = n + 2
    BY <1>1, <1>2, <1>5, <2>1, SMTT(60)
  <2>3. ASSUME NEW j \in 1..Len(T) PROVE f[j + 1] = f[j] + Total(T[j])
    <3>1. CASE j <= n
      <4>1. j \in 1..n /\ j \in 1..(n + 1) /\ j + 1 \in 1..(n + 1)
        BY <1>1, <1>2, <3>1, SMTT(60)
      <4> QED BY <1>2, <1>5, <2>1, <4>1
    <3>2. CASE j = n + 1
      <4>1. j \in 1..(n + 1) /\ j + 1 = n + 2
        BY <1>1, <3>2, SMTT(60)
      <4> QED BY <1>2, <1>5, <3>2, <4>1
    <3> QED BY <1>1, <1>2, <3>1, <3>2, SMTT(60)
  <2>4. ASSUME NEW j \in 1..(n + 2), NEW k \in 1..(n + 2), j <= k PROVE f[j] <= f[k]
    <3>1. CASE k <= n + 1
      <4>1. j \in 1..(n + 1) /\ k \in 1..(n + 1)
        BY <1>1, <2>4, <3>1, SMTT(60)
      <4> QED BY <1>5, <2>1, <2>4, <4>1
    <3>2. CASE k = n + 2 /\ j <= n + 1
      <4>1. j \in 1..(n + 1) /\ n + 1 \in 1..(n + 1)
        BY <1>1, <3>2, SMTT(60)
      <4>2. off[j] <= off[n + 1] /\ off[j] \in Nat
        BY <1>1, <2>1, <3>2, <4>1
      <4> QED BY <1>1, <1>3, <1>5, <3>2, <4>1, <4>2, SMTT(60)
    <3>3. CASE k = n + 2 /\ j = n + 2
      BY <1>5, <3>3, SMTT(60)
    <3> QED BY <1>1, <2>4, <3>1, <3>2, <3>3, SMTT(60)
  <2> QED BY <1>5, <2>2, <2>3, <2>4 DEF Offsets
<1>7. ASSUME NEW y, NEW c, IsCell(S, off, y, c, hurt) PROVE IsCell(T, f, y, c, hurt)
  <2>1. PICK j \in 1..n : \E a \in 1..Total(S[j]) :
           /\ y = off[j] + a /\ c.at = a
           /\ c.frame = S[j] \/ (c.frame.type = "Damaged" /\ hurt # 0)
    BY <1>7 DEF IsCell
  <2>2. j \in 1..Len(T) /\ T[j] = S[j] /\ f[j] = off[j]
    BY <1>1, <1>2, <1>5, SMTT(60)
  <2> QED BY <2>1, <2>2 DEF IsCell
<1>8. ASSUME NEW y, NEW s, Follow(S, off, y, s, hurt) PROVE Follow(T, f, y, s, hurt)
  BY <1>7, <1>8 DEF Follow
<1>9. f[Len(G) + 1] = off[Len(G) + 1] /\ f[Len(T) + 1] = off[n + 1] + Total(m)
  <2>1. Len(G) + 1 \in 1..(n + 1) /\ Len(T) + 1 = n + 2
    BY <1>1, <1>2, SMTT(60)
  <2> QED BY <1>5, <2>1
<1>10. Len(<<>>) = 0
  OBVIOUS
<1>11. re # "Closed" => off[Len(G) + 1] + Len(b) + Len(x) = off[n + 1]
  BY <1>1, <1>10, SMTT(60) DEF Carries
<1>12. ASSUME NEW i \in 1..Len(e) PROVE IsCell(T, f, off[n + 1] + i, e[i], hurt)
  <2>1. n + 1 \in 1..Len(T) /\ n + 1 \in 1..(n + 1)
    BY <1>1, <1>2, SMTT(60)
  <2>3. i \in 1..Total(T[n + 1]) /\ f[n + 1] = off[n + 1]
    BY <1>2, <1>4, <1>5, <2>1
  <2>2. e[i].at = i /\ e[i].frame = T[n + 1]
    BY <1>2, <1>4, SMTT(60)
  <2> QED BY <2>1, <2>2, <2>3 DEF IsCell
<1>13. re # "Closed" => Follow(T, f, off[Len(G) + 1] + Len(b) + Len(x), e, hurt)
  BY <1>11, <1>12 DEF Follow
<1>14. \A i \in 1..Len(T) : T[i].type # "Damaged" /\ T[i].length <= MaxPayload
  <2>1. \A i \in 1..n : S[i].type # "Damaged" /\ S[i].length <= MaxPayload
    BY DEF Carries
  <2> QED BY <1>1, <1>2, <2>1, SMTT(60)
<1>15. Len(G) <= Len(T) /\ \A i \in 1..Len(G) : G[i] = T[i]
  <2>1. \A i \in 1..Len(G) : G[i] = S[i] /\ i \in 1..n
    BY <1>1, SMTT(60) DEF Carries
  <2> QED BY <1>1, <1>2, <2>1, SMTT(60)
<1>16. /\ Follow(T, f, off[Len(G) + 1], b, hurt) /\ Follow(T, f, off[Len(G) + 1] + Len(b), x, hurt)
       /\ re = "Closed" => b = <<>> /\ x = <<>>
  BY <1>8 DEF Carries
<1>17. re # "Closed" /\ we # "Closed" =>
          off[Len(G) + 1] + Len(b) + Len(x) + Len(e) = f[Len(T) + 1]
  BY <1>1, <1>3, <1>4, <1>9, <1>11
<1>18. Carries(f, T, G, b, x, e, re, we, hurt)
  BY <1>1, <1>2, <1>4, <1>6, <1>9, <1>13, <1>14, <1>15, <1>16, <1>17 DEF Carries
<1> QED BY <1>18 DEF T, e

\* The cells behind what has been taken, up to the end of the next frame, are the
\* cells of that frame.
LEMMA HeadCells ==
    ASSUME NEW off, NEW S, NEW G, NEW b, NEW x, NEW o, NEW re, NEW we, NEW hurt,
           Carries(off, S, G, b, x, o, re, we, hurt), Len(b) > 0
    PROVE  /\ Len(G) + 1 \in 1..Len(S)
           /\ \A i \in 1..Len(b) : i <= Total(S[Len(G) + 1]) =>
                 /\ b[i].at = i
                 /\ b[i].frame = S[Len(G) + 1] \/ (b[i].frame.type = "Damaged" /\ hurt # 0)
<1> DEFINE g == Len(G) + 1
           n == Len(S)
<1>1. /\ n \in Nat /\ Len(G) \in Nat /\ Len(G) <= n /\ Len(b) \in Nat
      /\ off \in [1..(n + 1) -> Nat] /\ g \in 1..(n + 1) /\ off[g] \in Nat
      /\ \A j \in 1..n : Total(S[j]) \in Nat /\ Total(S[j]) > 1 /\ j + 1 \in 1..(n + 1)
  BY CarriesTypes
<1>2. /\ \A j \in 1..n : off[j + 1] = off[j] + Total(S[j])
      /\ \A j, k \in 1..(n + 1) : j <= k => off[j] <= off[k]
  BY DEF Carries, Offsets
<1>3. ASSUME NEW i \in 1..Len(b)
      PROVE  \E j \in 1..n : \E a \in 1..Total(S[j]) :
                /\ off[g] + i = off[j] + a /\ b[i].at = a
                /\ b[i].frame = S[j] \/ (b[i].frame.type = "Damaged" /\ hurt # 0)
  BY DEF Carries, Follow, IsCell
<1> HIDE DEF g, n
<1>4. ASSUME NEW i \in Nat, i > 0, NEW j \in 1..n, NEW a \in 1..Total(S[j]), off[g] + i = off[j] + a
      PROVE  g <= j
  <2> SUFFICES ASSUME j < g PROVE FALSE
    BY <1>1, SMTT(60)
  <2>1. j + 1 \in 1..(n + 1) /\ j + 1 <= g /\ j \in 1..(n + 1)
    BY <1>1, SMTT(60)
  <2>2. off[j + 1] <= off[g] /\ off[j + 1] = off[j] + Total(S[j])
    BY <1>1, <1>2, <2>1
  <2>3. off[j] \in Nat /\ Total(S[j]) \in Nat
    BY <1>1, <2>1
  <2> QED BY <1>1, <1>4, <2>2, <2>3, SMTT(60)
<1>5. g \in 1..n
  <2>1. 1 \in 1..Len(b)
    BY <1>1, SMTT(60)
  <2>2. PICK j \in 1..n : \E a \in 1..Total(S[j]) : off[g] + 1 = off[j] + a
    BY <1>3, <2>1
  <2>3. PICK a \in 1..Total(S[j]) : off[g] + 1 = off[j] + a
    BY <2>2
  <2>4. g <= j
    BY <1>4, <2>3, SMTT(60)
  <2> QED BY <1>1, <2>4, SMTT(60)
<1>6. ASSUME NEW i \in 1..Len(b), i <= Total(S[g])
      PROVE  /\ b[i].at = i
             /\ b[i].frame = S[g] \/ (b[i].frame.type = "Damaged" /\ hurt # 0)
  <2>1. PICK j \in 1..n : \E a \in 1..Total(S[j]) :
                /\ off[g] + i = off[j] + a /\ b[i].at = a
                /\ b[i].frame = S[j] \/ (b[i].frame.type = "Damaged" /\ hurt # 0)
    BY <1>3
  <2>2. PICK a \in 1..Total(S[j]) :
                /\ off[g] + i = off[j] + a /\ b[i].at = a
                /\ b[i].frame = S[j] \/ (b[i].frame.type = "Damaged" /\ hurt # 0)
    BY <2>1
  <2>3. i \in Nat /\ i > 0 /\ a \in Nat /\ a > 0 /\ off[j] \in Nat /\ j \in 1..(n + 1)
    BY <1>1, SMTT(60)
  <2>4. g <= j
    BY <1>4, <2>2, <2>3
  <2>5. ~(g < j)
    <3> SUFFICES ASSUME g < j PROVE FALSE
      OBVIOUS
    <3>1. g + 1 \in 1..(n + 1) /\ g + 1 <= j
      BY <1>1, <1>5, SMTT(60)
    <3>2. off[g + 1] <= off[j] /\ off[g + 1] = off[g] + Total(S[g])
      BY <1>2, <1>5, <2>3, <3>1
    <3>3. Total(S[g]) \in Nat
      BY <1>1, <1>5
    <3> QED BY <1>1, <1>6, <2>2, <2>3, <3>2, <3>3, SMTT(60)
  <2>6. j = g
    BY <1>1, <1>5, <2>4, <2>5, SMTT(60)
  <2>7. a = i
    BY <1>1, <2>2, <2>3, <2>6, SMTT(60)
  <2> QED BY <2>2, <2>6, <2>7
<1> QED BY <1>5, <1>6 DEF g, n

\* What FrameAccumulator::next does with a buffer.
LEMMA NextDef ==
    ASSUME NEW b \in Seq(CellSet)
    PROVE  /\ next(b).status = "Frame" =>
                 \E t \in 1..Len(b) :
                    /\ SubSeq(b, 1, t) = encode_frame(SubSeq(b, 1, t)[1].frame)
                    /\ SubSeq(b, 1, t)[1].frame.type # "Damaged"
                    /\ next(b).frame = b[1].frame /\ next(b).rest = SubSeq(b, t + 1, Len(b))
           /\ next(b).status = "Error" =>
                 /\ Len(b) >= HeaderCells
                 /\ \/ b[HeaderCells].frame.length > MaxPayload
                    \/ LET t == Total(b[HeaderCells].frame) IN
                       Len(b) >= t /\ ~decode_frame(SubSeq(b, 1, t))
           /\ next(b).status = "None" => Len(b) < MaxPayload + kFrameOverhead
           /\ next(b).status \in {"None", "Error", "Frame"}
<1> DEFINE n == b[HeaderCells].frame.length
           t == kFrameOverhead + n
<1>1. HeaderCells \in Nat /\ HeaderCells > 0 /\ kFrameOverhead \in Nat /\ kFrameOverhead > HeaderCells
      /\ MaxPayload \in Nat /\ Len(b) \in Nat
  BY FramingAssumption, SMTT(60) DEF kFrameOverhead
<1>2. CASE Len(b) < HeaderCells
  <2>1. next(b) = None
    BY <1>2 DEF next
  <2> QED BY <1>1, <1>2, <2>1, SMTT(60) DEF None
<1>3. CASE ~(Len(b) < HeaderCells) /\ n > MaxPayload
  <2>1. next(b) = Failure
    BY <1>3 DEF next
  <2> QED BY <1>1, <1>3, <2>1, SMTT(60) DEF Failure
<1>4. CASE ~(Len(b) < HeaderCells) /\ ~(n > MaxPayload)
  <2>1. next(b) = Cut(b, n)
    BY <1>4 DEF next
  <2>2. n \in Nat /\ n <= MaxPayload
    <3>1. b[HeaderCells] \in CellSet
      BY <1>1, <1>4, SMTT(60)
    <3> QED BY <1>1, <1>4, <3>1, SMTT(60) DEF CellSet, Messages
  <2>3. t \in Nat /\ t > 0 /\ t = Total(b[HeaderCells].frame)
    BY <1>1, <2>2, SMTT(60) DEF Total
  <2> HIDE DEF n
  <2>4. CASE Len(b) < t
    <3>1. next(b) = None
      BY <2>1, <2>4 DEF Cut
    <3> QED BY <1>1, <2>2, <2>4, <3>1, SMTT(60) DEF None
  <2>5. CASE ~(Len(b) < t) /\ ~decode_frame(SubSeq(b, 1, t))
    <3>1. next(b) = Failure
      BY <2>1, <2>5 DEF Cut
    <3> QED BY <1>1, <1>4, <2>3, <2>5, <3>1, SMTT(60) DEF Failure
  <2>6. CASE ~(Len(b) < t) /\ decode_frame(SubSeq(b, 1, t))
    <3>1. next(b) = [status |-> "Frame", frame |-> b[1].frame, rest |-> SubSeq(b, t + 1, Len(b))]
      BY <2>1, <2>6 DEF Cut
    <3>2. t \in 1..Len(b)
      BY <1>1, <2>3, <2>6, SMTT(60)
    <3>3. next(b).frame = b[1].frame /\ next(b).rest = SubSeq(b, t + 1, Len(b)) /\ next(b).status = "Frame"
      <4>1. PICK q, h : q = SubSeq(b, t + 1, Len(b)) /\ h = b[1].frame
        OBVIOUS
      <4>2. next(b) = [status |-> "Frame", frame |-> h, rest |-> q]
        BY <3>1, <4>1
      <4>3. next(b).frame = h /\ next(b).rest = q /\ next(b).status = "Frame"
        BY <4>2, SMTT(60)
      <4> QED BY <4>1, <4>3
    <3> HIDE DEF t
    <3> QED BY <2>6, <3>2, <3>3 DEF decode_frame
  <2> QED BY <2>4, <2>5, <2>6
<1> QED BY <1>2, <1>3, <1>4

\* A frame that passes the checksums is the next one that was sent.
LEMMA CarriesTake ==
    ASSUME NEW off, NEW S, NEW G, NEW b, NEW x, NEW o, NEW re, NEW we, NEW hurt,
           Carries(off, S, G, b, x, o, re, we, hurt), next(b).status = "Frame"
    PROVE  /\ Len(G) + 1 \in 1..Len(S) /\ next(b).frame = S[Len(G) + 1]
           /\ Carries(off, S, Append(G, next(b).frame), next(b).rest, x, o, re, we, hurt)
<1> DEFINE g == Len(G) + 1
           m == S[g]
<1>1. /\ S \in Seq(Messages) /\ G \in Seq(Messages) /\ b \in Seq(CellSet)
      /\ Len(S) \in Nat /\ Len(G) \in Nat /\ Len(b) \in Nat /\ Len(x) \in Nat /\ Len(o) \in Nat
      /\ off \in [1..(Len(S) + 1) -> Nat] /\ off[g] \in Nat
      /\ \A j \in 1..Len(S) : S[j] \in Messages /\ Total(S[j]) \in Nat /\ j + 1 \in 1..(Len(S) + 1)
  BY CarriesTypes
<1>2. PICK t \in 1..Len(b) :
         /\ SubSeq(b, 1, t) = encode_frame(SubSeq(b, 1, t)[1].frame)
         /\ SubSeq(b, 1, t)[1].frame.type # "Damaged"
         /\ next(b).frame = b[1].frame /\ next(b).rest = SubSeq(b, t + 1, Len(b))
  BY <1>1, NextDef
<1>3. SubSeq(b, 1, t)[1] = b[1] /\ Len(SubSeq(b, 1, t)) = t /\ t \in Nat /\ 1 \in 1..Len(b)
  BY <1>1, SMTT(60)
<1>4. /\ g \in 1..Len(S)
      /\ b[1].frame = m \/ b[1].frame.type = "Damaged"
  <2>1. g \in 1..Len(S) /\ Total(m) > 1
    BY <1>3, HeadCells, CarriesTypes, SMTT(60)
  <2>2. 1 <= Total(m)
    BY <1>1, <2>1, SMTT(60)
  <2> QED BY <1>3, <2>1, <2>2, HeadCells, SMTT(60)
<1>5. next(b).frame = m /\ b[1].frame = m
  BY <1>2, <1>3, <1>4
<1>6. t = Total(m)
  <2>1. SubSeq(b, 1, t) = encode_frame(m)
    BY <1>2, <1>3, <1>5
  <2>2. DOMAIN encode_frame(m) = 1..Total(m)
    BY DEF encode_frame, Total
  <2>3. DOMAIN SubSeq(b, 1, t) = 1..t
    BY <1>1, <1>3, SMTT(60)
  <2>4. 1..t = 1..Total(m) /\ Total(m) \in Nat
    BY <1>1, <1>4, <2>1, <2>2, <2>3
  <2> QED BY <1>3, <2>4, SMTT(60)
<1> HIDE DEF m, g
<1>7. PICK H : H = Append(G, m)
  OBVIOUS
<1>8. /\ H \in Seq(Messages) /\ Len(H) = g /\ g = Len(G) + 1
      /\ H[g] = m /\ \A i \in 1..Len(G) : H[i] = G[i]
  BY <1>1, <1>4, <1>7, SMTT(60) DEF g, m
<1>9. Len(H) <= Len(S) /\ \A i \in 1..Len(H) : H[i] = S[i]
  <2>1. \A i \in 1..Len(G) : G[i] = S[i]
    BY DEF Carries
  <2>2. Len(H) <= Len(S) /\ \A i \in 1..Len(H) : i \in 1..Len(G) \/ i = g
    BY <1>1, <1>4, <1>8, SMTT(60)
  <2>3. H[g] = S[g] /\ \A i \in 1..Len(G) : H[i] = S[i]
    BY <1>8, <2>1 DEF m
  <2> QED BY <2>2, <2>3
<1>10. off[g + 1] = off[g] + t /\ off[g + 1] \in Nat
  <2>1. off[g + 1] = off[g] + Total(S[g])
    BY <1>4 DEF Carries, Offsets
  <2>2. off[g + 1] = off[g] + t
    BY <1>6, <2>1 DEF m
  <2>3. off[g] \in Nat
    BY <1>1
  <2> QED BY <1>3, <2>2, <2>3, SMTT(60)
<1>11. PICK r : r = SubSeq(b, t + 1, Len(b))
  OBVIOUS
<1>12. r \in Seq(CellSet) /\ Len(r) = Len(b) - t /\ \A i \in 1..(Len(b) - t) : r[i] = b[t + i]
  <2>1. t <= Len(b) /\ t \in Nat /\ Len(b) \in Nat /\ b \in Seq(CellSet)
    BY <1>1, <1>3, SMTT(60)
  <2> QED BY <1>11, <2>1, SMTT(60)
<1>13. Follow(S, off, off[g + 1], r, hurt)
  <2> SUFFICES ASSUME NEW i \in 1..Len(r) PROVE IsCell(S, off, off[g + 1] + i, r[i], hurt)
    BY DEF Follow
  <2>1. t + i \in 1..Len(b) /\ i \in 1..(Len(b) - t) /\ off[g + 1] + i = off[g] + (t + i)
    BY <1>1, <1>3, <1>10, <1>12, SMTT(60)
  <2>2. IsCell(S, off, off[g] + (t + i), b[t + i], hurt)
    BY <2>1 DEF Carries, Follow, g
  <2> QED BY <1>12, <2>1, <2>2
<1>14. off[g + 1] + Len(r) = off[g] + Len(b)
  BY <1>1, <1>3, <1>10, <1>12, SMTT(60)
<1>15. re # "Closed"
  BY <1>1, <1>3, SMTT(60) DEF Carries
<1>16. Carries(off, S, H, r, x, o, re, we, hurt)
  BY <1>8, <1>9, <1>12, <1>13, <1>14, <1>15 DEF Carries, g
<1> QED BY <1>2, <1>4, <1>5, <1>7, <1>11, <1>16 DEF g, m

\* Without damage the accumulator refuses nothing: what it holds is the beginning
\* of frames that were sent, and it is asked for them before it is given more.
LEMMA CarriesSound ==
    ASSUME NEW off, NEW S, NEW G, NEW b, NEW x, NEW o, NEW re, NEW we,
           Carries(off, S, G, b, x, o, re, we, 0)
    PROVE  /\ next(b).status # "Error"
           /\ \A k \in Nat : next(b).status = "None" /\ k <= ReadSize => ~push_refuses(b, k)
<1>1. /\ S \in Seq(Messages) /\ b \in Seq(CellSet) /\ Len(S) \in Nat /\ Len(b) \in Nat
      /\ \A j \in 1..Len(S) : S[j] \in Messages /\ S[j].length \in Nat /\ Total(S[j]) \in Nat
  BY CarriesTypes
<1>2. /\ HeaderCells \in Nat /\ HeaderCells > 0 /\ ReadSize \in Nat /\ MaxPayload \in Nat
      /\ ReadSize <= MaxPayload + kFrameOverhead /\ kFrameOverhead \in Nat
      /\ kFrameOverhead > HeaderCells
  BY FramingAssumption, SMTT(60) DEF kFrameOverhead
<1>3. ASSUME next(b).status = "Error" PROVE FALSE
  <2> DEFINE m == S[Len(G) + 1]
             t == Total(m)
  <2>1. /\ Len(b) >= HeaderCells
        /\ \/ b[HeaderCells].frame.length > MaxPayload
           \/ /\ Len(b) >= Total(b[HeaderCells].frame)
              /\ ~decode_frame(SubSeq(b, 1, Total(b[HeaderCells].frame)))
    BY <1>1, <1>3, NextDef
  <2>2. /\ Len(G) + 1 \in 1..Len(S)
        /\ \A i \in 1..Len(b) : i <= t => b[i].at = i /\ b[i].frame = m
    BY <1>1, <1>2, <2>1, HeadCells, SMTT(60)
  <2>3. m.length <= MaxPayload /\ m.type # "Damaged" /\ m \in Messages /\ m.length \in Nat
    BY <1>1, <2>2 DEF Carries
  <2>4. t = kFrameOverhead + m.length /\ t \in Nat /\ t > HeaderCells
    BY <1>2, <2>3, SMTT(60) DEF Total
  <2> HIDE DEF m, t
  <2>5. b[HeaderCells].frame = m
    <3>1. HeaderCells \in 1..Len(b) /\ HeaderCells <= t
      BY <1>1, <1>2, <2>1, <2>4, SMTT(60)
    <3> QED BY <2>2, <3>1
  <2>6. Total(b[HeaderCells].frame) = t
    BY <2>5 DEF t
  <2>7. Len(b) >= t /\ ~decode_frame(SubSeq(b, 1, t))
    BY <1>2, <2>1, <2>3, <2>5, <2>6, SMTT(60)
  <2>8. PICK c : c = SubSeq(b, 1, t)
    OBVIOUS
  <2>9. c \in Seq(CellSet) /\ Len(c) = t /\ DOMAIN c = 1..t /\ \A i \in 1..t : c[i] = b[i] /\ i \in 1..Len(b)
    BY <1>1, <2>4, <2>7, <2>8, SMTT(60)
  <2>10. ASSUME NEW i \in 1..t PROVE c[i] = [frame |-> m, at |-> i]
    <3>1. c[i] \in CellSet /\ c[i].at = i /\ c[i].frame = m
      <4>1. i <= t /\ c[i] = b[i] /\ i \in 1..Len(b)
        BY <2>4, <2>9, SMTT(60)
      <4>2. b[i] \in CellSet
        BY <1>1, <4>1, SMTT(60)
      <4> QED BY <2>2, <4>1, <4>2
    <3> QED BY <3>1 DEF CellSet
  <2>11. encode_frame(m) = [i \in 1..t |-> [frame |-> m, at |-> i]]
    BY <2>4 DEF encode_frame
  <2>12. c = encode_frame(m)
    <3>1. c = [i \in 1..t |-> c[i]]
      BY <2>9, SMTT(60)
    <3> QED BY <2>10, <2>11, <3>1
  <2>13. c[1].frame = m
    <3>1. 1 \in 1..t
      BY <1>2, <2>4, SMTT(60)
    <3>2. c[1] = [frame |-> m, at |-> 1]
      BY <2>10, <3>1
    <3> QED BY <3>2, SMTT(60)
  <2> QED BY <2>3, <2>7, <2>8, <2>12, <2>13 DEF decode_frame
<1>4. ASSUME NEW k \in Nat, next(b).status = "None", k <= ReadSize PROVE ~push_refuses(b, k)
  <2>1. Len(b) < MaxPayload + kFrameOverhead
    BY <1>1, <1>4, NextDef
  <2> QED BY <1>1, <1>2, <1>4, <2>1, SMTT(60) DEF push_refuses
<1> QED BY <1>3, <1>4

\* The reader closes its end.
LEMMA CarriesReaderCloses ==
    ASSUME NEW off, NEW S, NEW G, NEW b, NEW x, NEW o, NEW re, NEW we, NEW hurt,
           Carries(off, S, G, b, x, o, re, we, hurt)
    PROVE  Carries(off, S, G, <<>>, <<>>, o, "Closed", we, hurt)
<1>1. Len(<<>>) = 0 /\ <<>> \in Seq(CellSet)
  BY SMTT(60)
<1>2. \A y : Follow(S, off, y, <<>>, hurt)
  BY <1>1, SMTT(60) DEF Follow
<1> QED BY <1>1, <1>2 DEF Carries

\* The writer closes its end.
LEMMA CarriesWriterCloses ==
    ASSUME NEW off, NEW S, NEW G, NEW b, NEW x, NEW o, NEW re, NEW we, NEW hurt,
           Carries(off, S, G, b, x, o, re, we, hurt)
    PROVE  Carries(off, S, G, b, x, <<>>, re, "Closed", hurt)
<1>1. Len(<<>>) = 0 /\ <<>> \in Seq(CellSet)
  BY SMTT(60)
<1>2. \A y : Follow(S, off, y, <<>>, hurt)
  BY <1>1, SMTT(60) DEF Follow
<1> QED BY <1>1, <1>2 DEF Carries

\* A reset discards what the kernel holds, once the writer has closed its end.
LEMMA CarriesReset ==
    ASSUME NEW off, NEW S, NEW G, NEW b, NEW x, NEW o, NEW re, NEW hurt,
           Carries(off, S, G, b, x, o, re, "Closed", hurt)
    PROVE  Carries(off, S, G, b, <<>>, o, re, "Closed", hurt)
<1>1. Len(<<>>) = 0 /\ <<>> \in Seq(CellSet) /\ o = <<>>
  BY DEF Carries
<1>2. \A y : Follow(S, off, y, <<>>, hurt)
  BY <1>1, SMTT(60) DEF Follow
<1> QED BY <1>1, <1>2 DEF Carries

\* A send to an end that is gone takes nothing, or fails.
LEMMA CarriesVanish ==
    ASSUME NEW off, NEW S, NEW G, NEW b, NEW x, NEW o, NEW we, NEW hurt,
           Carries(off, S, G, b, x, o, "Closed", we, hurt),
           NEW p \in Seq(CellSet), we = "Closed" => p = <<>>
    PROVE  Carries(off, S, G, b, x, p, "Closed", we, hurt)
BY DEF Carries

\* A cell elsewhere may be damaged.
LEMMA CarriesHurt ==
    ASSUME NEW off, NEW S, NEW G, NEW b, NEW x, NEW o, NEW re, NEW we, NEW hurt \in Nat,
           Carries(off, S, G, b, x, o, re, we, hurt)
    PROVE  Carries(off, S, G, b, x, o, re, we, hurt + 1)
<1>1. hurt + 1 # 0
  BY SMTT(60)
<1>2. ASSUME NEW y, NEW c, IsCell(S, off, y, c, hurt) PROVE IsCell(S, off, y, c, hurt + 1)
  BY <1>1, <1>2 DEF IsCell
<1>3. ASSUME NEW y, NEW s, Follow(S, off, y, s, hurt) PROVE Follow(S, off, y, s, hurt + 1)
  BY <1>2, <1>3 DEF Follow
<1> QED BY <1>3 DEF Carries

\* The last cell in the kernel is damaged.
LEMMA CarriesDamage ==
    ASSUME NEW off, NEW S, NEW G, NEW b, NEW x, NEW o, NEW re, NEW we, NEW hurt \in Nat,
           Carries(off, S, G, b, x, o, re, we, hurt), Len(x) > 0, NEW n \in Nat
    PROVE  Carries(off, S, G, b, [x EXCEPT ![Len(x)].frame = Damaged(n)], o, re, we, hurt + 1)
<1> DEFINE z == [x EXCEPT ![Len(x)].frame = Damaged(n)]
<1>1. x \in Seq(CellSet) /\ Len(x) \in Nat /\ DOMAIN x = 1..Len(x) /\ Len(x) \in 1..Len(x)
  BY CarriesTypes, SMTT(60)
<1>2. Damaged(n) \in Messages /\ Damaged(n).type = "Damaged"
  BY DEF Damaged, Messages
<1>3. \A i \in 1..Len(x) : x[i] \in CellSet
  BY <1>1, SMTT(60)
<1>4. /\ DOMAIN z = 1..Len(x) /\ \A i \in 1..Len(x) : i # Len(x) => z[i] = x[i]
      /\ z[Len(x)] = [x[Len(x)] EXCEPT !.frame = Damaged(n)]
  BY <1>1
<1>5. z[Len(x)] \in CellSet /\ z[Len(x)].at = x[Len(x)].at /\ z[Len(x)].frame = Damaged(n)
  <2>1. x[Len(x)] \in CellSet
    BY <1>1, <1>3
  <2> QED BY <1>2, <1>4, <2>1 DEF CellSet
<1>6. z \in Seq(CellSet) /\ Len(z) = Len(x)
  <2>1. z = [i \in 1..Len(x) |-> z[i]]
    BY <1>1
  <2>2. \A i \in 1..Len(x) : z[i] \in CellSet
    BY <1>3, <1>4, <1>5
  <2> HIDE DEF z
  <2>3. z \in [1..Len(x) -> CellSet]
    BY <2>1, <2>2
  <2> QED BY <1>1, <2>3, SMTT(60)
<1> HIDE DEF z
<1>7. hurt + 1 # 0
  BY SMTT(60)
<1>8. ASSUME NEW y, NEW c, IsCell(S, off, y, c, hurt) PROVE IsCell(S, off, y, c, hurt + 1)
  BY <1>7, <1>8 DEF IsCell
<1>9. ASSUME NEW y, NEW s, Follow(S, off, y, s, hurt) PROVE Follow(S, off, y, s, hurt + 1)
  BY <1>8, <1>9 DEF Follow
<1>10. ASSUME NEW y, Follow(S, off, y, x, hurt) PROVE Follow(S, off, y, z, hurt + 1)
  <2> SUFFICES ASSUME NEW i \in 1..Len(x) PROVE IsCell(S, off, y + i, z[i], hurt + 1)
    BY <1>6 DEF Follow
  <2>1. IsCell(S, off, y + i, x[i], hurt)
    BY <1>10 DEF Follow
  <2>2. CASE i # Len(x)
    BY <1>4, <1>8, <2>1, <2>2
  <2>3. CASE i = Len(x)
    <3>1. z[i].at = x[i].at /\ z[i].frame.type = "Damaged"
      BY <1>2, <1>5, <2>3
    <3> QED BY <1>7, <2>1, <3>1 DEF IsCell
  <2> QED BY <2>2, <2>3
<1>11. re # "Closed"
  BY <1>1, SMTT(60) DEF Carries
<1>12. Carries(off, S, G, b, z, o, re, we, hurt + 1)
  BY <1>6, <1>9, <1>10, <1>11 DEF Carries
<1> QED BY <1>12 DEF z

\* Shutting down a direction, which is not closing it, loses nothing.
LEMMA CarriesHalf ==
    ASSUME NEW off, NEW S, NEW G, NEW b, NEW x, NEW o, NEW re, NEW we, NEW hurt,
           Carries(off, S, G, b, x, o, re, we, hurt), NEW re2, NEW we2,
           re = "Closed" <=> re2 = "Closed", we = "Closed" <=> we2 = "Closed"
    PROVE  Carries(off, S, G, b, x, o, re2, we2, hurt)
BY DEF Carries

\* Before the connection is made nothing was sent and nothing is on the way.
LEMMA CarriesNothing ==
    \E off : Carries(off, <<>>, <<>>, <<>>, <<>>, <<>>, "None", "None", 0)
<1> DEFINE off == [j \in 1..1 |-> 0]
<1>1. Len(<<>>) = 0 /\ <<>> \in Seq(CellSet) /\ <<>> \in Seq(Messages)
  BY SMTT(60)
<1>2. off[1] = 0 /\ off \in [1..1 -> Nat] /\ 0 + 1 = 1
  BY SMTT(60)
<1>3. Offsets(<<>>, off)
  BY <1>1, <1>2, SMTT(60) DEF Offsets
<1>4. \A y : Follow(<<>>, off, y, <<>>, 0)
  BY <1>1, SMTT(60) DEF Follow
<1> HIDE DEF off
<1>5. Carries(off, <<>>, <<>>, <<>>, <<>>, <<>>, "None", "None", 0)
  BY <1>1, <1>2, <1>3, <1>4, SMTT(60) DEF Carries
<1> QED BY <1>5

-----------------------------------------------------------------------------
(***************************************************************************)
(* The invariant                                                           *)
(***************************************************************************)
USE DEF coordinatorVars, workerVars, streams, faults

Ends == {"None", "Open", "HalfClosed", "Closed"}

ConnTyped ==
    /\ pc \in {"Accept", "Greet", "Ack", "Reject", "Loop", "Stop", "Done", "Failed"}
    /\ backlog \in Seq(Workers) /\ candidate \in Workers \cup {NoWorker}
    /\ peer \in [Workers -> {"None", "Alive", "Retired", "Told"}]
    /\ dispatches \in Nat /\ launch \in Launches /\ damages \in Nat
    /\ wpc \in [Workers -> {"Start", "Greeting", "Serving", "Starting", "Absent", "Shutdown",
                            "Unreachable", "Refused", "Failed", "Closed", "Killed"}]
    /\ job \in [Workers -> Nat]
    /\ out \in [Workers -> [Directions -> Seq(CellSet)]]
    /\ wire \in [Workers -> [Directions -> Seq(CellSet)]]
    /\ buffer \in [Workers -> [Directions -> Seq(CellSet)]]
    /\ sent \in [Workers -> [Directions -> Seq(Messages)]]
    /\ got \in [Workers -> [Directions -> Seq(Messages)]]
    /\ end \in [Workers -> [coordinator : Ends, worker : Ends]]

Writer == [up |-> "worker", down |-> "coordinator"]
WriteEnd(w, d) == end[w][Writer[d]]

\* What direction d of a connection carries.
Stream(w, d) ==
    \E off : Carries(off, sent[w][d], got[w][d], buffer[w][d], wire[w][d], out[w][d],
                     ReadEnd(w, d), WriteEnd(w, d), damages)

Streams == \A w \in Workers : \A d \in Directions : Stream(w, d)

\* Worker w has not connected.
Untouched(w) == end[w].worker = "None"

Busy(w) == wpc[w] \in {"Greeting", "Serving", "Starting"}

Over == pc \in {"Done", "Failed"}

\* Where the two processes are in the life of connection w.
Contact(w) ==
    /\ Untouched(w) =>
          /\ end[w].coordinator = "None" /\ peer[w] = "None" /\ w # candidate
          /\ \A i \in 1..Len(backlog) : backlog[i] # w
          /\ \A d \in Directions : Len(sent[w][d]) = 0 /\ Len(got[w][d]) = 0
    /\ wpc[w] \in {"Start", "Absent"} => Untouched(w)
    /\ wpc[w] = "Start" \/ ~Untouched(w) => w \in Launched
    /\ Busy(w) => end[w].worker = "Open" /\ Len(sent[w]["up"]) > 0
    /\ ~Over /\ ~Untouched(w) /\ peer[w] \in {"None", "Alive"} => end[w].coordinator = "Open"
    /\ \A d \in Directions : <<w, d>> \in resets => WriteEnd(w, d) = "Closed"

\* Connections are handed out and greeted one after the other, each once.
Queue ==
    /\ pc \in {"Greet", "Ack", "Reject"} => candidate \in Workers /\ peer[candidate] = "None"
    /\ \A i \in 1..Len(backlog) : peer[backlog[i]] = "None" /\ backlog[i] # candidate
    /\ \A i, j \in 1..Len(backlog) : i # j => backlog[i] # backlog[j]

\* Worker w has been told whether it is accepted.
Greeted(w) == peer[w] # "None" \/ (w = candidate /\ pc \in {"Ack", "Reject", "Failed"})

Acked(w) == Len(sent[w]["down"]) > 0 /\ sent[w]["down"][1].type = "HelloAck"

\* What has been said on connection w.
Speech(w) ==
    /\ ~Greeted(w) => Len(sent[w]["down"]) = 0 /\ Len(got[w]["up"]) = 0
    /\ \A i \in 1..Len(sent[w]["down"]) :
          sent[w]["down"][i].type \in (IF i = 1 THEN {"HelloAck", "HelloRefused"}
                                       ELSE {"Dispatch", "Shutdown"})
    /\ peer[w] # "None" \/ (w = candidate /\ pc = "Ack") => Acked(w)
    /\ Len(sent[w]["up"]) > 0 => sent[w]["up"][1].type = "Hello"
    /\ wpc[w] = "Greeting" => Len(got[w]["down"]) = 0
    /\ Serves(w) => Len(got[w]["down"]) > 0 /\ got[w]["down"][1].type = "HelloAck"

\* No incarnation is accepted twice.
AckedOnce == \A v, w \in Workers : v # w /\ Acked(v) /\ Acked(w) => identity[v] # identity[w]

\* Why a run may have failed.
Cause ==
    pc = "Failed" => \/ launch.signals \/ NoWorker \in killed
                     \/ \E w \in Launched : peer[w] = "None"

ConnInv ==
    /\ ConnTyped /\ Streams /\ Queue /\ Cause /\ AckedOnce /\ NoFalseAlarm
    /\ \A w \in Workers : Contact(w) /\ Speech(w)

-----------------------------------------------------------------------------
(***************************************************************************)
(* Steps of the streams                                                    *)
(***************************************************************************)

\* The two directions, and who reads and who writes each.
LEMMA DirectionsDef ==
    /\ "up" \in Directions /\ "down" \in Directions /\ "up" # "down"
    /\ \A d \in Directions : d = "up" \/ d = "down"
    /\ Reader["up"] = "coordinator" /\ Reader["down"] = "worker"
    /\ Writer["up"] = "worker" /\ Writer["down"] = "coordinator"
BY DEF Directions, Reader, Writer

\* One element more at the end of a sequence.
LEMMA Appended ==
    ASSUME NEW T, NEW q \in Seq(T), NEW x \in T, NEW q2, q2 = Append(q, x)
    PROVE  /\ Len(q2) = Len(q) + 1 /\ q2[Len(q) + 1] = x
           /\ \A i \in 1..Len(q) : q2[i] = q[i]
BY SMTT(60)

\* Direction e of connection v is left as it is.
Same(v, e) ==
    /\ sent'[v][e] = sent[v][e] /\ got'[v][e] = got[v][e]
    /\ buffer'[v][e] = buffer[v][e] /\ wire'[v][e] = wire[v][e] /\ out'[v][e] = out[v][e]
    /\ ReadEnd(v, e)' = ReadEnd(v, e) /\ WriteEnd(v, e)' = WriteEnd(v, e)
    /\ damages' = damages

\* What a step makes of a stream.
LEMMA StreamNow ==
    ASSUME NEW w, NEW d, NEW off, NEW S, NEW G, NEW b, NEW x, NEW o, NEW re, NEW we, NEW hurt,
           Carries(off, S, G, b, x, o, re, we, hurt),
           sent'[w][d] = S, got'[w][d] = G, buffer'[w][d] = b, wire'[w][d] = x, out'[w][d] = o,
           ReadEnd(w, d)' = re, WriteEnd(w, d)' = we, damages' = hurt
    PROVE  Stream(w, d)'
<1>1. Carries(off, sent'[w][d], got'[w][d], buffer'[w][d], wire'[w][d], out'[w][d],
              ReadEnd(w, d)', WriteEnd(w, d)', damages')
  OBVIOUS
<1> QED BY <1>1 DEF Stream

\* A step that changes one stream at most.
LEMMA OneStream ==
    ASSUME Streams, NEW w \in Workers, NEW d \in Directions, Stream(w, d)',
           \A v \in Workers : \A e \in Directions : (v = w /\ e = d) \/ Same(v, e)
    PROVE  Streams'
<1> SUFFICES ASSUME NEW v \in Workers, NEW e \in Directions PROVE Stream(v, e)'
  BY DEF Streams
<1>1. CASE v = w /\ e = d
  BY <1>1
<1>2. CASE Same(v, e)
  <2>1. Stream(v, e)
    BY DEF Streams
  <2> QED BY <1>2, <2>1 DEF Stream, Same
<1> QED BY <1>1, <1>2

\* A step that moves cells and nothing else.
LEMMA CellsMove ==
    ASSUME ConnInv, UNCHANGED <<pc, backlog, candidate, peer, launch, wpc, sent, got, end, alarms,
                                killed>>,
           resets' \subseteq resets, damages' = 0 => damages = 0
    PROVE  /\ Queue' /\ Cause' /\ AckedOnce' /\ NoFalseAlarm'
           /\ \A w \in Workers : Contact(w)' /\ Speech(w)'
<1>1. Queue' /\ Cause'
  BY DEF ConnInv, Queue, Cause, Launched
<1>2. AckedOnce' /\ NoFalseAlarm'
  BY DEF ConnInv, AckedOnce, Acked, NoFalseAlarm, identity
<1>3. ASSUME NEW w \in Workers PROVE Contact(w)' /\ Speech(w)'
  <2>1. Contact(w) /\ Speech(w)
    BY DEF ConnInv
  <2>2. Contact(w)'
    BY <2>1 DEF Contact, Untouched, Busy, Over, Launched, WriteEnd
  <2>3. Speech(w)'
    BY <2>1 DEF Speech, Greeted, Acked, Serves
  <2> QED BY <2>2, <2>3
<1> QED BY <1>1, <1>2, <1>3

\* send_all
LEMMA WriteInv ==
    ASSUME ConnInv, NEW w \in Workers, NEW d \in Directions, NEW k, Write(w, d, k)
    PROVE  ConnInv'
<1>1. /\ k \in 1..Len(out[w][d])
      /\ out' = [out EXCEPT ![w][d] = SubSeq(out[w][d], k + 1, Len(out[w][d]))]
      /\ UNCHANGED <<pc, backlog, candidate, peer, attempts, dispatches, launch, wpc, job, buffer,
                     sent, got, end, resets, alarms, killed, damages>>
  BY DEF Write
<1>2. /\ ConnTyped /\ Streams /\ out \in [Workers -> [Directions -> Seq(CellSet)]]
      /\ wire \in [Workers -> [Directions -> Seq(CellSet)]]
  BY DEF ConnInv, ConnTyped
<1>3. PICK off : Carries(off, sent[w][d], got[w][d], buffer[w][d], wire[w][d], out[w][d],
                         ReadEnd(w, d), WriteEnd(w, d), damages)
  BY <1>2 DEF Streams, Stream
<1>4. PICK o2 : o2 = SubSeq(out[w][d], k + 1, Len(out[w][d]))
  OBVIOUS
<1>5. o2 \in Seq(CellSet) /\ out[w][d] \in Seq(CellSet) /\ wire[w][d] \in Seq(CellSet)
  <2>1. out[w][d] \in Seq(CellSet) /\ wire[w][d] \in Seq(CellSet)
    BY <1>2
  <2> QED BY <1>1, <1>4, <2>1, SMTT(60)
<1>6. /\ out' \in [Workers -> [Directions -> Seq(CellSet)]] /\ out'[w][d] = o2
      /\ \A v \in Workers : \A e \in Directions : ~(v = w /\ e = d) => out'[v][e] = out[v][e]
  <2>1. out' = [out EXCEPT ![w][d] = o2] /\ out \in [Workers -> [Directions -> Seq(CellSet)]]
    BY <1>1, <1>2, <1>4
  <2> QED BY <1>5, <2>1
<1>7. ReadEnd(w, d)' = ReadEnd(w, d) /\ WriteEnd(w, d)' = WriteEnd(w, d)
  BY <1>1 DEF ReadEnd, WriteEnd
<1>8. /\ wire' \in [Workers -> [Directions -> Seq(CellSet)]]
      /\ \A v \in Workers : \A e \in Directions : ~(v = w /\ e = d) => wire'[v][e] = wire[v][e]
      /\ Stream(w, d)'
  <2>1. CASE ReadEnd(w, d) # "Closed"
    <3>1. wire' = [wire EXCEPT ![w][d] = wire[w][d] \o SubSeq(out[w][d], 1, k)]
      BY <2>1 DEF Write
    <3>2. PICK x2 : x2 = wire[w][d] \o SubSeq(out[w][d], 1, k)
      OBVIOUS
    <3>3. Carries(off, sent[w][d], got[w][d], buffer[w][d], x2, o2,
                  ReadEnd(w, d), WriteEnd(w, d), damages)
      BY <1>1, <1>3, <1>4, <2>1, <3>2, CarriesWrite
    <3>4. x2 \in Seq(CellSet)
      BY <3>3, CarriesTypes
    <3>5. /\ wire' \in [Workers -> [Directions -> Seq(CellSet)]] /\ wire'[w][d] = x2
          /\ \A v \in Workers : \A e \in Directions : ~(v = w /\ e = d) => wire'[v][e] = wire[v][e]
      <4>1. wire' = [wire EXCEPT ![w][d] = x2] /\ wire \in [Workers -> [Directions -> Seq(CellSet)]]
        BY <1>2, <3>1, <3>2
      <4> QED BY <3>4, <4>1
    <3>6. Stream(w, d)'
      BY <1>1, <1>6, <1>7, <3>3, <3>5, StreamNow
    <3> QED BY <3>5, <3>6
  <2>2. CASE ReadEnd(w, d) = "Closed"
    <3>1. wire' = wire
      BY <2>2 DEF Write
    <3>2. WriteEnd(w, d) # "Closed"
      BY <1>1, <1>3, <1>5, SMTT(60) DEF Carries
    <3>3. Carries(off, sent[w][d], got[w][d], buffer[w][d], wire[w][d], o2,
                  ReadEnd(w, d), WriteEnd(w, d), damages)
      BY <1>3, <1>5, <2>2, <3>2, CarriesVanish
    <3>4. Stream(w, d)'
      BY <1>1, <1>6, <1>7, <3>1, <3>3, StreamNow
    <3> QED BY <1>2, <3>1, <3>4
  <2> QED BY <2>1, <2>2
<1>9. Streams'
  <2>1. \A v \in Workers : \A e \in Directions : (v = w /\ e = d) \/ Same(v, e)
    BY <1>1, <1>6, <1>8 DEF Same, ReadEnd, WriteEnd
  <2> QED BY <1>2, <1>8, <2>1, OneStream
<1>10. ConnTyped'
  BY <1>1, <1>2, <1>6, <1>8 DEF ConnTyped
<1> QED BY <1>1, <1>9, <1>10, CellsMove DEF ConnInv

\* recv_some and push
LEMMA ReadInv ==
    ASSUME ConnInv, NEW w \in Workers, NEW d \in Directions, Read(w, d),
           UNCHANGED <<pc, coordinatorVars, launch, workerVars, out, sent, got, end, faults>>
    PROVE  ConnInv'
<1>1. PICK k : k = Received(w, d)
  OBVIOUS
<1>2. /\ ConnTyped /\ Streams /\ wire \in [Workers -> [Directions -> Seq(CellSet)]]
      /\ buffer \in [Workers -> [Directions -> Seq(CellSet)]]
  BY DEF ConnInv, ConnTyped
<1>3. /\ k > 0 /\ wire' = [wire EXCEPT ![w][d] = SubSeq(wire[w][d], k + 1, Len(wire[w][d]))]
      /\ buffer' = [buffer EXCEPT ![w][d] = buffer[w][d] \o SubSeq(wire[w][d], 1, k)]
  BY <1>1 DEF Read
<1>4. k \in 1..Len(wire[w][d])
  <2>1. Len(wire[w][d]) \in Nat /\ ReadSize \in Nat
    BY <1>2, FramingAssumption, SMTT(60)
  <2>2. k \in Nat /\ k <= Len(wire[w][d])
    BY <1>1, <2>1, SMTT(60) DEF Received
  <2> QED BY <1>3, <2>1, <2>2, SMTT(60)
<1>5. PICK off : Carries(off, sent[w][d], got[w][d], buffer[w][d], wire[w][d], out[w][d],
                         ReadEnd(w, d), WriteEnd(w, d), damages)
  BY <1>2 DEF Streams, Stream
<1>6. PICK b2, x2 : /\ b2 = buffer[w][d] \o SubSeq(wire[w][d], 1, k)
                    /\ x2 = SubSeq(wire[w][d], k + 1, Len(wire[w][d]))
  OBVIOUS
<1>7. Carries(off, sent[w][d], got[w][d], b2, x2, out[w][d], ReadEnd(w, d), WriteEnd(w, d), damages)
  BY <1>4, <1>5, <1>6, CarriesRead
<1>8. b2 \in Seq(CellSet) /\ x2 \in Seq(CellSet)
  BY <1>7, CarriesTypes
<1>9. /\ wire' \in [Workers -> [Directions -> Seq(CellSet)]] /\ wire'[w][d] = x2
      /\ \A v \in Workers : \A e \in Directions : ~(v = w /\ e = d) => wire'[v][e] = wire[v][e]
  <2>1. wire' = [wire EXCEPT ![w][d] = x2] /\ wire \in [Workers -> [Directions -> Seq(CellSet)]]
    BY <1>2, <1>3, <1>6
  <2>2. x2 \in Seq(CellSet)
    BY <1>8
  <2> QED BY <2>1, <2>2
<1>10. /\ buffer' \in [Workers -> [Directions -> Seq(CellSet)]] /\ buffer'[w][d] = b2
       /\ \A v \in Workers : \A e \in Directions : ~(v = w /\ e = d) => buffer'[v][e] = buffer[v][e]
  <2>1. buffer' = [buffer EXCEPT ![w][d] = b2] /\ buffer \in [Workers -> [Directions -> Seq(CellSet)]]
    BY <1>2, <1>3, <1>6
  <2>2. b2 \in Seq(CellSet)
    BY <1>8
  <2> QED BY <2>1, <2>2
<1>11. ReadEnd(w, d)' = ReadEnd(w, d) /\ WriteEnd(w, d)' = WriteEnd(w, d)
  BY DEF ReadEnd, WriteEnd
<1>12. Stream(w, d)'
  BY <1>7, <1>9, <1>10, <1>11, StreamNow
<1>13. \A v \in Workers : \A e \in Directions : (v = w /\ e = d) \/ Same(v, e)
  BY <1>9, <1>10 DEF Same, ReadEnd, WriteEnd
<1>14. Streams'
  BY <1>2, <1>12, <1>13, OneStream
<1>15. ConnTyped'
  BY <1>2, <1>9, <1>10 DEF ConnTyped
<1> QED BY <1>14, <1>15, CellsMove DEF ConnInv

\* A reset arrives.
LEMMA ResetInv ==
    ASSUME ConnInv, NEW w \in Workers, NEW d \in Directions, Reset(w, d)
    PROVE  ConnInv'
<1>1. /\ <<w, d>> \in resets /\ resets' \subseteq resets /\ wire' = [wire EXCEPT ![w][d] = <<>>]
      /\ UNCHANGED <<pc, backlog, candidate, peer, attempts, dispatches, launch, wpc, job, out, buffer,
                     sent, got, end, alarms, killed, damages>>
  BY DEF Reset
<1>2. /\ ConnTyped /\ Streams /\ wire \in [Workers -> [Directions -> Seq(CellSet)]]
      /\ WriteEnd(w, d) = "Closed"
  BY <1>1 DEF ConnInv, ConnTyped, Contact
<1>3. PICK off : Carries(off, sent[w][d], got[w][d], buffer[w][d], wire[w][d], out[w][d],
                         ReadEnd(w, d), "Closed", damages)
  BY <1>2 DEF Streams, Stream
<1>4. Carries(off, sent[w][d], got[w][d], buffer[w][d], <<>>, out[w][d], ReadEnd(w, d), "Closed", damages)
  BY <1>3, CarriesReset
<1>5. /\ wire' \in [Workers -> [Directions -> Seq(CellSet)]] /\ wire'[w][d] = <<>>
      /\ \A v \in Workers : \A e \in Directions : ~(v = w /\ e = d) => wire'[v][e] = wire[v][e]
  <2>1. <<>> \in Seq(CellSet)
    BY SMTT(60)
  <2>2. wire' = [wire EXCEPT ![w][d] = <<>>] /\ wire \in [Workers -> [Directions -> Seq(CellSet)]]
    BY <1>1, <1>2
  <2> QED BY <2>1, <2>2
<1>6. ReadEnd(w, d)' = ReadEnd(w, d) /\ WriteEnd(w, d)' = "Closed"
  BY <1>1, <1>2 DEF ReadEnd, WriteEnd
<1>7. Stream(w, d)'
  BY <1>1, <1>4, <1>5, <1>6, StreamNow
<1>8. \A v \in Workers : \A e \in Directions : (v = w /\ e = d) \/ Same(v, e)
  BY <1>1, <1>5 DEF Same, ReadEnd, WriteEnd
<1>9. Streams'
  BY <1>2, <1>7, <1>8, OneStream
<1>10. ConnTyped'
  BY <1>1, <1>2, <1>5 DEF ConnTyped
<1> QED BY <1>1, <1>9, <1>10, CellsMove DEF ConnInv

\* A cell is damaged.
LEMMA DamageInv ==
    ASSUME ConnInv, NEW w \in Workers, NEW d \in Directions, NEW n \in Nat, Damage(w, d, n)
    PROVE  ConnInv'
<1>1. /\ Len(wire[w][d]) > 0 /\ damages' = damages + 1
      /\ wire' = [wire EXCEPT ![w][d][Len(wire[w][d])].frame = Damaged(n)]
      /\ UNCHANGED <<pc, backlog, candidate, peer, attempts, dispatches, launch, wpc, job, out, buffer,
                     sent, got, end, resets, alarms, killed>>
  BY DEF Damage
<1>2. /\ ConnTyped /\ Streams /\ wire \in [Workers -> [Directions -> Seq(CellSet)]]
      /\ damages \in Nat
  BY DEF ConnInv, ConnTyped
<1>3. PICK off : Carries(off, sent[w][d], got[w][d], buffer[w][d], wire[w][d], out[w][d],
                         ReadEnd(w, d), WriteEnd(w, d), damages)
  BY <1>2 DEF Streams, Stream
<1>4. PICK x2 : x2 = [wire[w][d] EXCEPT ![Len(wire[w][d])].frame = Damaged(n)]
  OBVIOUS
<1>5. Carries(off, sent[w][d], got[w][d], buffer[w][d], x2, out[w][d], ReadEnd(w, d), WriteEnd(w, d),
              damages + 1)
  BY <1>1, <1>2, <1>3, <1>4, CarriesDamage
<1>6. x2 \in Seq(CellSet)
  BY <1>5, CarriesTypes
<1>7. wire' = [wire EXCEPT ![w][d] = x2]
  BY <1>1, <1>4
<1>8. /\ wire' \in [Workers -> [Directions -> Seq(CellSet)]] /\ wire'[w][d] = x2
      /\ \A v \in Workers : \A e \in Directions : ~(v = w /\ e = d) => wire'[v][e] = wire[v][e]
  <2>1. wire' = [wire EXCEPT ![w][d] = x2] /\ wire \in [Workers -> [Directions -> Seq(CellSet)]]
    BY <1>2, <1>7
  <2> QED BY <1>6, <2>1
<1>9. ASSUME NEW v \in Workers, NEW e \in Directions PROVE Stream(v, e)'
  <2>1. ReadEnd(v, e)' = ReadEnd(v, e) /\ WriteEnd(v, e)' = WriteEnd(v, e)
    BY <1>1 DEF ReadEnd, WriteEnd
  <2>2. CASE v = w /\ e = d
    BY <1>1, <1>5, <1>8, <2>1, <2>2, StreamNow
  <2>3. CASE ~(v = w /\ e = d)
    <3>1. PICK f : Carries(f, sent[v][e], got[v][e], buffer[v][e], wire[v][e], out[v][e],
                           ReadEnd(v, e), WriteEnd(v, e), damages)
      BY <1>2 DEF Streams, Stream
    <3>2. Carries(f, sent[v][e], got[v][e], buffer[v][e], wire[v][e], out[v][e],
                  ReadEnd(v, e), WriteEnd(v, e), damages + 1)
      BY <1>2, <3>1, CarriesHurt
    <3> QED BY <1>1, <1>8, <2>1, <2>3, <3>2, StreamNow
  <2> QED BY <2>2, <2>3
<1>10. Streams'
  BY <1>9 DEF Streams
<1>11. ConnTyped' /\ damages' # 0
  <2>1. damages' \in Nat /\ damages' # 0
    BY <1>1, <1>2, SMTT(60)
  <2> QED BY <1>1, <1>2, <1>8, <2>1 DEF ConnTyped
<1> QED BY <1>1, <1>10, <1>11, CellsMove DEF ConnInv

-----------------------------------------------------------------------------
(***************************************************************************)
(* Ends that close                                                         *)
(***************************************************************************)

Sides == {"coordinator", "worker"}

\* The end of side s at connection v is one that Close(s, W) closes.
Closing(s, W, v) == v \in W /\ end[v][s] \in {"Open", "HalfClosed"}

\* What Close does to one connection.
LEMMA CloseDef ==
    ASSUME ConnTyped, NEW s \in Sides, NEW W, Close(s, W), NEW v \in Workers, NEW e \in Directions
    PROVE  /\ end'[v] = IF Closing(s, W, v) THEN [end[v] EXCEPT ![s] = "Closed"] ELSE end[v]
           /\ wire'[v][e] = IF Closing(s, W, v) /\ Reader[e] = s THEN <<>> ELSE wire[v][e]
           /\ buffer'[v][e] = IF Closing(s, W, v) /\ Reader[e] = s THEN <<>> ELSE buffer[v][e]
           /\ out'[v][e] = IF Closing(s, W, v) /\ Reader[e] # s THEN <<>> ELSE out[v][e]
<1> DEFINE d == IF s = "worker" THEN "down" ELSE "up"
           u == IF s = "worker" THEN "up" ELSE "down"
           closing == {w \in W : end[w][s] \in {"Open", "HalfClosed"}}
<1>1. /\ end' = [w \in Workers |-> IF w \in closing THEN [end[w] EXCEPT ![s] = "Closed"] ELSE end[w]]
      /\ wire' = [w \in Workers |-> IF w \in closing THEN [wire[w] EXCEPT ![d] = <<>>] ELSE wire[w]]
      /\ out' = [w \in Workers |-> IF w \in closing THEN [out[w] EXCEPT ![u] = <<>>] ELSE out[w]]
      /\ buffer' = [w \in Workers |-> IF w \in closing THEN [buffer[w] EXCEPT ![d] = <<>>] ELSE buffer[w]]
  BY DEF Close
<1>2. v \in closing <=> Closing(s, W, v)
  BY DEF Closing
<1>3. Reader[e] = s => e = d /\ e # u
  BY DirectionsDef DEF Sides
<1>4. Reader[e] # s => e = u /\ e # d
  BY DirectionsDef DEF Sides
<1> HIDE DEF closing, d, u
<1>5. /\ end'[v] = IF v \in closing THEN [end[v] EXCEPT ![s] = "Closed"] ELSE end[v]
      /\ wire'[v] = IF v \in closing THEN [wire[v] EXCEPT ![d] = <<>>] ELSE wire[v]
      /\ out'[v] = IF v \in closing THEN [out[v] EXCEPT ![u] = <<>>] ELSE out[v]
      /\ buffer'[v] = IF v \in closing THEN [buffer[v] EXCEPT ![d] = <<>>] ELSE buffer[v]
  BY <1>1
<1>6. /\ wire[v] \in [Directions -> Seq(CellSet)] /\ out[v] \in [Directions -> Seq(CellSet)]
      /\ buffer[v] \in [Directions -> Seq(CellSet)]
  BY DEF ConnTyped
<1>7. CASE v \in closing /\ Reader[e] = s
  BY <1>2, <1>3, <1>5, <1>6, <1>7
<1>8. CASE v \in closing /\ Reader[e] # s
  BY <1>2, <1>4, <1>5, <1>6, <1>8
<1>9. CASE v \notin closing
  BY <1>2, <1>5, <1>9
<1> QED BY <1>7, <1>8, <1>9

\* The ends after a close.
LEMMA CloseEnds ==
    ASSUME ConnTyped, NEW s \in Sides, NEW W, Close(s, W), NEW v \in Workers
    PROVE  /\ end'[v] \in [coordinator : Ends, worker : Ends]
           /\ \A t \in Sides : end'[v][t] = IF t = s /\ Closing(s, W, v) THEN "Closed" ELSE end[v][t]
<1>1. end[v] \in [coordinator : Ends, worker : Ends]
  BY DEF ConnTyped
<1>2. end'[v] = IF Closing(s, W, v) THEN [end[v] EXCEPT ![s] = "Closed"] ELSE end[v]
  BY DirectionsDef, CloseDef, SMTT(60)
<1>3. CASE Closing(s, W, v)
  BY <1>1, <1>2, <1>3 DEF Sides, Ends
<1>4. CASE ~Closing(s, W, v)
  BY <1>1, <1>2, <1>4
<1> QED BY <1>3, <1>4

\* The streams after a close.  The process that closes may have taken a frame.
LEMMA CloseStreams ==
    ASSUME ConnTyped, NEW s \in Sides, NEW W, Close(s, W), sent' = sent, damages' = damages,
           \A v \in Workers : \A e \in Directions : \E off, b :
              /\ Carries(off, sent[v][e], got'[v][e], b, wire[v][e], out[v][e], ReadEnd(v, e),
                         WriteEnd(v, e), damages)
              /\ b = buffer[v][e] \/ (Reader[e] = s /\ Closing(s, W, v))
    PROVE  Streams'
<1> SUFFICES ASSUME NEW v \in Workers, NEW e \in Directions PROVE Stream(v, e)'
  BY DEF Streams
<1>1. PICK off, b :
         /\ Carries(off, sent[v][e], got'[v][e], b, wire[v][e], out[v][e], ReadEnd(v, e),
                    WriteEnd(v, e), damages)
         /\ b = buffer[v][e] \/ (Reader[e] = s /\ Closing(s, W, v))
  OBVIOUS
<1>2. /\ Reader[e] \in Sides /\ Writer[e] \in Sides /\ Reader[e] # Writer[e]
  BY DirectionsDef DEF Sides
<1>3. /\ end'[v][Reader[e]] = IF Reader[e] = s /\ Closing(s, W, v) THEN "Closed" ELSE end[v][Reader[e]]
      /\ end'[v][Writer[e]] = IF Writer[e] = s /\ Closing(s, W, v) THEN "Closed" ELSE end[v][Writer[e]]
  BY <1>2, CloseEnds
<1>4. CASE ~Closing(s, W, v)
  <2>1. ReadEnd(v, e)' = ReadEnd(v, e) /\ WriteEnd(v, e)' = WriteEnd(v, e) /\ b = buffer[v][e]
    BY <1>1, <1>3, <1>4 DEF ReadEnd, WriteEnd
  <2>2. wire'[v][e] = wire[v][e] /\ out'[v][e] = out[v][e] /\ buffer'[v][e] = buffer[v][e]
    BY <1>4, CloseDef
  <2> QED BY <1>1, <2>1, <2>2, StreamNow
<1>5. CASE Closing(s, W, v) /\ Reader[e] = s
  <2>1. ReadEnd(v, e)' = "Closed" /\ WriteEnd(v, e)' = WriteEnd(v, e)
    BY <1>2, <1>3, <1>5 DEF ReadEnd, WriteEnd
  <2>2. wire'[v][e] = <<>> /\ out'[v][e] = out[v][e] /\ buffer'[v][e] = <<>>
    BY <1>5, CloseDef
  <2>3. Carries(off, sent[v][e], got'[v][e], <<>>, <<>>, out[v][e], "Closed", WriteEnd(v, e), damages)
    BY <1>1, CarriesReaderCloses
  <2> QED BY <2>1, <2>2, <2>3, StreamNow
<1>6. CASE Closing(s, W, v) /\ Reader[e] # s
  <2>1. ReadEnd(v, e)' = ReadEnd(v, e) /\ WriteEnd(v, e)' = "Closed" /\ b = buffer[v][e]
    BY <1>1, <1>2, <1>3, <1>6 DEF ReadEnd, WriteEnd, Sides
  <2>2. wire'[v][e] = wire[v][e] /\ out'[v][e] = <<>> /\ buffer'[v][e] = buffer[v][e]
    BY <1>6, CloseDef
  <2>3. Carries(off, sent[v][e], got'[v][e], b, wire[v][e], <<>>, ReadEnd(v, e), "Closed", damages)
    BY <1>1, CarriesWriterCloses
  <2> QED BY <2>1, <2>2, <2>3, StreamNow
<1> QED BY <1>4, <1>5, <1>6

\* The types of what a close changes.
LEMMA CloseTypes ==
    ASSUME ConnTyped, NEW s \in Sides, NEW W, Close(s, W)
    PROVE  /\ out' \in [Workers -> [Directions -> Seq(CellSet)]]
           /\ wire' \in [Workers -> [Directions -> Seq(CellSet)]]
           /\ buffer' \in [Workers -> [Directions -> Seq(CellSet)]]
           /\ end' \in [Workers -> [coordinator : Ends, worker : Ends]]
<1>1. <<>> \in Seq(CellSet)
  BY SMTT(60)
<1>2. /\ out \in [Workers -> [Directions -> Seq(CellSet)]]
      /\ wire \in [Workers -> [Directions -> Seq(CellSet)]]
      /\ buffer \in [Workers -> [Directions -> Seq(CellSet)]]
  BY DEF ConnTyped
<1>3. ASSUME NEW F \in [Workers -> [Directions -> Seq(CellSet)]], NEW C, NEW d
      PROVE  [w \in Workers |-> IF w \in C THEN [F[w] EXCEPT ![d] = <<>>] ELSE F[w]]
                 \in [Workers -> [Directions -> Seq(CellSet)]]
  BY <1>1
<1>4. /\ out' \in [Workers -> [Directions -> Seq(CellSet)]]
      /\ wire' \in [Workers -> [Directions -> Seq(CellSet)]]
      /\ buffer' \in [Workers -> [Directions -> Seq(CellSet)]]
  BY <1>2, <1>3, SMTT(60) DEF Close
<1>5. DOMAIN end' = Workers /\ end' = [w \in Workers |-> end'[w]]
  BY DEF Close
<1>6. end' \in [Workers -> [coordinator : Ends, worker : Ends]]
  BY <1>5, CloseEnds
<1> QED BY <1>4, <1>6

\* What resets a close sends.
LEMMA CloseResets ==
    ASSUME ConnTyped, NEW s \in Sides, NEW W, Close(s, W), NEW v \in Workers, NEW e \in Directions,
           <<v, e>> \in resets => WriteEnd(v, e) = "Closed"
    PROVE  <<v, e>> \in resets' => WriteEnd(v, e)' = "Closed"
<1>1. /\ Reader[e] \in Sides /\ Writer[e] \in Sides /\ Reader[e] # Writer[e]
  BY DirectionsDef DEF Sides
<1>2. end'[v][Writer[e]] = IF Writer[e] = s /\ Closing(s, W, v) THEN "Closed" ELSE end[v][Writer[e]]
  BY <1>1, CloseEnds, SMTT(60)
<1>3. <<v, e>> \in resets' => <<v, e>> \in resets \/ (Closing(s, W, v) /\ Writer[e] = s)
  BY DirectionsDef DEF Close, Closing, Sides
<1> QED BY <1>2, <1>3 DEF WriteEnd

\* The frame that next() returns is the next one sent.
LEMMA TakeStream ==
    ASSUME ConnTyped, Streams, NEW w \in Workers, NEW d \in Directions,
           next(buffer[w][d]).status = "Frame", NEW m, m = next(buffer[w][d]).frame
    PROVE  /\ Len(got[w][d]) + 1 \in 1..Len(sent[w][d]) /\ m = sent[w][d][Len(got[w][d]) + 1]
           /\ m \in Messages /\ next(buffer[w][d]).rest \in Seq(CellSet)
           /\ Append(got[w][d], m) \in Seq(Messages)
           /\ \E off : Carries(off, sent[w][d], Append(got[w][d], m), next(buffer[w][d]).rest,
                               wire[w][d], out[w][d], ReadEnd(w, d), WriteEnd(w, d), damages)
<1>1. PICK off : Carries(off, sent[w][d], got[w][d], buffer[w][d], wire[w][d], out[w][d],
                         ReadEnd(w, d), WriteEnd(w, d), damages)
  BY DEF Streams, Stream
<1>2. /\ Len(got[w][d]) + 1 \in 1..Len(sent[w][d]) /\ m = sent[w][d][Len(got[w][d]) + 1]
      /\ Carries(off, sent[w][d], Append(got[w][d], m), next(buffer[w][d]).rest,
                 wire[w][d], out[w][d], ReadEnd(w, d), WriteEnd(w, d), damages)
  BY <1>1, CarriesTake, SMTT(60)
<1>3. /\ next(buffer[w][d]).rest \in Seq(CellSet) /\ Append(got[w][d], m) \in Seq(Messages)
      /\ sent[w][d] \in Seq(Messages)
  BY <1>2, CarriesTypes
<1>4. m \in Messages
  BY <1>2, <1>3, SMTT(60)
<1> QED BY <1>2, <1>3, <1>4

\* Without damage a reader meets no offence.
LEMMA NoOffence ==
    ASSUME ConnTyped, Streams, NEW w \in Workers, NEW d \in Directions, damages = 0
    PROVE  ~Offends(w, d)
<1>1. PICK off : Carries(off, sent[w][d], got[w][d], buffer[w][d], wire[w][d], out[w][d],
                         ReadEnd(w, d), WriteEnd(w, d), 0)
  BY DEF Streams, Stream
<1>2. /\ next(buffer[w][d]).status # "Error"
      /\ \A k \in Nat : next(buffer[w][d]).status = "None" /\ k <= ReadSize => ~push_refuses(buffer[w][d], k)
  BY <1>1, CarriesSound
<1>3. Len(wire[w][d]) \in Nat /\ ReadSize \in Nat
  BY <1>1, CarriesTypes, FramingAssumption
<1>4. Received(w, d) \in Nat /\ Received(w, d) <= ReadSize
  BY <1>3, SMTT(60) DEF Received
<1> QED BY <1>2, <1>4 DEF Offends, Waits

-----------------------------------------------------------------------------
(***************************************************************************)
(* A worker ends                                                           *)
(***************************************************************************)

\* Worker w ends, and may have taken a last frame.
LEMMA WorkerEnds ==
    ASSUME ConnInv, NEW w \in Workers,
           NEW code \in {"Shutdown", "Refused", "Failed", "Closed", "Killed"}, Exit(w, code),
           UNCHANGED <<pc, coordinatorVars, launch, sent, damages>>, killed \subseteq killed',
           NoFalseAlarm',
           \/ got' = got
           \/ /\ Reading(w) /\ next(buffer[w]["down"]).status = "Frame"
              /\ got' = [got EXCEPT ![w]["down"] = Append(@, next(buffer[w]["down"]).frame)]
    PROVE  ConnInv'
<1>1. /\ ConnTyped /\ Streams /\ Contact(w) /\ wpc' = [wpc EXCEPT ![w] = code]
      /\ job' = [job EXCEPT ![w] = 0] /\ Close("worker", {w}) /\ "worker" \in Sides
      /\ "down" \in Directions /\ got \in [Workers -> [Directions -> Seq(Messages)]]
  BY DirectionsDef DEF ConnInv, Exit, Sides, ConnTyped
<1>2. Reading(w) => end[w].worker = "Open" /\ Closing("worker", {w}, w)
  BY <1>1 DEF Contact, Reading, Busy, Closing
<1>3. /\ got' \in [Workers -> [Directions -> Seq(Messages)]]
      /\ \A v \in Workers : \A e \in Directions :
            got'[v][e] = got[v][e] \/ (v = w /\ e = "down" /\ Reading(w))
      /\ got'[w]["down"] # got[w]["down"] =>
            \E off : Carries(off, sent[w]["down"], got'[w]["down"], next(buffer[w]["down"]).rest,
                             wire[w]["down"], out[w]["down"], ReadEnd(w, "down"),
                             WriteEnd(w, "down"), damages)
  <2>1. CASE got' = got
    BY <1>1, <2>1
  <2>2. CASE got' # got
    <3>1. PICK m : m = next(buffer[w]["down"]).frame
      OBVIOUS
    <3>2. PICK G : G = Append(got[w]["down"], m)
      OBVIOUS
    <3>3. Reading(w) /\ next(buffer[w]["down"]).status = "Frame" /\ got' = [got EXCEPT ![w]["down"] = G]
      BY <2>2, <3>1, <3>2
    <3>4. /\ G \in Seq(Messages)
          /\ \E off : Carries(off, sent[w]["down"], G, next(buffer[w]["down"]).rest,
                              wire[w]["down"], out[w]["down"], ReadEnd(w, "down"),
                              WriteEnd(w, "down"), damages)
      BY <1>1, <3>1, <3>2, <3>3, TakeStream
    <3>5. /\ got' \in [Workers -> [Directions -> Seq(Messages)]] /\ got'[w]["down"] = G
          /\ \A v \in Workers : \A e \in Directions : ~(v = w /\ e = "down") => got'[v][e] = got[v][e]
      <4>1. /\ got' = [got EXCEPT ![w]["down"] = G] /\ G \in Seq(Messages)
            /\ got \in [Workers -> [Directions -> Seq(Messages)]] /\ "down" \in Directions
        BY <1>1, <3>3, <3>4
      <4> QED BY <4>1
    <3> QED BY <3>3, <3>4, <3>5
  <2> QED BY <2>1, <2>2
<1>4. Streams'
  <2> SUFFICES ASSUME NEW v \in Workers, NEW e \in Directions
               PROVE  \E off, b :
                  /\ Carries(off, sent[v][e], got'[v][e], b, wire[v][e], out[v][e], ReadEnd(v, e),
                             WriteEnd(v, e), damages)
                  /\ b = buffer[v][e] \/ (Reader[e] = "worker" /\ Closing("worker", {w}, v))
    BY <1>1, CloseStreams
  <2>1. CASE got'[v][e] = got[v][e]
    <3>1. Stream(v, e)
      BY <1>1 DEF Streams
    <3> QED BY <2>1, <3>1 DEF Stream
  <2>2. CASE got'[v][e] # got[v][e]
    <3>1. v = w /\ e = "down" /\ Closing("worker", {w}, w) /\ Reader[e] = "worker"
      BY <1>2, <1>3, <2>2, DirectionsDef
    <3>2. PICK off : Carries(off, sent[v][e], got'[v][e], next(buffer[v][e]).rest, wire[v][e], out[v][e],
                             ReadEnd(v, e), WriteEnd(v, e), damages)
      BY <1>3, <2>2, <3>1
    <3> QED BY <3>1, <3>2
  <2> QED BY <2>1, <2>2
<1>5. ConnTyped'
  <2>1. /\ wpc' \in [Workers -> {"Start", "Greeting", "Serving", "Starting", "Absent", "Shutdown",
                            "Unreachable", "Refused", "Failed", "Closed", "Killed"}]
        /\ job' \in [Workers -> Nat]
    BY <1>1 DEF ConnTyped
  <2>2. /\ out' \in [Workers -> [Directions -> Seq(CellSet)]]
        /\ wire' \in [Workers -> [Directions -> Seq(CellSet)]]
        /\ buffer' \in [Workers -> [Directions -> Seq(CellSet)]]
        /\ end' \in [Workers -> [coordinator : Ends, worker : Ends]]
    BY <1>1, CloseTypes
  <2> QED BY <1>1, <1>3, <2>1, <2>2 DEF ConnTyped
<1>6. Queue' /\ Cause' /\ AckedOnce'
  BY DEF ConnInv, Queue, Cause, Launched, AckedOnce, Acked, identity
<1>7. ASSUME NEW v \in Workers PROVE Contact(v)' /\ Speech(v)'
  <2>1. /\ end'[v].worker = IF Closing("worker", {w}, v) THEN "Closed" ELSE end[v].worker
        /\ end'[v].coordinator = end[v].coordinator
        /\ Closing("worker", {w}, v) => v = w /\ end[v].worker # "None"
    BY <1>1, CloseEnds DEF Sides, Closing
  <2>2. Contact(v) /\ Speech(v)
    BY DEF ConnInv
  <2>3. v # w => wpc'[v] = wpc[v] /\ \A e \in Directions : got'[v][e] = got[v][e]
    BY <1>1, <1>3 DEF ConnTyped
  <2>4. wpc'[w] = code /\ got'[v]["up"] = got[v]["up"]
    BY <1>1, <1>3, DirectionsDef, SMTT(60) DEF ConnTyped
  <2>5. Untouched(v)' <=> Untouched(v)
    BY <2>1 DEF Untouched
  <2>6. Untouched(v) => \A e \in Directions : got'[v][e] = got[v][e]
    BY <1>2, <1>3 DEF Untouched
  <2>7. \A e \in Directions : <<v, e>> \in resets' => WriteEnd(v, e)' = "Closed"
    BY <1>1, <2>2, CloseResets DEF Contact
  <2>8. Contact(v)'
    <3>1. Busy(v)' => v # w
      BY <2>4 DEF Busy
    <3>2. (wpc[v] = "Start" \/ wpc[v] = "Absent")' => v # w
      BY <2>4
    <3>3. v # w => ~Closing("worker", {w}, v)
      BY DEF Closing
    <3> QED BY <2>1, <2>2, <2>3, <2>5, <2>6, <2>7, <3>1, <3>2, <3>3 DEF Contact, Busy, Over, Launched
  <2>9. Speech(v)'
    <3>1. (wpc[v] = "Greeting" \/ Serves(v))' => v # w
      BY <2>4 DEF Serves
    <3> QED BY <2>2, <2>3, <2>4, <3>1, DirectionsDef DEF Speech, Greeted, Acked, Serves
  <2> QED BY <2>8, <2>9
<1> QED BY <1>4, <1>5, <1>6, <1>7 DEF ConnInv

\* The frame a worker takes has its place where the worker is.
LEMMA HeardFrame ==
    ASSUME ConnInv, NEW w \in Workers, Reading(w), next(buffer[w]["down"]).status = "Frame",
           NEW m, m = next(buffer[w]["down"]).frame
    PROVE  \/ wpc[w] = "Greeting" /\ m.type \in {"HelloAck", "HelloRefused"}
           \/ wpc[w] = "Serving" /\ m.type \in {"Dispatch", "Shutdown"}
<1>1. ConnTyped /\ Streams /\ Speech(w) /\ "down" \in Directions
  BY DirectionsDef DEF ConnInv
<1>2. PICK i : i = Len(got[w]["down"]) + 1
  OBVIOUS
<1>3. i \in 1..Len(sent[w]["down"]) /\ m = sent[w]["down"][i]
  BY <1>1, <1>2, TakeStream
<1>4. Len(got[w]["down"]) \in Nat
  BY <1>1, SMTT(60) DEF ConnTyped
<1>5. m.type \in (IF i = 1 THEN {"HelloAck", "HelloRefused"} ELSE {"Dispatch", "Shutdown"})
  BY <1>1, <1>3 DEF Speech
<1>6. CASE wpc[w] = "Greeting"
  BY <1>1, <1>2, <1>5, <1>6, SMTT(60) DEF Speech
<1>7. CASE wpc[w] = "Serving"
  <2>1. Len(got[w]["down"]) > 0
    BY <1>1, <1>7 DEF Speech, Serves
  <2> QED BY <1>2, <1>4, <1>5, <1>7, <2>1, SMTT(60)
<1> QED BY <1>6, <1>7 DEF Reading

\* A worker ends on a protocol error.
LEMMA WorkerFailsInv ==
    ASSUME ConnInv, NEW w \in Workers, worker_fails(w)
    PROVE  ConnInv'
<1>1. /\ Offends(w, "down") /\ Exit(w, "Failed")
      /\ UNCHANGED <<pc, coordinatorVars, launch, sent, got, killed, damages>>
  BY DEF worker_fails
<1>2. damages # 0
  BY <1>1, NoOffence, DirectionsDef DEF ConnInv
<1>3. NoFalseAlarm'
  BY <1>1, <1>2 DEF NoFalseAlarm
<1> QED BY <1>1, <1>3, WorkerEnds

\* A worker takes a frame that ends it: a shutdown, a refusal, or one out of place.
LEMMA WorkerStopsInv ==
    ASSUME ConnInv, NEW w \in Workers, worker_stops(w)
    PROVE  ConnInv'
<1>1. PICK m : m = next(buffer[w]["down"]).frame
  OBVIOUS
<1>2. PICK code : code = Answer(w, m.type)
  OBVIOUS
<1>3. /\ Reading(w) /\ next(buffer[w]["down"]).status = "Frame"
      /\ code \in {"Refused", "Shutdown", "Failed"} /\ Exit(w, code)
      /\ got' = [got EXCEPT ![w]["down"] = Append(@, next(buffer[w]["down"]).frame)]
      /\ alarms' = IF code = "Failed" THEN alarms \cup {<<w, "down">>} ELSE alarms
      /\ UNCHANGED <<pc, coordinatorVars, launch, sent, killed, damages>>
  BY <1>1, <1>2 DEF worker_stops
<1>4. code # "Failed"
  <2>1. \/ wpc[w] = "Greeting" /\ m.type \in {"HelloAck", "HelloRefused"}
        \/ wpc[w] = "Serving" /\ m.type \in {"Dispatch", "Shutdown"}
    BY <1>1, <1>3, HeardFrame
  <2> QED BY <1>2, <2>1 DEF Answer
<1>5. NoFalseAlarm'
  BY <1>3, <1>4 DEF ConnInv, NoFalseAlarm
<1> QED BY <1>3, <1>5, WorkerEnds

\* The other ways a worker ends: it is cut off, gives up or is killed.
LEMMA WorkerGoneInv ==
    ASSUME ConnInv, NEW w \in Workers, worker_cut_off(w) \/ worker_gives_up(w) \/ worker_killed(w)
    PROVE  ConnInv'
<1>1. PICK code \in {"Failed", "Closed", "Killed"} : Exit(w, code)
  <2>1. CASE worker_cut_off(w)
    BY <2>1 DEF worker_cut_off
  <2>2. CASE worker_gives_up(w)
    BY <2>2 DEF worker_gives_up
  <2>3. CASE worker_killed(w)
    BY <2>3 DEF worker_killed
  <2> QED BY <2>1, <2>2, <2>3
<1>2. /\ UNCHANGED <<pc, coordinatorVars, launch, sent, got, alarms, damages>>
      /\ killed \subseteq killed'
  BY DEF worker_cut_off, worker_gives_up, worker_killed
<1>3. NoFalseAlarm'
  BY <1>2 DEF ConnInv, NoFalseAlarm
<1> QED BY <1>1, <1>2, <1>3, WorkerEnds

-----------------------------------------------------------------------------
(***************************************************************************)
(* The coordinator ends                                                    *)
(***************************************************************************)

\* The coordinator's process ends, and its sockets with it.
LEMMA CoordinatorEnds ==
    ASSUME ConnInv, pc' \in {"Done", "Failed"}, Close("coordinator", Workers),
           UNCHANGED <<coordinatorVars, launch, workerVars, sent, got, damages>>, NoFalseAlarm', Cause',
           pc' = "Done" => pc = "Stop"
    PROVE  ConnInv'
<1>1. ConnTyped /\ Streams /\ "coordinator" \in Sides
  BY DEF ConnInv, Sides
<1>2. Streams'
  <2> SUFFICES ASSUME NEW v \in Workers, NEW e \in Directions
               PROVE  \E off, b :
                  /\ Carries(off, sent[v][e], got'[v][e], b, wire[v][e], out[v][e], ReadEnd(v, e),
                             WriteEnd(v, e), damages)
                  /\ b = buffer[v][e] \/ (Reader[e] = "coordinator" /\ Closing("coordinator", Workers, v))
    BY <1>1, CloseStreams
  <2>1. Stream(v, e)
    BY <1>1 DEF Streams
  <2> QED BY <2>1 DEF Stream
<1>3. ConnTyped'
  <2>1. /\ out' \in [Workers -> [Directions -> Seq(CellSet)]]
        /\ wire' \in [Workers -> [Directions -> Seq(CellSet)]]
        /\ buffer' \in [Workers -> [Directions -> Seq(CellSet)]]
        /\ end' \in [Workers -> [coordinator : Ends, worker : Ends]]
    BY <1>1, CloseTypes
  <2> QED BY <1>1, <2>1 DEF ConnTyped
<1>4. Queue' /\ AckedOnce'
  BY DEF ConnInv, Queue, AckedOnce, Acked, identity
<1>5. ASSUME NEW v \in Workers PROVE Contact(v)' /\ Speech(v)'
  <2>1. /\ end'[v].coordinator =
              IF Closing("coordinator", Workers, v) THEN "Closed" ELSE end[v].coordinator
        /\ end'[v].worker = end[v].worker
        /\ Closing("coordinator", Workers, v) => end[v].coordinator # "None"
    BY <1>1, CloseEnds DEF Sides, Closing
  <2>2. Contact(v) /\ Speech(v)
    BY DEF ConnInv
  <2>3. \A e \in Directions : <<v, e>> \in resets' => WriteEnd(v, e)' = "Closed"
    BY <1>1, <2>2, CloseResets DEF Contact
  <2>4. Contact(v)'
    <3>1. Untouched(v)' <=> Untouched(v)
      BY <2>1 DEF Untouched
    <3>2. Untouched(v) => end'[v].coordinator = "None"
      BY <2>1, <2>2 DEF Contact
    <3>3. Over'
      BY DEF Over
    <3> QED BY <2>1, <2>2, <2>3, <3>1, <3>2, <3>3 DEF Contact, Busy, Launched
  <2>5. Speech(v)'
    <3>1. Greeted(v) => Greeted(v)'
      BY DEF Greeted, ConnInv, Queue
    <3> QED BY <2>2, <3>1 DEF Speech, Acked, Serves
  <2> QED BY <2>4, <2>5
<1> QED BY <1>2, <1>3, <1>4, <1>5 DEF ConnInv

\* The handshake fails, and ends the run.
LEMMA GreetingFailsInv ==
    ASSUME ConnInv, greeting_fails
    PROVE  ConnInv'
<1>1. /\ pc \in {"Greet", "Ack", "Reject"} /\ pc' = "Failed" /\ Close("coordinator", Workers)
      /\ alarms' = IF pc = "Greet" /\ Offends(candidate, "up")
                   THEN alarms \cup {<<candidate, "up">>} ELSE alarms
      /\ UNCHANGED <<coordinatorVars, launch, workerVars, sent, got, killed, damages>>
  BY DEF greeting_fails, Fail
<1>2. candidate \in Workers /\ peer[candidate] = "None" /\ ConnTyped /\ Streams
  BY <1>1 DEF ConnInv, Queue
<1>3. damages = 0 => ~Offends(candidate, "up")
  BY <1>2, NoOffence, DirectionsDef
<1>4. NoFalseAlarm'
  BY <1>1, <1>3 DEF ConnInv, NoFalseAlarm
<1>5. candidate \in Launched
  BY <1>2 DEF ConnInv, Contact
<1>6. Cause'
  BY <1>1, <1>2, <1>5 DEF Cause, Launched
<1> QED BY <1>1, <1>4, <1>6, CoordinatorEnds

\* The coordinator dies, of a send or of a kill.
LEMMA CoordinatorDiesInv ==
    ASSUME ConnInv, send_signals \/ coordinator_killed
    PROVE  ConnInv'
<1>1. /\ pc' = "Failed" /\ Close("coordinator", Workers)
      /\ UNCHANGED <<coordinatorVars, launch, workerVars, sent, got, alarms, damages>>
      /\ launch.signals \/ NoWorker \in killed'
  BY DEF send_signals, coordinator_killed, Fail
<1>2. NoFalseAlarm' /\ Cause'
  BY <1>1 DEF ConnInv, NoFalseAlarm, Cause
<1> QED BY <1>1, <1>2, CoordinatorEnds

\* The coordinator ends the run and closes its connections.
LEMMA ExitInv ==
    ASSUME ConnInv, exit
    PROVE  ConnInv'
<1>1. /\ pc = "Stop" /\ pc' = "Done" /\ Close("coordinator", Workers)
      /\ UNCHANGED <<coordinatorVars, launch, workerVars, sent, got, alarms, killed, damages>>
  BY DEF exit
<1>2. NoFalseAlarm' /\ Cause'
  BY <1>1 DEF ConnInv, NoFalseAlarm, Cause
<1> QED BY <1>1, <1>2, CoordinatorEnds

-----------------------------------------------------------------------------
(***************************************************************************)
(* Frames sent and taken                                                   *)
(***************************************************************************)

\* The frames of the protocol.
LEMMA FrameType ==
    ASSUME NEW t \in DOMAIN Lengths, NEW a \in Nat
    PROVE  /\ Frame(t, a) \in Messages /\ Frame(t, a).type = t /\ Frame(t, a).type # "Damaged"
           /\ Frame(t, a).length <= MaxPayload
<1>1. Lengths[t] \in Nat /\ t # "Damaged"
  BY SMTT(60) DEF Lengths
<1>2. Lengths[t] <= MaxPayload
  BY LengthsAssumption
<1> QED BY <1>1, <1>2 DEF Frame, Messages

\* What Send changes.
LEMMA SendDef ==
    ASSUME ConnTyped, NEW w \in Workers, NEW d \in Directions, NEW m \in Messages, Send(w, d, m)
    PROVE  /\ out' \in [Workers -> [Directions -> Seq(CellSet)]]
           /\ sent' \in [Workers -> [Directions -> Seq(Messages)]]
           /\ out'[w][d] = encode_frame(m) /\ sent'[w][d] = Append(sent[w][d], m)
           /\ \A v \in Workers : \A e \in Directions :
                 ~(v = w /\ e = d) => out'[v][e] = out[v][e] /\ sent'[v][e] = sent[v][e]
<1>1. /\ out \in [Workers -> [Directions -> Seq(CellSet)]]
      /\ sent \in [Workers -> [Directions -> Seq(Messages)]]
  BY DEF ConnTyped
<1>2. PICK o, s : o = encode_frame(m) /\ s = Append(sent[w][d], m)
  OBVIOUS
<1>3. s \in Seq(Messages)
  BY <1>1, <1>2, SMTT(60)
<1>4. o \in Seq(CellSet)
  <2>1. m.length \in Nat /\ kFrameOverhead \in Nat
    BY FramingAssumption, SMTT(60) DEF Messages, kFrameOverhead
  <2>2. o = [i \in 1..(kFrameOverhead + m.length) |-> [frame |-> m, at |-> i]]
    BY <1>2 DEF encode_frame
  <2>3. \A i \in 1..(kFrameOverhead + m.length) : [frame |-> m, at |-> i] \in CellSet
    BY <2>1, SMTT(60) DEF CellSet
  <2>4. kFrameOverhead + m.length \in Nat
    BY <2>1, SMTT(60)
  <2> QED BY <2>2, <2>3, <2>4, SMTT(60)
<1>5. out' = [out EXCEPT ![w][d] = o] /\ sent' = [sent EXCEPT ![w][d] = s]
  BY <1>2 DEF Send
<1>6. /\ out' \in [Workers -> [Directions -> Seq(CellSet)]] /\ out'[w][d] = o
      /\ \A v \in Workers : \A e \in Directions : ~(v = w /\ e = d) => out'[v][e] = out[v][e]
  <2>1. out' = [out EXCEPT ![w][d] = o] /\ out \in [Workers -> [Directions -> Seq(CellSet)]]
    BY <1>1, <1>5
  <2> QED BY <1>4, <2>1
<1>7. /\ sent' \in [Workers -> [Directions -> Seq(Messages)]] /\ sent'[w][d] = s
      /\ \A v \in Workers : \A e \in Directions : ~(v = w /\ e = d) => sent'[v][e] = sent[v][e]
  <2>1. sent' = [sent EXCEPT ![w][d] = s] /\ sent \in [Workers -> [Directions -> Seq(Messages)]]
    BY <1>1, <1>5
  <2> QED BY <1>3, <2>1
<1> QED BY <1>2, <1>6, <1>7

\* The stream that a frame is sent on.
LEMMA SendStream ==
    ASSUME ConnTyped, Streams, NEW w \in Workers, NEW d \in Directions, NEW m \in Messages,
           Send(w, d, m), m.type # "Damaged", m.length <= MaxPayload,
           out[w][d] = <<>> \/ ReadEnd(w, d) = "Closed", WriteEnd(w, d) # "Closed",
           got'[w][d] = got[w][d], buffer'[w][d] = buffer[w][d], wire'[w][d] = wire[w][d],
           damages' = damages, WriteEnd(w, d)' # "Closed",
           ReadEnd(w, d)' = "Closed" <=> ReadEnd(w, d) = "Closed"
    PROVE  Stream(w, d)'
<1>1. PICK off : Carries(off, sent[w][d], got[w][d], buffer[w][d], wire[w][d], out[w][d],
                         ReadEnd(w, d), WriteEnd(w, d), damages)
  BY DEF Streams, Stream
<1>2. Carries(off, sent[w][d], got[w][d], buffer[w][d], wire[w][d], <<>>,
              ReadEnd(w, d), WriteEnd(w, d), damages)
  <2> PICK p : p = <<>>
    OBVIOUS
  <2>1. p = <<>> /\ p \in Seq(CellSet)
    BY SMTT(60)
  <2>2. CASE out[w][d] = <<>>
    BY <1>1, <2>2
  <2>3. CASE ReadEnd(w, d) = "Closed"
    <3>1. Carries(off, sent[w][d], got[w][d], buffer[w][d], wire[w][d], out[w][d], "Closed",
                  WriteEnd(w, d), damages)
      BY <1>1, <2>3
    <3>2. Carries(off, sent[w][d], got[w][d], buffer[w][d], wire[w][d], p, "Closed",
                  WriteEnd(w, d), damages)
      BY <2>1, <3>1, CarriesVanish
    <3> QED BY <2>1, <2>3, <3>2
  <2> QED BY <2>2, <2>3
<1>3. PICK f : Carries(f, Append(sent[w][d], m), got[w][d], buffer[w][d], wire[w][d], encode_frame(m),
                       ReadEnd(w, d), WriteEnd(w, d), damages)
  BY <1>2, CarriesSend
<1>4. PICK re, we : re = ReadEnd(w, d)' /\ we = WriteEnd(w, d)'
  OBVIOUS
<1>5. Carries(f, Append(sent[w][d], m), got[w][d], buffer[w][d], wire[w][d], encode_frame(m),
              re, we, damages)
  BY <1>3, <1>4, CarriesHalf
<1>6. out'[w][d] = encode_frame(m) /\ sent'[w][d] = Append(sent[w][d], m)
  BY SendDef
<1> QED BY <1>4, <1>5, <1>6, StreamNow

\* The frame m taken from a stream is the next one that was sent.
TakesNext(w, d, m) ==
    /\ got'[w][d] = Append(got[w][d], m)
    /\ Len(got[w][d]) + 1 \in 1..Len(sent[w][d]) /\ m = sent[w][d][Len(got[w][d]) + 1]

\* The stream that a frame is taken from.
LEMMA TakenDef ==
    ASSUME ConnTyped, Streams, NEW w \in Workers, NEW d \in Directions, Taken(w, d),
           NEW m, m = next(buffer[w][d]).frame
    PROVE  /\ buffer' \in [Workers -> [Directions -> Seq(CellSet)]]
           /\ got' \in [Workers -> [Directions -> Seq(Messages)]]
           /\ TakesNext(w, d, m)
           /\ \A v \in Workers : \A e \in Directions :
                 ~(v = w /\ e = d) => buffer'[v][e] = buffer[v][e] /\ got'[v][e] = got[v][e]
           /\ /\ sent'[w][d] = sent[w][d] /\ wire'[w][d] = wire[w][d] /\ out'[w][d] = out[w][d]
              /\ ReadEnd(w, d)' = ReadEnd(w, d) /\ WriteEnd(w, d)' = WriteEnd(w, d)
              /\ damages' = damages
              => Stream(w, d)'
<1>1. /\ buffer \in [Workers -> [Directions -> Seq(CellSet)]]
      /\ got \in [Workers -> [Directions -> Seq(Messages)]]
      /\ next(buffer[w][d]).status = "Frame"
  BY DEF ConnTyped, Taken
<1>2. PICK b, g : b = next(buffer[w][d]).rest /\ g = Append(got[w][d], m)
  OBVIOUS
<1>3. /\ Len(got[w][d]) + 1 \in 1..Len(sent[w][d]) /\ m = sent[w][d][Len(got[w][d]) + 1]
      /\ b \in Seq(CellSet) /\ g \in Seq(Messages)
      /\ \E off : Carries(off, sent[w][d], g, b, wire[w][d], out[w][d], ReadEnd(w, d),
                          WriteEnd(w, d), damages)
  BY <1>1, <1>2, TakeStream
<1>4. buffer' = [buffer EXCEPT ![w][d] = b] /\ got' = [got EXCEPT ![w][d] = g]
  BY <1>2 DEF Taken
<1>5. /\ buffer' \in [Workers -> [Directions -> Seq(CellSet)]] /\ buffer'[w][d] = b
      /\ \A v \in Workers : \A e \in Directions : ~(v = w /\ e = d) => buffer'[v][e] = buffer[v][e]
  <2>1. /\ buffer' = [buffer EXCEPT ![w][d] = b] /\ b \in Seq(CellSet)
        /\ buffer \in [Workers -> [Directions -> Seq(CellSet)]]
    BY <1>1, <1>3, <1>4
  <2> QED BY <2>1
<1>6. /\ got' \in [Workers -> [Directions -> Seq(Messages)]] /\ got'[w][d] = g
      /\ \A v \in Workers : \A e \in Directions : ~(v = w /\ e = d) => got'[v][e] = got[v][e]
  <2>1. /\ got' = [got EXCEPT ![w][d] = g] /\ g \in Seq(Messages)
        /\ got \in [Workers -> [Directions -> Seq(Messages)]]
    BY <1>1, <1>3, <1>4
  <2> QED BY <2>1
<1>7. ASSUME /\ sent'[w][d] = sent[w][d] /\ wire'[w][d] = wire[w][d] /\ out'[w][d] = out[w][d]
             /\ ReadEnd(w, d)' = ReadEnd(w, d) /\ WriteEnd(w, d)' = WriteEnd(w, d)
             /\ damages' = damages
      PROVE  Stream(w, d)'
  BY <1>3, <1>5, <1>6, <1>7, StreamNow
<1>8. TakesNext(w, d, m)
  BY <1>2, <1>3, <1>6 DEF TakesNext
<1> QED BY <1>5, <1>6, <1>7, <1>8

-----------------------------------------------------------------------------
(***************************************************************************)
(* A worker at work                                                        *)
(***************************************************************************)

\* Nothing was sent, so nothing is left to write.
LEMMA FreshOut ==
    ASSUME NEW off, NEW S, NEW G, NEW b, NEW x, NEW o, NEW re, NEW we, NEW hurt,
           Carries(off, S, G, b, x, o, re, we, hurt), Len(S) = 0, re # "Closed", we # "Closed"
    PROVE  o = <<>>
<1>1. /\ Len(G) = 0 /\ Len(b) \in Nat /\ Len(x) \in Nat /\ Len(o) \in Nat /\ o \in Seq(CellSet)
      /\ off[Len(S) + 1] \in Nat
  BY CarriesTypes, SMTT(60)
<1>2. off[Len(G) + 1] + Len(b) + Len(x) + Len(o) = off[Len(S) + 1]
  BY DEF Carries
<1>3. Len(o) = 0
  BY <1>1, <1>2, SMTT(60)
<1> QED BY <1>1, <1>3, SMTT(60)

\* A worker connects and says Hello.
LEMMA ConnectInv ==
    ASSUME ConnInv, NEW w \in Workers, connect(w)
    PROVE  ConnInv'
<1>1. /\ wpc[w] = "Start" /\ ~Over /\ wpc' = [wpc EXCEPT ![w] = "Greeting"]
      /\ end' = [end EXCEPT ![w] = [coordinator |-> "Open", worker |-> "Open"]]
      /\ backlog' = Append(backlog, w) /\ Send(w, "up", Frame("Hello", 0))
      /\ UNCHANGED <<pc, candidate, peer, attempts, dispatches, launch, job, wire, buffer, got,
                     resets, alarms, killed, damages>>
  BY DEF connect, Over
<1>2. /\ ConnTyped /\ Streams /\ Contact(w) /\ Speech(w) /\ Queue /\ "up" \in Directions
      /\ "down" \in Directions
  BY DirectionsDef DEF ConnInv
<1>3. PICK m : m = Frame("Hello", 0)
  OBVIOUS
<1>4. m \in Messages /\ m.type = "Hello" /\ m.type # "Damaged" /\ m.length <= MaxPayload
  BY <1>3, FrameType DEF Lengths
<1>5. /\ Untouched(w) /\ end[w].worker = "None" /\ end[w].coordinator = "None" /\ peer[w] = "None"
      /\ w # candidate /\ \A i \in 1..Len(backlog) : backlog[i] # w
      /\ \A d \in Directions : Len(sent[w][d]) = 0 /\ Len(got[w][d]) = 0
      /\ w \in Launched
  BY <1>1, <1>2 DEF Contact, Untouched
<1>6. /\ out' \in [Workers -> [Directions -> Seq(CellSet)]]
      /\ sent' \in [Workers -> [Directions -> Seq(Messages)]]
      /\ sent'[w]["up"] = Append(sent[w]["up"], m)
      /\ \A v \in Workers : \A e \in Directions :
            ~(v = w /\ e = "up") => out'[v][e] = out[v][e] /\ sent'[v][e] = sent[v][e]
  BY <1>1, <1>2, <1>3, <1>4, SendDef
<1>7. /\ end'[w].coordinator = "Open" /\ end'[w].worker = "Open"
      /\ \A v \in Workers : v # w => end'[v] = end[v]
      /\ end' \in [Workers -> [coordinator : Ends, worker : Ends]]
  <2>1. [coordinator |-> "Open", worker |-> "Open"] \in [coordinator : Ends, worker : Ends]
    BY DEF Ends
  <2> QED BY <1>1, <1>2, <2>1 DEF ConnTyped
<1>8. \A d \in Directions : /\ ReadEnd(w, d) = "None" /\ WriteEnd(w, d) = "None"
                            /\ ReadEnd(w, d)' = "Open" /\ WriteEnd(w, d)' = "Open"
  BY <1>5, <1>7, DirectionsDef DEF ReadEnd, WriteEnd
<1>9. Streams'
  <2> SUFFICES ASSUME NEW v \in Workers, NEW e \in Directions PROVE Stream(v, e)'
    BY DEF Streams
  <2>1. PICK off : Carries(off, sent[v][e], got[v][e], buffer[v][e], wire[v][e], out[v][e],
                           ReadEnd(v, e), WriteEnd(v, e), damages)
    BY <1>2 DEF Streams, Stream
  <2>2. CASE v = w /\ e = "up"
    <3>1. out[w]["up"] = <<>>
      BY <1>5, <1>8, <2>1, <2>2, FreshOut
    <3>2. /\ WriteEnd(w, "up") # "Closed" /\ WriteEnd(w, "up")' # "Closed"
          /\ ReadEnd(w, "up")' = "Closed" <=> ReadEnd(w, "up") = "Closed"
      BY <1>2, <1>8
    <3> QED BY <1>1, <1>2, <1>3, <1>4, <2>2, <3>1, <3>2, SendStream
  <2>3. CASE v = w /\ e = "down"
    <3>1. Carries(off, sent[v][e], got[v][e], buffer[v][e], wire[v][e], out[v][e], "Open", "Open", damages)
      BY <1>8, <2>1, <2>3, CarriesHalf
    <3>2. out'[v][e] = out[v][e] /\ sent'[v][e] = sent[v][e]
      BY <1>6, <2>3, DirectionsDef
    <3> QED BY <1>1, <1>8, <2>3, <3>1, <3>2, StreamNow
  <2>4. CASE v # w
    <3>1. ReadEnd(v, e)' = ReadEnd(v, e) /\ WriteEnd(v, e)' = WriteEnd(v, e)
      BY <1>7, <2>4 DEF ReadEnd, WriteEnd
    <3>2. out'[v][e] = out[v][e] /\ sent'[v][e] = sent[v][e]
      BY <1>6, <2>4
    <3> QED BY <1>1, <2>1, <3>1, <3>2, StreamNow
  <2> QED BY <2>2, <2>3, <2>4, DirectionsDef
<1>10. ConnTyped'
  <2>1. /\ wpc' \in [Workers -> {"Start", "Greeting", "Serving", "Starting", "Absent", "Shutdown",
                                 "Unreachable", "Refused", "Failed", "Closed", "Killed"}]
        /\ backlog' \in Seq(Workers)
    BY <1>1, <1>2, SMTT(60) DEF ConnTyped
  <2> QED BY <1>1, <1>2, <1>6, <1>7, <2>1 DEF ConnTyped
<1>11. /\ Len(backlog) \in Nat /\ Len(backlog') = Len(backlog) + 1 /\ backlog'[Len(backlog) + 1] = w
       /\ \A i \in 1..Len(backlog) : backlog'[i] = backlog[i]
       /\ \A i \in 1..Len(backlog') : i \in 1..Len(backlog) \/ i = Len(backlog) + 1
  <2>1. backlog \in Seq(Workers) /\ Len(backlog) \in Nat
    BY <1>2, SMTT(60) DEF ConnTyped
  <2>2. /\ Len(backlog') = Len(backlog) + 1 /\ backlog'[Len(backlog) + 1] = w
        /\ \A i \in 1..Len(backlog) : backlog'[i] = backlog[i]
    <3>1. backlog' = Append(backlog, w)
      BY <1>1
    <3> QED BY <2>1, <3>1, Appended, SMTT(60)
  <2> QED BY <2>1, <2>2, SMTT(60)
<1>12. Queue'
  <2>1. pc' \in {"Greet", "Ack", "Reject"} => candidate' \in Workers /\ peer'[candidate'] = "None"
    BY <1>1, <1>2 DEF Queue
  <2>2. \A i \in 1..Len(backlog') : peer'[backlog'[i]] = "None" /\ backlog'[i] # candidate'
    BY <1>1, <1>2, <1>5, <1>11 DEF Queue
  <2>3. \A i, j \in 1..Len(backlog') : i # j => backlog'[i] # backlog'[j]
    BY <1>2, <1>5, <1>11 DEF Queue
  <2> QED BY <2>1, <2>2, <2>3 DEF Queue
<1>13. Cause' /\ NoFalseAlarm'
  BY <1>1 DEF ConnInv, Cause, NoFalseAlarm, Launched
<1>14. \A v \in Workers : sent'[v]["down"] = sent[v]["down"]
  BY <1>6, DirectionsDef
<1>15. AckedOnce'
  BY <1>1, <1>14 DEF ConnInv, AckedOnce, Acked, identity
<1>16. ASSUME NEW v \in Workers PROVE Contact(v)' /\ Speech(v)'
  <2>1. Contact(v) /\ Speech(v)
    BY DEF ConnInv
  <2>2. CASE v = w
    <3>1. wpc'[w] = "Greeting"
      BY <1>1, <1>2 DEF ConnTyped
    <3>2. Len(sent'[w]["up"]) > 0 /\ sent'[w]["up"][1] = m
      <4>1. sent[w]["up"] \in Seq(Messages) /\ Len(sent[w]["up"]) = 0
        BY <1>2, <1>5, SMTT(60) DEF ConnTyped
      <4> QED BY <1>4, <1>6, <4>1, SMTT(60)
    <3>3. \A d \in Directions : <<w, d>> \notin resets'
      BY <1>1, <1>2, <1>8 DEF Contact
    <3>4. Contact(w)'
      BY <1>1, <1>5, <1>7, <3>1, <3>2, <3>3 DEF Contact, Untouched, Busy, Launched
    <3>5. Speech(w)'
      BY <1>1, <1>2, <1>4, <1>5, <1>14, <3>1, <3>2 DEF Speech, Greeted, Acked, Serves
    <3> QED BY <2>2, <3>4, <3>5
  <2>3. CASE v # w
    <3>1. /\ wpc'[v] = wpc[v] /\ end'[v] = end[v]
          /\ \A e \in Directions : sent'[v][e] = sent[v][e]
      BY <1>1, <1>2, <1>6, <1>7, <2>3 DEF ConnTyped
    <3>2. Contact(v)'
      <4>1. (\A i \in 1..Len(backlog) : backlog[i] # v) => \A i \in 1..Len(backlog') : backlog'[i] # v
        BY <1>11, <2>3
      <4> QED BY <1>1, <1>2, <2>1, <3>1, <4>1 DEF Contact, Untouched, Busy, Launched, Over, WriteEnd
    <3>3. Speech(v)'
      BY <1>1, <1>2, <2>1, <3>1 DEF Speech, Greeted, Acked, Serves
    <3> QED BY <3>2, <3>3
  <2> QED BY <2>2, <2>3
<1> QED BY <1>9, <1>10, <1>12, <1>13, <1>15, <1>16 DEF ConnInv

\* A worker does not reach the coordinator.
LEMMA ConnectFailsInv ==
    ASSUME ConnInv, NEW w \in Workers, connect_fails(w)
    PROVE  ConnInv'
<1>1. /\ wpc[w] = "Start" /\ wpc' = [wpc EXCEPT ![w] = "Unreachable"]
      /\ UNCHANGED <<pc, backlog, candidate, peer, attempts, dispatches, launch, job, out, wire, buffer,
                     sent, got, end, resets, alarms, killed, damages>>
  BY DEF connect_fails
<1>2. ConnTyped /\ Streams
  BY DEF ConnInv
<1>3. ConnTyped'
  <2>1. wpc' \in [Workers -> {"Start", "Greeting", "Serving", "Starting", "Absent", "Shutdown",
                              "Unreachable", "Refused", "Failed", "Closed", "Killed"}]
    BY <1>1, <1>2 DEF ConnTyped
  <2> QED BY <1>1, <1>2, <2>1 DEF ConnTyped
<1>4. Streams'
  BY <1>1, <1>2 DEF Streams, Stream, ReadEnd, WriteEnd
<1>5. Queue' /\ Cause' /\ AckedOnce' /\ NoFalseAlarm'
  BY <1>1 DEF ConnInv, Queue, Cause, Launched, AckedOnce, Acked, NoFalseAlarm, identity
<1>6. ASSUME NEW v \in Workers PROVE Contact(v)' /\ Speech(v)'
  <2>1. Contact(v) /\ Speech(v)
    BY DEF ConnInv
  <2>2. wpc'[v] = wpc[v] \/ (wpc'[v] = "Unreachable" /\ wpc[v] = "Start")
    BY <1>1, <1>2 DEF ConnTyped
  <2>3. Contact(v)'
    BY <1>1, <2>1, <2>2 DEF Contact, Untouched, Busy, Launched, Over, WriteEnd
  <2>4. Speech(v)'
    BY <1>1, <2>1, <2>2 DEF Speech, Greeted, Acked, Serves
  <2> QED BY <2>3, <2>4
<1> QED BY <1>3, <1>4, <1>5, <1>6 DEF ConnInv

\* A worker takes a frame, sends one, or both, and goes on to c.
LEMMA WorkerGoesOn ==
    ASSUME ConnInv, NEW w \in Workers, NEW c \in {"Serving", "Starting"}, Busy(w),
           wpc' = [wpc EXCEPT ![w] = c], ConnTyped', Streams',
           UNCHANGED <<pc, backlog, candidate, peer, launch, end, resets, alarms, killed, damages>>,
           \A v \in Workers : \A e \in Directions :
              /\ ~(v = w /\ e = "up") => sent'[v][e] = sent[v][e]
              /\ ~(v = w /\ e = "down") => got'[v][e] = got[v][e],
           Len(sent'[w]["up"]) > 0, sent'[w]["up"][1] = sent[w]["up"][1],
           Len(got'[w]["down"]) > 0, got'[w]["down"][1].type = "HelloAck"
    PROVE  ConnInv'
<1>1. ConnTyped /\ Contact(w) /\ Speech(w)
  BY DEF ConnInv
<1>2. \A v \in Workers : sent'[v]["down"] = sent[v]["down"] /\ got'[v]["up"] = got[v]["up"]
  BY DirectionsDef
<1>3. Queue' /\ Cause' /\ NoFalseAlarm'
  BY DEF ConnInv, Queue, Cause, Launched, NoFalseAlarm
<1>4. AckedOnce'
  BY <1>2, SMTT(60) DEF ConnInv, AckedOnce, Acked, identity
<1>5. wpc'[w] = c /\ \A v \in Workers : v # w => wpc'[v] = wpc[v]
  BY <1>1 DEF ConnTyped
<1>6. ASSUME NEW v \in Workers PROVE Contact(v)' /\ Speech(v)'
  <2>1. Contact(v) /\ Speech(v)
    BY DEF ConnInv
  <2>2. CASE v = w
    <3>1. end[w].worker = "Open" /\ Len(sent[w]["up"]) > 0 /\ sent[w]["up"][1].type = "Hello"
      BY <1>1 DEF Contact, Speech
    <3>2. Contact(w)'
      BY <1>1, <1>5, <3>1 DEF Contact, Untouched, Busy, Launched, Over, WriteEnd
    <3>3. Speech(w)'
      BY <1>1, <1>2, <1>5, <3>1 DEF Speech, Greeted, Acked, Serves
    <3> QED BY <2>2, <3>2, <3>3
  <2>3. CASE v # w
    <3>1. \A e \in Directions : sent'[v][e] = sent[v][e] /\ got'[v][e] = got[v][e]
      BY <2>3
    <3>2. Contact(v)'
      BY <1>5, <2>1, <2>3, <3>1, DirectionsDef, SMTT(60) DEF Contact, Untouched, Busy, Launched, Over, WriteEnd
    <3>3. Speech(v)'
      BY <1>5, <2>1, <2>3, <3>1, DirectionsDef DEF Speech, Greeted, Acked, Serves
    <3> QED BY <3>2, <3>3
  <2> QED BY <2>2, <2>3
<1> QED BY <1>3, <1>4, <1>6 DEF ConnInv

\* A worker takes the acknowledgement of its Hello.
LEMMA WorkerAcceptedInv ==
    ASSUME ConnInv, NEW w \in Workers, worker_accepted(w)
    PROVE  ConnInv'
<1>1. PICK m : m = next(buffer[w]["down"]).frame
  OBVIOUS
<1>2. /\ Reading(w) /\ Taken(w, "down") /\ next(buffer[w]["down"]).status = "Frame"
      /\ Answer(w, m.type) = "Serve" /\ wpc' = [wpc EXCEPT ![w] = "Serving"]
      /\ UNCHANGED <<pc, backlog, candidate, peer, attempts, dispatches, launch, job, out, wire, sent,
                     end, resets, alarms, killed, damages>>
  BY <1>1 DEF worker_accepted, Taken
<1>3. /\ ConnTyped /\ Streams /\ Contact(w) /\ Speech(w) /\ "down" \in Directions
      /\ "up" \in Directions /\ "up" # "down"
  BY DirectionsDef DEF ConnInv
<1>4. wpc[w] = "Greeting" /\ m.type = "HelloAck"
  BY <1>2 DEF Answer
<1>5. /\ buffer' \in [Workers -> [Directions -> Seq(CellSet)]]
      /\ got' \in [Workers -> [Directions -> Seq(Messages)]]
      /\ got'[w]["down"] = Append(got[w]["down"], m)
      /\ \A v \in Workers : \A e \in Directions :
            ~(v = w /\ e = "down") => buffer'[v][e] = buffer[v][e] /\ got'[v][e] = got[v][e]
  <2>1. /\ buffer' \in [Workers -> [Directions -> Seq(CellSet)]]
        /\ got' \in [Workers -> [Directions -> Seq(Messages)]] /\ TakesNext(w, "down", m)
        /\ \A v \in Workers : \A e \in Directions :
              ~(v = w /\ e = "down") => buffer'[v][e] = buffer[v][e] /\ got'[v][e] = got[v][e]
    BY <1>1, <1>2, <1>3, TakenDef
  <2> QED BY <2>1 DEF TakesNext
<1>6. Stream(w, "down")'
  <2>1. ReadEnd(w, "down")' = ReadEnd(w, "down") /\ WriteEnd(w, "down")' = WriteEnd(w, "down")
    BY <1>2 DEF ReadEnd, WriteEnd
  <2> QED BY <1>1, <1>2, <1>3, <2>1, TakenDef
<1>7. Streams'
  <2>1. \A v \in Workers : \A e \in Directions : (v = w /\ e = "down") \/ Same(v, e)
    BY <1>2, <1>5 DEF Same, ReadEnd, WriteEnd
  <2> QED BY <1>3, <1>6, <2>1, OneStream
<1>8. ConnTyped'
  <2>1. wpc' \in [Workers -> {"Start", "Greeting", "Serving", "Starting", "Absent", "Shutdown",
                              "Unreachable", "Refused", "Failed", "Closed", "Killed"}]
    BY <1>2, <1>3 DEF ConnTyped
  <2> QED BY <1>2, <1>3, <1>5, <2>1 DEF ConnTyped
<1>9. Len(got'[w]["down"]) > 0 /\ got'[w]["down"][1].type = "HelloAck"
  <2>1. got[w]["down"] \in Seq(Messages) /\ Len(got[w]["down"]) = 0
    BY <1>3, <1>4 DEF ConnTyped, Speech
  <2>2. got[w]["down"] = <<>>
    BY <2>1, SMTT(60)
  <2> QED BY <1>4, <1>5, <2>2, SMTT(60)
<1>10. Busy(w) /\ Len(sent'[w]["up"]) > 0 /\ sent'[w]["up"][1] = sent[w]["up"][1]
  BY <1>2, <1>3, <1>4 DEF Busy, Contact
<1> QED BY <1>2, <1>5, <1>7, <1>8, <1>9, <1>10, WorkerGoesOn

\* A worker takes a dispatch and reports its start.
LEMMA WorkerStartsInv ==
    ASSUME ConnInv, NEW w \in Workers, worker_starts(w)
    PROVE  ConnInv'
<1>1. PICK m : m = next(buffer[w]["down"]).frame
  OBVIOUS
<1>2. /\ Reading(w) /\ Taken(w, "down")
      /\ Answer(w, m.type) = "Start" /\ wpc' = [wpc EXCEPT ![w] = "Starting"]
      /\ job' = [job EXCEPT ![w] = m.attempt] /\ Send(w, "up", Frame("Started", m.attempt))
      /\ UNCHANGED <<pc, backlog, candidate, peer, attempts, dispatches, launch, wire,
                     end, resets, alarms, killed, damages>>
  BY <1>1 DEF worker_starts
<1>3. /\ ConnTyped /\ Streams /\ Contact(w) /\ Speech(w) /\ "down" \in Directions
      /\ "up" \in Directions /\ "up" # "down"
  BY DirectionsDef DEF ConnInv
<1>4. wpc[w] = "Serving" /\ out[w]["up"] = <<>>
  BY <1>2 DEF Answer, Reading
<1>5. /\ buffer' \in [Workers -> [Directions -> Seq(CellSet)]]
      /\ got' \in [Workers -> [Directions -> Seq(Messages)]]
      /\ got'[w]["down"] = Append(got[w]["down"], m)
      /\ Len(got[w]["down"]) + 1 \in 1..Len(sent[w]["down"]) /\ m = sent[w]["down"][Len(got[w]["down"]) + 1]
      /\ \A v \in Workers : \A e \in Directions :
            ~(v = w /\ e = "down") => buffer'[v][e] = buffer[v][e] /\ got'[v][e] = got[v][e]
  <2>1. Taken(w, "down") /\ m = next(buffer[w]["down"]).frame
    BY <1>1, <1>2
  <2>2. /\ buffer' \in [Workers -> [Directions -> Seq(CellSet)]]
        /\ got' \in [Workers -> [Directions -> Seq(Messages)]] /\ TakesNext(w, "down", m)
        /\ \A v \in Workers : \A e \in Directions :
              ~(v = w /\ e = "down") => buffer'[v][e] = buffer[v][e] /\ got'[v][e] = got[v][e]
    BY <1>3, <2>1, TakenDef
  <2> QED BY <2>2 DEF TakesNext
<1>6. m \in Messages /\ m.attempt \in Nat
  <2>1. sent[w]["down"] \in Seq(Messages)
    BY <1>3 DEF ConnTyped
  <2>2. m \in Messages
    BY <1>5, <2>1, SMTT(60)
  <2> QED BY <2>2 DEF Messages
<1>7. PICK f : f = Frame("Started", m.attempt)
  OBVIOUS
<1>8. f \in Messages /\ f.type # "Damaged" /\ f.length <= MaxPayload
  BY <1>6, <1>7, FrameType DEF Lengths
<1>9. /\ out' \in [Workers -> [Directions -> Seq(CellSet)]]
      /\ sent' \in [Workers -> [Directions -> Seq(Messages)]]
      /\ sent'[w]["up"] = Append(sent[w]["up"], f)
      /\ \A v \in Workers : \A e \in Directions :
            ~(v = w /\ e = "up") => out'[v][e] = out[v][e] /\ sent'[v][e] = sent[v][e]
  BY <1>2, <1>3, <1>7, <1>8, SendDef
<1>10. end[w].worker = "Open" /\ Len(sent[w]["up"]) > 0 /\ Busy(w)
  BY <1>3, <1>4 DEF Contact, Busy
<1>11. Streams'
  <2> SUFFICES ASSUME NEW v \in Workers, NEW e \in Directions PROVE Stream(v, e)'
    BY DEF Streams
  <2>1. ReadEnd(v, e)' = ReadEnd(v, e) /\ WriteEnd(v, e)' = WriteEnd(v, e)
    BY <1>2 DEF ReadEnd, WriteEnd
  <2>2. CASE v = w /\ e = "up"
    <3>1. WriteEnd(w, "up") = "Open"
      BY <1>10, DirectionsDef DEF WriteEnd
    <3>2. /\ WriteEnd(w, "up") # "Closed" /\ WriteEnd(w, "up")' # "Closed"
          /\ ReadEnd(w, "up")' = "Closed" <=> ReadEnd(w, "up") = "Closed"
      BY <2>1, <2>2, <3>1
    <3>3. /\ got'[w]["up"] = got[w]["up"] /\ buffer'[w]["up"] = buffer[w]["up"]
          /\ wire'[w]["up"] = wire[w]["up"] /\ damages' = damages
      BY <1>2, <1>3, <1>5
    <3> QED BY <1>2, <1>3, <1>4, <1>7, <1>8, <2>2, <3>2, <3>3, SendStream
  <2>3. CASE v = w /\ e = "down"
    BY <1>1, <1>2, <1>3, <1>9, <2>1, <2>3, TakenDef
  <2>4. CASE v # w
    <3>1. Same(v, e) /\ Stream(v, e)
      BY <1>2, <1>3, <1>5, <1>9, <2>1, <2>4 DEF Same, Streams
    <3> QED BY <3>1 DEF Stream, Same
  <2> QED BY <2>2, <2>3, <2>4, DirectionsDef
<1>12. ConnTyped'
  <2>1. /\ wpc' \in [Workers -> {"Start", "Greeting", "Serving", "Starting", "Absent", "Shutdown",
                                 "Unreachable", "Refused", "Failed", "Closed", "Killed"}]
        /\ job' \in [Workers -> Nat]
    BY <1>2, <1>3, <1>6 DEF ConnTyped
  <2> QED BY <1>2, <1>3, <1>5, <1>9, <2>1 DEF ConnTyped
<1>13. Len(got'[w]["down"]) > 0 /\ got'[w]["down"][1].type = "HelloAck"
  <2>1. /\ got[w]["down"] \in Seq(Messages) /\ Len(got[w]["down"]) > 0
        /\ got[w]["down"][1].type = "HelloAck"
    BY <1>3, <1>4 DEF ConnTyped, Speech, Serves
  <2> QED BY <1>5, <1>6, <2>1, SMTT(60)
<1>14. Len(sent'[w]["up"]) > 0 /\ sent'[w]["up"][1] = sent[w]["up"][1]
  <2>1. sent[w]["up"] \in Seq(Messages)
    BY <1>3 DEF ConnTyped
  <2> QED BY <1>8, <1>9, <1>10, <2>1, SMTT(60)
<1> QED BY <1>2, <1>5, <1>9, <1>10, <1>11, <1>12, <1>13, <1>14, WorkerGoesOn

\* A worker reports the completion of its dispatch.
LEMMA WorkerCompletesInv ==
    ASSUME ConnInv, NEW w \in Workers, worker_completes(w)
    PROVE  ConnInv'
<1>1. /\ wpc[w] = "Starting" /\ out[w]["up"] = <<>> /\ wpc' = [wpc EXCEPT ![w] = "Serving"]
      /\ job' = [job EXCEPT ![w] = 0] /\ Send(w, "up", Frame("Completion", job[w]))
      /\ UNCHANGED <<pc, backlog, candidate, peer, attempts, dispatches, launch, wire, buffer, got,
                     end, resets, alarms, killed, damages>>
  BY DEF worker_completes
<1>2. /\ ConnTyped /\ Streams /\ Contact(w) /\ Speech(w) /\ "up" \in Directions
      /\ job[w] \in Nat
  BY DirectionsDef DEF ConnInv, ConnTyped
<1>3. PICK f : f = Frame("Completion", job[w])
  OBVIOUS
<1>4. f \in Messages /\ f.type # "Damaged" /\ f.length <= MaxPayload
  BY <1>2, <1>3, FrameType DEF Lengths
<1>5. /\ out' \in [Workers -> [Directions -> Seq(CellSet)]]
      /\ sent' \in [Workers -> [Directions -> Seq(Messages)]]
      /\ sent'[w]["up"] = Append(sent[w]["up"], f)
      /\ \A v \in Workers : \A e \in Directions :
            ~(v = w /\ e = "up") => out'[v][e] = out[v][e] /\ sent'[v][e] = sent[v][e]
  BY <1>1, <1>2, <1>3, <1>4, SendDef
<1>6. end[w].worker = "Open" /\ Len(sent[w]["up"]) > 0 /\ Busy(w)
  BY <1>1, <1>2 DEF Contact, Busy
<1>7. Stream(w, "up")'
  <2>1. WriteEnd(w, "up") = "Open"
    BY <1>6, DirectionsDef DEF WriteEnd
  <2>2. /\ WriteEnd(w, "up") # "Closed" /\ WriteEnd(w, "up")' # "Closed"
        /\ ReadEnd(w, "up")' = "Closed" <=> ReadEnd(w, "up") = "Closed"
    BY <1>1, <2>1 DEF ReadEnd, WriteEnd
  <2> QED BY <1>1, <1>2, <1>3, <1>4, <2>2, SendStream
<1>8. Streams'
  <2>1. \A v \in Workers : \A e \in Directions : (v = w /\ e = "up") \/ Same(v, e)
    BY <1>1, <1>5 DEF Same, ReadEnd, WriteEnd
  <2> QED BY <1>2, <1>7, <2>1, OneStream
<1>9. ConnTyped'
  <2>1. /\ wpc' \in [Workers -> {"Start", "Greeting", "Serving", "Starting", "Absent", "Shutdown",
                                 "Unreachable", "Refused", "Failed", "Closed", "Killed"}]
        /\ job' \in [Workers -> Nat]
    BY <1>1, <1>2 DEF ConnTyped
  <2> QED BY <1>1, <1>2, <1>5, <2>1 DEF ConnTyped
<1>10. Len(got'[w]["down"]) > 0 /\ got'[w]["down"][1].type = "HelloAck"
  BY <1>1, <1>2 DEF Speech, Serves
<1>11. Len(sent'[w]["up"]) > 0 /\ sent'[w]["up"][1] = sent[w]["up"][1]
  <2>1. sent[w]["up"] \in Seq(Messages)
    BY <1>2, SMTT(60) DEF ConnTyped
  <2> QED BY <1>4, <1>5, <1>6, <2>1, SMTT(60)
<1> QED BY <1>1, <1>5, <1>6, <1>8, <1>9, <1>10, <1>11, WorkerGoesOn

-----------------------------------------------------------------------------
(***************************************************************************)
(* The coordinator at work                                                 *)
(***************************************************************************)

\* The coordinator accepts the oldest connection of the backlog.
LEMMA AcceptInv ==
    ASSUME ConnInv, accept
    PROVE  ConnInv'
<1>1. /\ pc = "Accept" /\ backlog # <<>> /\ pc' = "Greet"
      /\ candidate' = Head(backlog) /\ backlog' = Tail(backlog)
      /\ UNCHANGED <<peer, attempts, dispatches, launch, wpc, job, out, wire, buffer, sent, got, end,
                     resets, alarms, killed, damages>>
  BY DEF accept
<1>2. ConnTyped /\ Streams /\ Queue
  BY DEF ConnInv
<1>3. /\ candidate' \in Workers /\ backlog' \in Seq(Workers) /\ candidate' = backlog[1]
      /\ Len(backlog) \in Nat /\ 1 \in 1..Len(backlog)
      /\ \A i \in 1..Len(backlog') : /\ i + 1 \in 1..Len(backlog) /\ backlog'[i] = backlog[i + 1]
                                     /\ i \in Nat /\ i + 1 # 1
  <2>1. backlog \in Seq(Workers) /\ Len(backlog) \in Nat /\ Len(backlog) > 0
    BY <1>1, <1>2, SMTT(60) DEF ConnTyped
  <2>2. /\ candidate' = backlog[1] /\ candidate' \in Workers /\ backlog' \in Seq(Workers)
        /\ Len(backlog') = Len(backlog) - 1
        /\ \A i \in 1..(Len(backlog) - 1) : backlog'[i] = backlog[i + 1]
    BY <1>1, <2>1, SMTT(60)
  <2> QED BY <2>1, <2>2, SMTT(60)
<1>4. ConnTyped'
  BY <1>1, <1>2, <1>3 DEF ConnTyped
<1>5. Streams'
  BY <1>1, <1>2 DEF Streams, Stream, ReadEnd, WriteEnd
<1>6. Queue'
  <2>1. candidate' \in Workers /\ peer'[candidate'] = "None"
    BY <1>1, <1>2, <1>3 DEF Queue
  <2>2. \A i \in 1..Len(backlog') : peer'[backlog'[i]] = "None" /\ backlog'[i] # candidate'
    BY <1>1, <1>2, <1>3 DEF Queue
  <2>3. \A i, j \in 1..Len(backlog') : i # j => backlog'[i] # backlog'[j]
    <3> SUFFICES ASSUME NEW i \in 1..Len(backlog'), NEW j \in 1..Len(backlog'), i # j
                 PROVE  backlog'[i] # backlog'[j]
      OBVIOUS
    <3>1. i + 1 # j + 1
      BY SMTT(60)
    <3>2. backlog[i + 1] # backlog[j + 1]
      BY <1>2, <1>3, <3>1 DEF Queue
    <3> QED BY <1>3, <3>2
  <2> QED BY <2>1, <2>2, <2>3 DEF Queue
<1>7. Cause' /\ AckedOnce' /\ NoFalseAlarm'
  BY <1>1 DEF ConnInv, Cause, AckedOnce, Acked, NoFalseAlarm, identity
<1>8. ASSUME NEW v \in Workers PROVE Contact(v)' /\ Speech(v)'
  <2>1. Contact(v) /\ Speech(v)
    BY DEF ConnInv
  <2>2. Untouched(v)' => Untouched(v) /\ v # candidate' /\ \A i \in 1..Len(backlog') : backlog'[i] # v
    BY <1>1, <1>3, <2>1 DEF Contact, Untouched
  <2>3. ~Over /\ ~Over' /\ (Untouched(v)' <=> Untouched(v))
    BY <1>1 DEF Over, Untouched
  <2>4. Contact(v)'
    BY <1>1, <2>1, <2>2, <2>3 DEF Contact, Busy, Launched, WriteEnd
  <2>5. Speech(v)'
    BY <1>1, <2>1 DEF Speech, Greeted, Acked, Serves
  <2> QED BY <2>4, <2>5
<1> QED BY <1>4, <1>5, <1>6, <1>7, <1>8 DEF ConnInv

\* The acknowledgement is written: the candidate is a peer.
LEMMA AcknowledgedInv ==
    ASSUME ConnInv, acknowledged
    PROVE  ConnInv'
<1>1. /\ pc = "Ack" /\ peer' = [peer EXCEPT ![candidate] = "Alive"] /\ candidate' = NoWorker
      /\ pc' \in {"Loop", "Accept"}
      /\ UNCHANGED <<backlog, attempts, dispatches, launch, wpc, job, out, wire, buffer, sent, got, end,
                     resets, alarms, killed, damages>>
  BY DEF acknowledged
<1>2. ConnTyped /\ Streams /\ Queue /\ candidate \in Workers /\ peer[candidate] = "None"
  BY <1>1 DEF ConnInv, Queue
<1>3. /\ peer' \in [Workers -> {"None", "Alive", "Retired", "Told"}] /\ peer'[candidate] = "Alive"
      /\ \A v \in Workers : v # candidate => peer'[v] = peer[v]
  BY <1>1, <1>2 DEF ConnTyped
<1>4. ConnTyped'
  BY <1>1, <1>2, <1>3 DEF ConnTyped
<1>5. Streams'
  BY <1>1, <1>2 DEF Streams, Stream, ReadEnd, WriteEnd
<1>6. \A i \in 1..Len(backlog) : backlog[i] \in Workers /\ backlog[i] # NoWorker
  BY <1>2, ConnectionAssumption, SMTT(60) DEF ConnTyped
<1>7. Queue'
  BY <1>1, <1>2, <1>3, <1>6, SMTT(60) DEF Queue
<1>8. Cause' /\ AckedOnce' /\ NoFalseAlarm'
  BY <1>1 DEF ConnInv, Cause, AckedOnce, Acked, NoFalseAlarm, identity
<1>9. ASSUME NEW v \in Workers PROVE Contact(v)' /\ Speech(v)'
  <2>1. Contact(v) /\ Speech(v) /\ v # NoWorker
    BY ConnectionAssumption DEF ConnInv
  <2>2. ~Over /\ ~Over' /\ (Untouched(v)' <=> Untouched(v))
    BY <1>1 DEF Over, Untouched
  <2>3. CASE v = candidate
    <3>1. ~Untouched(v) /\ peer'[v] = "Alive" /\ end[v].coordinator = "Open" /\ Acked(v)
      BY <1>1, <1>2, <1>3, <2>1, <2>2, <2>3 DEF Contact, Speech
    <3>2. Contact(v)'
      BY <1>1, <2>1, <2>2, <3>1 DEF Contact, Busy, Launched, WriteEnd
    <3>3. Speech(v)'
      BY <1>1, <2>1, <3>1 DEF Speech, Greeted, Acked, Serves
    <3> QED BY <3>2, <3>3
  <2>4. CASE v # candidate
    <3>1. peer'[v] = peer[v]
      BY <1>3, <2>4
    <3>2. Contact(v)'
      BY <1>1, <2>1, <2>2, <3>1 DEF Contact, Busy, Launched, WriteEnd
    <3>3. Speech(v)'
      BY <1>1, <2>1, <2>4, <3>1 DEF Speech, Greeted, Acked, Serves
    <3> QED BY <3>2, <3>3
  <2> QED BY <2>3, <2>4
<1> QED BY <1>4, <1>5, <1>7, <1>8, <1>9 DEF ConnInv

\* The coordinator leaves its loop of rounds.
LEMMA RoundsEndInv ==
    ASSUME ConnInv, rounds_end
    PROVE  ConnInv'
<1>1. /\ pc = "Loop" /\ pc' = "Stop"
      /\ UNCHANGED <<backlog, candidate, peer, attempts, dispatches, launch, wpc, job, out, wire, buffer,
                     sent, got, end, resets, alarms, killed, damages>>
  BY DEF rounds_end
<1>2. ConnTyped /\ Streams /\ Queue
  BY DEF ConnInv
<1>3. ConnTyped' /\ Queue'
  BY <1>1, <1>2 DEF ConnTyped, Queue
<1>4. Streams'
  BY <1>1, <1>2 DEF Streams, Stream, ReadEnd, WriteEnd
<1>5. Cause' /\ AckedOnce' /\ NoFalseAlarm'
  BY <1>1 DEF ConnInv, Cause, AckedOnce, Acked, NoFalseAlarm, identity
<1>6. ASSUME NEW v \in Workers PROVE Contact(v)' /\ Speech(v)'
  <2>1. Contact(v) /\ Speech(v)
    BY DEF ConnInv
  <2>2. ~Over /\ ~Over' /\ (Untouched(v)' <=> Untouched(v))
    BY <1>1 DEF Over, Untouched
  <2>3. Contact(v)'
    BY <1>1, <2>1, <2>2 DEF Contact, Busy, Launched, WriteEnd
  <2>4. Speech(v)'
    BY <1>1, <2>1 DEF Speech, Greeted, Acked, Serves
  <2> QED BY <2>3, <2>4
<1> QED BY <1>3, <1>4, <1>5, <1>6 DEF ConnInv

\* A frame to a peer.
LEMMA CoordinatorSends ==
    ASSUME ConnInv, NEW w \in Workers, pc \in {"Loop", "Stop"}, Free, peer[w] = "Alive",
           NEW m \in Messages, m.type \in {"Dispatch", "Shutdown"}, m.length <= MaxPayload,
           Send(w, "down", m), NEW p \in {"Alive", "Told"}, peer' = [peer EXCEPT ![w] = p],
           dispatches' \in Nat,
           UNCHANGED <<pc, backlog, candidate, launch, wpc, job, wire, buffer, got, end, resets,
                       alarms, killed, damages>>
    PROVE  ConnInv'
<1>1. /\ ConnTyped /\ Streams /\ Queue /\ Contact(w) /\ Speech(w) /\ "down" \in Directions
      /\ out[w]["down"] = <<>> /\ m.type # "Damaged"
  BY DirectionsDef DEF ConnInv, Free
<1>2. /\ out' \in [Workers -> [Directions -> Seq(CellSet)]]
      /\ sent' \in [Workers -> [Directions -> Seq(Messages)]]
      /\ sent'[w]["down"] = Append(sent[w]["down"], m)
      /\ \A v \in Workers : \A e \in Directions :
            ~(v = w /\ e = "down") => out'[v][e] = out[v][e] /\ sent'[v][e] = sent[v][e]
  BY <1>1, SendDef
<1>3. ~Untouched(w) /\ end[w].coordinator = "Open" /\ Acked(w)
  BY <1>1 DEF Contact, Speech, Over
<1>4. Stream(w, "down")'
  <2>1. WriteEnd(w, "down") = "Open"
    BY <1>3, DirectionsDef DEF WriteEnd
  <2>2. /\ WriteEnd(w, "down") # "Closed" /\ WriteEnd(w, "down")' # "Closed"
        /\ ReadEnd(w, "down")' = "Closed" <=> ReadEnd(w, "down") = "Closed"
    BY <2>1 DEF ReadEnd, WriteEnd
  <2> QED BY <1>1, <2>2, SendStream
<1>5. Streams'
  <2>1. \A v \in Workers : \A e \in Directions : (v = w /\ e = "down") \/ Same(v, e)
    BY <1>2 DEF Same, ReadEnd, WriteEnd
  <2> QED BY <1>1, <1>4, <2>1, OneStream
<1>6. /\ peer' \in [Workers -> {"None", "Alive", "Retired", "Told"}] /\ peer'[w] = p
      /\ \A v \in Workers : v # w => peer'[v] = peer[v]
  BY <1>1 DEF ConnTyped
<1>7. ConnTyped'
  BY <1>1, <1>2, <1>6 DEF ConnTyped
<1>8. Queue'
  <2>1. \A i \in 1..Len(backlog) : backlog[i] \in Workers /\ backlog[i] # w
    <3>1. backlog \in Seq(Workers) /\ \A i \in 1..Len(backlog) : peer[backlog[i]] = "None"
      BY <1>1 DEF ConnTyped, Queue
    <3> QED BY <3>1, SMTT(60)
  <2> QED BY <1>1, <1>6, <2>1, SMTT(60) DEF Queue
<1>9. Cause' /\ NoFalseAlarm'
  BY DEF ConnInv, Cause, NoFalseAlarm
<1>10. /\ Len(sent'[w]["down"]) = Len(sent[w]["down"]) + 1 /\ Len(sent[w]["down"]) \in Nat
       /\ Len(sent[w]["down"]) > 0 /\ sent'[w]["down"][Len(sent[w]["down"]) + 1] = m
       /\ \A i \in 1..Len(sent[w]["down"]) : sent'[w]["down"][i] = sent[w]["down"][i]
  <2>1. sent[w]["down"] \in Seq(Messages) /\ Len(sent[w]["down"]) \in Nat /\ Len(sent[w]["down"]) > 0
    BY <1>1, <1>3, SMTT(60) DEF ConnTyped, Acked
  <2> QED BY <1>2, <2>1, SMTT(60)
<1>11. \A v \in Workers : Acked(v)' <=> Acked(v)
  <2>1. Acked(w)'
    BY <1>3, <1>10, SMTT(60) DEF Acked
  <2> QED BY <1>1, <1>2, <1>3, <2>1 DEF Acked
<1>12. AckedOnce'
  BY <1>11 DEF ConnInv, AckedOnce, identity
<1>13. ASSUME NEW v \in Workers PROVE Contact(v)' /\ Speech(v)'
  <2>1. Contact(v) /\ Speech(v)
    BY DEF ConnInv
  <2>2. (Over' <=> Over) /\ (Untouched(v)' <=> Untouched(v)) /\ (Serves(v)' <=> Serves(v))
    BY DEF Over, Untouched, Serves
  <2>3. CASE v = w
    <3>1. sent'[w]["up"] = sent[w]["up"]
      BY <1>2, DirectionsDef
    <3>2. \A i \in 1..Len(sent'[w]["down"]) :
             sent'[w]["down"][i].type \in (IF i = 1 THEN {"HelloAck", "HelloRefused"}
                                           ELSE {"Dispatch", "Shutdown"})
      <4> SUFFICES ASSUME NEW i \in 1..Len(sent'[w]["down"])
                   PROVE  sent'[w]["down"][i].type \in (IF i = 1 THEN {"HelloAck", "HelloRefused"}
                                                        ELSE {"Dispatch", "Shutdown"})
        OBVIOUS
      <4>1. CASE i = Len(sent[w]["down"]) + 1
        BY <1>10, <4>1, SMTT(60)
      <4>2. CASE i \in 1..Len(sent[w]["down"])
        BY <1>1, <1>10, <4>2 DEF Speech
      <4>3. i = Len(sent[w]["down"]) + 1 \/ i \in 1..Len(sent[w]["down"])
        <5>1. PICK L : L = Len(sent[w]["down"]) /\ L \in Nat /\ i \in 1..(L + 1)
          BY <1>10
        <5>2. i = L + 1 \/ i \in 1..L
          BY <5>1, SMTT(60)
        <5> QED BY <5>1, <5>2
      <4> QED BY <4>1, <4>2, <4>3
    <3>3. Contact(w)'
      BY <1>1, <1>3, <2>2, <2>3, <3>1 DEF Contact, Busy, Launched, WriteEnd
    <3>4. Greeted(w)' /\ Acked(w)'
      BY <1>3, <1>6, <1>11 DEF Greeted
    <3>5. Speech(w)'
      BY <1>1, <2>2, <2>3, <3>1, <3>2, <3>4 DEF Speech
    <3> QED BY <2>3, <3>3, <3>5
  <2>4. CASE v # w
    <3>1. peer'[v] = peer[v] /\ \A e \in Directions : sent'[v][e] = sent[v][e]
      BY <1>2, <1>6, <2>4
    <3>2. Contact(v)'
      BY <2>1, <2>2, <3>1, DirectionsDef DEF Contact, Busy, Launched, WriteEnd
    <3>3. Speech(v)'
      BY <2>1, <3>1, DirectionsDef DEF Speech, Greeted, Acked, Serves
    <3> QED BY <3>2, <3>3
  <2> QED BY <2>3, <2>4
<1> QED BY <1>5, <1>7, <1>8, <1>9, <1>12, <1>13 DEF ConnInv

\* dispatch_schedule and shutdown_peers
LEMMA DispatchInv ==
    ASSUME ConnInv, NEW w \in Workers, dispatch(w)
    PROVE  ConnInv'
<1>1. /\ pc \in {"Loop", "Stop"} /\ Free /\ peer[w] = "Alive" /\ dispatches' = dispatches + 1
      /\ Send(w, "down", Frame("Dispatch", dispatches + 1))
      /\ UNCHANGED <<pc, backlog, candidate, peer, launch, wpc, job, wire, buffer, got, end, resets,
                     alarms, killed, damages>>
  BY DEF dispatch
<1>2. dispatches' \in Nat /\ peer' = [peer EXCEPT ![w] = "Alive"]
  BY <1>1, SMTT(60) DEF ConnInv, ConnTyped
<1>3. PICK m : m = Frame("Dispatch", dispatches + 1)
  OBVIOUS
<1>4. m \in Messages /\ m.type \in {"Dispatch", "Shutdown"} /\ m.length <= MaxPayload
  BY <1>1, <1>2, <1>3, FrameType DEF Lengths
<1> QED BY <1>1, <1>2, <1>3, <1>4, CoordinatorSends

\* The coordinator tells a peer to stop.
LEMMA ShutdownPeerInv ==
    ASSUME ConnInv, NEW w \in Workers, shutdown_peer(w)
    PROVE  ConnInv'
<1>1. /\ pc \in {"Loop", "Stop"} /\ Free /\ peer[w] = "Alive" /\ peer' = [peer EXCEPT ![w] = "Told"]
      /\ Send(w, "down", Frame("Shutdown", 0))
      /\ UNCHANGED <<pc, backlog, candidate, dispatches, launch, wpc, job, wire, buffer, got, end, resets,
                     alarms, killed, damages>>
  BY DEF shutdown_peer
<1>2. dispatches' \in Nat
  BY <1>1 DEF ConnInv, ConnTyped
<1>3. PICK m : m = Frame("Shutdown", 0)
  OBVIOUS
<1>4. m \in Messages /\ m.type \in {"Dispatch", "Shutdown"} /\ m.length <= MaxPayload
  BY <1>3, FrameType DEF Lengths
<1> QED BY <1>1, <1>2, <1>3, <1>4, CoordinatorSends

\* handle_frame
LEMMA DrainInv ==
    ASSUME ConnInv, NEW w \in Workers, drain(w)
    PROVE  ConnInv'
<1>1. /\ pc = "Loop" /\ peer[w] = "Alive" /\ Taken(w, "up")
      /\ UNCHANGED <<pc, backlog, candidate, peer, dispatches, launch, wpc, job, out, wire, sent, end,
                     resets, alarms, killed, damages>>
  BY DEF drain
<1>2. /\ ConnTyped /\ Streams /\ Queue /\ Contact(w) /\ Speech(w) /\ "up" \in Directions
  BY DirectionsDef DEF ConnInv
<1>3. PICK m : m = next(buffer[w]["up"]).frame
  OBVIOUS
<1>4. /\ buffer' \in [Workers -> [Directions -> Seq(CellSet)]]
      /\ got' \in [Workers -> [Directions -> Seq(Messages)]]
      /\ \A v \in Workers : \A e \in Directions :
            ~(v = w /\ e = "up") => buffer'[v][e] = buffer[v][e] /\ got'[v][e] = got[v][e]
  BY <1>1, <1>2, <1>3, TakenDef
<1>5. Stream(w, "up")'
  <2>1. ReadEnd(w, "up")' = ReadEnd(w, "up") /\ WriteEnd(w, "up")' = WriteEnd(w, "up")
    BY <1>1 DEF ReadEnd, WriteEnd
  <2> QED BY <1>1, <1>2, <1>3, <2>1, TakenDef
<1>6. Streams'
  <2>1. \A v \in Workers : \A e \in Directions : (v = w /\ e = "up") \/ Same(v, e)
    BY <1>1, <1>4 DEF Same, ReadEnd, WriteEnd
  <2> QED BY <1>2, <1>5, <2>1, OneStream
<1>7. ConnTyped'
  BY <1>1, <1>2, <1>4 DEF ConnTyped
<1>8. Queue' /\ Cause' /\ AckedOnce' /\ NoFalseAlarm'
  BY <1>1 DEF ConnInv, Queue, Cause, AckedOnce, Acked, NoFalseAlarm, identity
<1>9. ASSUME NEW v \in Workers PROVE Contact(v)' /\ Speech(v)'
  <2>1. Contact(v) /\ Speech(v)
    BY DEF ConnInv
  <2>2. /\ v = w => ~Untouched(v) /\ Greeted(v)
        /\ v # w => \A e \in Directions : got'[v][e] = got[v][e]
        /\ got'[v]["down"] = got[v]["down"]
    BY <1>1, <1>2, <1>4, <2>1, DirectionsDef DEF Contact, Greeted
  <2>3. (Over' <=> Over) /\ (Untouched(v)' <=> Untouched(v)) /\ (Greeted(v)' <=> Greeted(v))
    BY <1>1 DEF Over, Untouched, Greeted
  <2>4. Contact(v)'
    BY <1>1, <2>1, <2>2, <2>3 DEF Contact, Busy, Launched, WriteEnd
  <2>5. Speech(v)'
    BY <1>1, <2>1, <2>2, <2>3, DirectionsDef DEF Speech, Acked, Serves
  <2> QED BY <2>4, <2>5
<1> QED BY <1>6, <1>7, <1>8, <1>9 DEF ConnInv

\* retire_peer
LEMMA PeerLostInv ==
    ASSUME ConnInv, NEW w \in Workers, peer_lost(w)
    PROVE  ConnInv'
<1>1. /\ pc = "Loop" /\ peer[w] = "Alive" /\ peer' = [peer EXCEPT ![w] = "Retired"]
      /\ Close("coordinator", {w})
      /\ alarms' = IF Offends(w, "up") /\ Free THEN alarms \cup {<<w, "up">>} ELSE alarms
      /\ UNCHANGED <<pc, backlog, candidate, dispatches, launch, wpc, job, sent, got, killed, damages>>
  BY DEF peer_lost, Retire
<1>2. ConnTyped /\ Streams /\ Queue /\ "coordinator" \in Sides
  BY DEF ConnInv, Sides
<1>3. Streams'
  <2> SUFFICES ASSUME NEW v \in Workers, NEW e \in Directions
               PROVE  \E off, b :
                  /\ Carries(off, sent[v][e], got'[v][e], b, wire[v][e], out[v][e], ReadEnd(v, e),
                             WriteEnd(v, e), damages)
                  /\ b = buffer[v][e] \/ (Reader[e] = "coordinator" /\ Closing("coordinator", {w}, v))
    BY <1>1, <1>2, CloseStreams
  <2>1. Stream(v, e)
    BY <1>2 DEF Streams
  <2> QED BY <1>1, <2>1 DEF Stream
<1>4. /\ peer' \in [Workers -> {"None", "Alive", "Retired", "Told"}] /\ peer'[w] = "Retired"
      /\ \A v \in Workers : v # w => peer'[v] = peer[v]
  BY <1>1, <1>2 DEF ConnTyped
<1>5. ConnTyped'
  <2>1. /\ out' \in [Workers -> [Directions -> Seq(CellSet)]]
        /\ wire' \in [Workers -> [Directions -> Seq(CellSet)]]
        /\ buffer' \in [Workers -> [Directions -> Seq(CellSet)]]
        /\ end' \in [Workers -> [coordinator : Ends, worker : Ends]]
    BY <1>1, <1>2, CloseTypes
  <2> QED BY <1>1, <1>2, <1>4, <2>1 DEF ConnTyped
<1>6. Queue'
  <2>1. \A i \in 1..Len(backlog) : backlog[i] \in Workers /\ backlog[i] # w
    <3>1. backlog \in Seq(Workers) /\ \A i \in 1..Len(backlog) : peer[backlog[i]] = "None"
      BY <1>2 DEF ConnTyped, Queue
    <3> QED BY <1>1, <3>1, SMTT(60)
  <2> QED BY <1>1, <1>2, <1>4, <2>1, SMTT(60) DEF Queue
<1>7. NoFalseAlarm'
  <2>1. damages = 0 => ~Offends(w, "up")
    BY <1>2, NoOffence, DirectionsDef
  <2> QED BY <1>1, <2>1 DEF ConnInv, NoFalseAlarm
<1>8. Cause' /\ AckedOnce'
  BY <1>1 DEF ConnInv, Cause, AckedOnce, Acked, identity
<1>9. ASSUME NEW v \in Workers PROVE Contact(v)' /\ Speech(v)'
  <2>1. /\ end'[v].coordinator =
              IF Closing("coordinator", {w}, v) THEN "Closed" ELSE end[v].coordinator
        /\ end'[v].worker = end[v].worker
        /\ Closing("coordinator", {w}, v) => v = w /\ end[v].coordinator # "None"
    BY <1>1, <1>2, CloseEnds DEF Sides, Closing
  <2>2. Contact(v) /\ Speech(v)
    BY DEF ConnInv
  <2>3. \A e \in Directions : <<v, e>> \in resets' => WriteEnd(v, e)' = "Closed"
    BY <1>1, <1>2, <2>2, CloseResets DEF Contact
  <2>4. /\ (Over' <=> Over) /\ (Untouched(v)' <=> Untouched(v)) /\ (v = w => ~Untouched(v))
        /\ (peer'[v] = "None" <=> peer[v] = "None")
    BY <1>1, <1>4, <2>1, <2>2 DEF Over, Untouched, Contact
  <2>5. Contact(v)'
    BY <1>1, <1>4, <2>1, <2>2, <2>3, <2>4 DEF Contact, Busy, Launched
  <2>6. Speech(v)'
    BY <1>1, <2>2, <2>4 DEF Speech, Greeted, Acked, Serves
  <2> QED BY <2>5, <2>6
<1> QED BY <1>3, <1>5, <1>6, <1>7, <1>8, <1>9 DEF ConnInv

\* shutdown_send
LEMMA HalfCloseInv ==
    ASSUME ConnInv, NEW w \in Workers, half_close(w)
    PROVE  ConnInv'
<1>1. /\ pc = "Stop" /\ peer[w] = "Told" /\ end[w].coordinator = "Open"
      /\ out[w]["down"] = <<>> \/ ReadEnd(w, "down") = "Closed"
      /\ out' = [out EXCEPT ![w]["down"] = <<>>]
      /\ end' = [end EXCEPT ![w].coordinator = "HalfClosed"]
      /\ UNCHANGED <<pc, backlog, candidate, peer, attempts, dispatches, launch, wpc, job, wire, buffer,
                     sent, got, resets, alarms, killed, damages>>
  BY DEF half_close, WriteFails
<1>2. /\ ConnTyped /\ Streams /\ Contact(w) /\ "down" \in Directions /\ "up" \in Directions
      /\ "up" # "down" /\ out \in [Workers -> [Directions -> Seq(CellSet)]]
      /\ end \in [Workers -> [coordinator : Ends, worker : Ends]]
  BY DirectionsDef DEF ConnInv, ConnTyped
<1>3. /\ out' \in [Workers -> [Directions -> Seq(CellSet)]] /\ out'[w]["down"] = <<>>
      /\ \A v \in Workers : \A e \in Directions : ~(v = w /\ e = "down") => out'[v][e] = out[v][e]
  <2>1. <<>> \in Seq(CellSet)
    BY SMTT(60)
  <2>2. /\ out' = [out EXCEPT ![w]["down"] = <<>>] /\ out \in [Workers -> [Directions -> Seq(CellSet)]]
        /\ "down" \in Directions
    BY <1>1, <1>2
  <2> QED BY <2>1, <2>2
<1>4. /\ end' \in [Workers -> [coordinator : Ends, worker : Ends]]
      /\ end'[w].coordinator = "HalfClosed" /\ end'[w].worker = end[w].worker
      /\ \A v \in Workers : v # w => end'[v] = end[v]
  <2>1. end[w] \in [coordinator : Ends, worker : Ends] /\ "HalfClosed" \in Ends
    BY <1>2 DEF Ends
  <2>2. end'[w] = [end[w] EXCEPT !.coordinator = "HalfClosed"] /\ \A v \in Workers : v # w => end'[v] = end[v]
    BY <1>1, <1>2
  <2>3. end'[w] \in [coordinator : Ends, worker : Ends]
    BY <2>1, <2>2
  <2> QED BY <1>1, <1>2, <2>1, <2>2, <2>3
<1>5. ASSUME NEW v \in Workers, NEW e \in Directions
      PROVE  /\ ReadEnd(v, e)' = "Closed" <=> ReadEnd(v, e) = "Closed"
             /\ WriteEnd(v, e)' = "Closed" <=> WriteEnd(v, e) = "Closed"
  <2>1. (Reader[e] = "coordinator" /\ Writer[e] = "worker") \/ (Reader[e] = "worker" /\ Writer[e] = "coordinator")
    BY DirectionsDef
  <2>2. CASE v = w
    BY <1>1, <1>4, <2>1, <2>2 DEF ReadEnd, WriteEnd
  <2>3. CASE v # w
    BY <1>4, <2>3 DEF ReadEnd, WriteEnd
  <2> QED BY <2>2, <2>3
<1>6. ASSUME NEW v \in Workers, NEW e \in Directions PROVE Stream(v, e)'
  <2>1. PICK off : Carries(off, sent[v][e], got[v][e], buffer[v][e], wire[v][e], out[v][e],
                           ReadEnd(v, e), WriteEnd(v, e), damages)
    BY <1>2 DEF Streams, Stream
  <2>2. Carries(off, sent[v][e], got[v][e], buffer[v][e], wire[v][e], out'[v][e],
                ReadEnd(v, e), WriteEnd(v, e), damages)
    <3>1. CASE out'[v][e] = out[v][e]
      BY <2>1, <3>1
    <3>2. CASE out'[v][e] # out[v][e]
      <4> PICK p : p = <<>>
        OBVIOUS
      <4>1. p = <<>> /\ p \in Seq(CellSet)
        BY SMTT(60)
      <4>2. v = w /\ e = "down" /\ ReadEnd(v, e) = "Closed" /\ out'[v][e] = p
        BY <1>1, <1>3, <3>2, <4>1
      <4>3. Carries(off, sent[v][e], got[v][e], buffer[v][e], wire[v][e], out[v][e], "Closed",
                    WriteEnd(v, e), damages)
        BY <2>1, <4>2
      <4>4. Carries(off, sent[v][e], got[v][e], buffer[v][e], wire[v][e], p, "Closed",
                    WriteEnd(v, e), damages)
        BY <4>1, <4>3, CarriesVanish
      <4> QED BY <4>2, <4>4
    <3> QED BY <3>1, <3>2
  <2>3. PICK o, re, we : o = out'[v][e] /\ re = ReadEnd(v, e)' /\ we = WriteEnd(v, e)'
    OBVIOUS
  <2>4. Carries(off, sent[v][e], got[v][e], buffer[v][e], wire[v][e], o, re, we, damages)
    BY <1>5, <2>2, <2>3, CarriesHalf, SMTT(60)
  <2> QED BY <1>1, <2>3, <2>4, StreamNow
<1>7. Streams'
  BY <1>6 DEF Streams
<1>8. ConnTyped'
  BY <1>1, <1>2, <1>3, <1>4 DEF ConnTyped
<1>9. Queue' /\ Cause' /\ AckedOnce' /\ NoFalseAlarm'
  BY <1>1 DEF ConnInv, Queue, Cause, AckedOnce, Acked, NoFalseAlarm, identity
<1>10. ASSUME NEW v \in Workers PROVE Contact(v)' /\ Speech(v)'
  <2>1. Contact(v) /\ Speech(v)
    BY DEF ConnInv
  <2>2. /\ end'[v].worker = end[v].worker /\ (v # w => end'[v].coordinator = end[v].coordinator)
        /\ (v = w => ~Untouched(v) /\ peer[v] = "Told")
    BY <1>1, <1>4, <2>1 DEF Contact
  <2>3. \A e \in Directions : <<v, e>> \in resets' => WriteEnd(v, e)' = "Closed"
    BY <1>1, <1>5, <2>1 DEF Contact
  <2>4. (Over' <=> Over) /\ (Untouched(v)' <=> Untouched(v))
    BY <1>1, <2>2 DEF Over, Untouched
  <2>5. Contact(v)'
    BY <1>1, <2>1, <2>2, <2>3, <2>4 DEF Contact, Busy, Launched
  <2>6. Speech(v)'
    BY <1>1, <2>1 DEF Speech, Greeted, Acked, Serves
  <2> QED BY <2>5, <2>6
<1> QED BY <1>7, <1>8, <1>9, <1>10 DEF ConnInv

\* handshake
LEMMA GreetInv ==
    ASSUME ConnInv, greet
    PROVE  ConnInv'
<1>1. PICK w : w = candidate
  OBVIOUS
<1>2. pc = "Greet" /\ Taken(w, "up")
  BY <1>1 DEF greet
<1>3. /\ w \in Workers /\ peer[w] = "None" /\ ConnTyped /\ Streams /\ Queue /\ Contact(w) /\ Speech(w)
      /\ "down" \in Directions /\ "up" \in Directions /\ "up" # "down"
  BY <1>1, <1>2, DirectionsDef DEF ConnInv, Queue
<1>4. /\ ~Untouched(w) /\ end[w].coordinator = "Open" /\ ~Over
      /\ Len(sent[w]["down"]) = 0 /\ Len(got[w]["up"]) = 0
  BY <1>1, <1>2, <1>3 DEF Contact, Over, Speech, Greeted
<1>5. PICK m : m = next(buffer[w]["up"]).frame
  OBVIOUS
<1>6. /\ buffer' \in [Workers -> [Directions -> Seq(CellSet)]]
      /\ got' \in [Workers -> [Directions -> Seq(Messages)]]
      /\ Len(got[w]["up"]) + 1 \in 1..Len(sent[w]["up"]) /\ m = sent[w]["up"][Len(got[w]["up"]) + 1]
      /\ \A v \in Workers : \A e \in Directions :
            ~(v = w /\ e = "up") => buffer'[v][e] = buffer[v][e] /\ got'[v][e] = got[v][e]
  <2>1. /\ buffer' \in [Workers -> [Directions -> Seq(CellSet)]]
        /\ got' \in [Workers -> [Directions -> Seq(Messages)]] /\ TakesNext(w, "up", m)
        /\ \A v \in Workers : \A e \in Directions :
              ~(v = w /\ e = "up") => buffer'[v][e] = buffer[v][e] /\ got'[v][e] = got[v][e]
    BY <1>2, <1>3, <1>5, TakenDef
  <2> QED BY <2>1 DEF TakesNext
<1>7. m.type = "Hello"
  <2>1. Len(sent[w]["up"]) > 0 /\ m = sent[w]["up"][1]
    <3>1. Len(sent[w]["up"]) \in Nat
      BY <1>3, SMTT(60) DEF ConnTyped
    <3> QED BY <1>4, <1>6, <3>1, SMTT(60)
  <2> QED BY <1>3, <2>1 DEF Speech
<1>8. PICK reply \in {"HelloRefused", "HelloAck"} :
         /\ reply = "HelloAck" => identity[w] \notin Incarnations
         /\ Send(w, "down", Frame(reply, 0)) /\ alarms' = alarms
         /\ pc' = IF reply = "HelloAck" THEN "Ack" ELSE "Reject"
         /\ UNCHANGED <<backlog, candidate, peer, attempts, dispatches, launch, wpc, job, wire, end,
                        resets, killed, damages>>
  <2>1. CASE identity[w] \in Incarnations
    BY <1>1, <1>5, <1>7, <2>1 DEF greet
  <2>2. CASE identity[w] \notin Incarnations
    BY <1>1, <1>5, <1>7, <2>2 DEF greet
  <2> QED BY <2>1, <2>2
<1>9. PICK f : f = Frame(reply, 0)
  OBVIOUS
<1>10. f \in Messages /\ f.type = reply /\ f.type # "Damaged" /\ f.length <= MaxPayload
  BY <1>9, FrameType, SMTT(60) DEF Lengths
<1>11. /\ out' \in [Workers -> [Directions -> Seq(CellSet)]]
       /\ sent' \in [Workers -> [Directions -> Seq(Messages)]]
       /\ sent'[w]["down"] = Append(sent[w]["down"], f)
       /\ \A v \in Workers : \A e \in Directions :
             ~(v = w /\ e = "down") => out'[v][e] = out[v][e] /\ sent'[v][e] = sent[v][e]
  BY <1>3, <1>8, <1>9, <1>10, SendDef
<1>12. Streams'
  <2> SUFFICES ASSUME NEW v \in Workers, NEW e \in Directions PROVE Stream(v, e)'
    BY DEF Streams
  <2>1. ReadEnd(v, e)' = ReadEnd(v, e) /\ WriteEnd(v, e)' = WriteEnd(v, e)
    BY <1>8 DEF ReadEnd, WriteEnd
  <2>2. CASE v = w /\ e = "down"
    <3>1. WriteEnd(w, "down") = "Open"
      BY <1>4, DirectionsDef DEF WriteEnd
    <3>2. /\ WriteEnd(w, "down") # "Closed" /\ WriteEnd(w, "down")' # "Closed"
          /\ ReadEnd(w, "down")' = "Closed" <=> ReadEnd(w, "down") = "Closed"
      BY <2>1, <2>2, <3>1
    <3>3. /\ got'[w]["down"] = got[w]["down"] /\ buffer'[w]["down"] = buffer[w]["down"]
          /\ wire'[w]["down"] = wire[w]["down"] /\ damages' = damages
      BY <1>3, <1>6, <1>8
    <3>4. out[w]["down"] = <<>> \/ ReadEnd(w, "down") = "Closed"
      <4>1. PICK off : Carries(off, sent[w]["down"], got[w]["down"], buffer[w]["down"], wire[w]["down"],
                               out[w]["down"], ReadEnd(w, "down"), WriteEnd(w, "down"), damages)
        BY <1>3 DEF Streams, Stream
      <4> QED BY <1>4, <3>2, <4>1, FreshOut
    <3> QED BY <1>3, <1>8, <1>9, <1>10, <2>2, <3>2, <3>3, <3>4, SendStream
  <2>3. CASE v = w /\ e = "up"
    BY <1>2, <1>3, <1>5, <1>8, <1>11, <2>1, <2>3, TakenDef
  <2>4. CASE v # w
    <3>1. Same(v, e) /\ Stream(v, e)
      BY <1>3, <1>6, <1>8, <1>11, <2>1, <2>4 DEF Same, Streams
    <3> QED BY <3>1 DEF Stream, Same
  <2> QED BY <2>2, <2>3, <2>4, DirectionsDef
<1>13. ConnTyped'
  BY <1>3, <1>6, <1>8, <1>11 DEF ConnTyped
<1>14. Queue' /\ Cause' /\ NoFalseAlarm'
  BY <1>1, <1>3, <1>8 DEF ConnInv, Queue, Cause, NoFalseAlarm
<1>15. Len(sent'[w]["down"]) = 1 /\ sent'[w]["down"][1].type = reply
  <2>1. sent[w]["down"] \in Seq(Messages)
    BY <1>3, SMTT(60) DEF ConnTyped
  <2> QED BY <1>4, <1>10, <1>11, <2>1, SMTT(60)
<1>16. \A v \in Workers : v # w => (Acked(v)' <=> Acked(v)) /\ (Acked(v) => identity[v] \in Incarnations)
  <2> SUFFICES ASSUME NEW v \in Workers, v # w
               PROVE  (Acked(v)' <=> Acked(v)) /\ (Acked(v) => identity[v] \in Incarnations)
    OBVIOUS
  <2>1. sent'[v]["down"] = sent[v]["down"] /\ Speech(v)
    BY <1>3, <1>11 DEF ConnInv
  <2>2. Acked(v) => peer[v] # "None"
    BY <1>1, <2>1, SMTT(60) DEF Speech, Greeted, Acked
  <2> QED BY <2>1, <2>2 DEF Acked, Incarnations
<1>17. Acked(w)' => reply = "HelloAck"
  BY <1>15 DEF Acked
<1>18. AckedOnce'
  <2> SUFFICES ASSUME NEW u \in Workers, NEW v \in Workers, u # v, Acked(u)', Acked(v)'
               PROVE  identity[u] # identity[v]
    BY <1>8 DEF AckedOnce, identity
  <2>1. CASE u # w /\ v # w
    BY <1>16, <2>1 DEF ConnInv, AckedOnce
  <2>2. CASE u = w \/ v = w
    BY <1>8, <1>16, <1>17, <2>2
  <2> QED BY <2>1, <2>2
<1>19. ASSUME NEW v \in Workers PROVE Contact(v)' /\ Speech(v)'
  <2>1. Contact(v) /\ Speech(v)
    BY DEF ConnInv
  <2>2. ~Over' /\ (Untouched(v)' <=> Untouched(v)) /\ (Serves(v)' <=> Serves(v))
    BY <1>8 DEF Over, Untouched, Serves
  <2>3. CASE v = w
    <3>1. sent'[w]["up"] = sent[w]["up"] /\ got'[w]["down"] = got[w]["down"]
      BY <1>3, <1>6, <1>11
    <3>2. Contact(w)'
      BY <1>3, <1>4, <1>8, <2>2, <2>3, <3>1 DEF Contact, Busy, Launched, WriteEnd
    <3>3. Greeted(w)' /\ (pc' = "Ack" => Acked(w)')
      BY <1>1, <1>8, <1>15, SMTT(60) DEF Greeted, Acked
    <3>4. \A i \in 1..Len(sent'[w]["down"]) :
             sent'[w]["down"][i].type \in (IF i = 1 THEN {"HelloAck", "HelloRefused"}
                                           ELSE {"Dispatch", "Shutdown"})
      BY <1>15, SMTT(60)
    <3>5. Speech(w)'
      BY <1>3, <1>8, <2>2, <2>3, <3>1, <3>3, <3>4 DEF Speech
    <3> QED BY <2>3, <3>2, <3>5
  <2>4. CASE v # w
    <3>1. \A e \in Directions : sent'[v][e] = sent[v][e] /\ got'[v][e] = got[v][e]
      BY <1>6, <1>11, <2>4
    <3>2. Contact(v)'
      BY <1>4, <1>8, <2>1, <2>2, <3>1, DirectionsDef DEF Contact, Busy, Launched, WriteEnd
    <3>3. Speech(v)'
      BY <1>1, <1>2, <1>8, <2>1, <2>4, <3>1, DirectionsDef DEF Speech, Greeted, Acked, Serves
    <3> QED BY <3>2, <3>3
  <2> QED BY <2>3, <2>4
<1> QED BY <1>12, <1>13, <1>14, <1>18, <1>19 DEF ConnInv

-----------------------------------------------------------------------------
(***************************************************************************)
(* The theorems                                                            *)
(***************************************************************************)

\* No process has started to talk.
LEMMA ConnInit ==
    ASSUME Init
    PROVE  ConnInv
<1>1. /\ pc = "Accept" /\ backlog = <<>> /\ candidate = NoWorker
      /\ peer = [w \in Workers |-> "None"] /\ dispatches = 0 /\ launch \in Launches
      /\ wpc = [w \in Workers |-> IF w \in Launched THEN "Start" ELSE "Absent"]
      /\ job = [w \in Workers |-> 0]
      /\ end = [w \in Workers |-> [coordinator |-> "None", worker |-> "None"]]
      /\ resets = {} /\ alarms = {} /\ damages = 0
  BY DEF Init
<1>2. \A v \in Workers : \A e \in Directions :
         /\ out[v][e] = <<>> /\ wire[v][e] = <<>> /\ buffer[v][e] = <<>>
         /\ sent[v][e] = <<>> /\ got[v][e] = <<>>
  BY DEF Init, Nothing
<1>3. /\ out = Nothing /\ wire = Nothing /\ buffer = Nothing /\ sent = Nothing /\ got = Nothing
  BY DEF Init
<1>4. /\ Nothing \in [Workers -> [Directions -> Seq(CellSet)]]
      /\ Nothing \in [Workers -> [Directions -> Seq(Messages)]]
  <2>1. <<>> \in Seq(CellSet) /\ <<>> \in Seq(Messages)
    BY SMTT(60)
  <2> QED BY <2>1 DEF Nothing
<1>5. end \in [Workers -> [coordinator : Ends, worker : Ends]]
  <2>1. [coordinator |-> "None", worker |-> "None"] \in [coordinator : Ends, worker : Ends]
    BY DEF Ends
  <2> QED BY <1>1, <2>1
<1>6. ConnTyped
  <2>1. backlog \in Seq(Workers) /\ Len(backlog) = 0
    BY <1>1, SMTT(60)
  <2> QED BY <1>1, <1>3, <1>4, <1>5, <2>1 DEF ConnTyped
<1>7. Streams
  <2> SUFFICES ASSUME NEW v \in Workers, NEW e \in Directions PROVE Stream(v, e)
    BY DEF Streams
  <2>1. PICK off : Carries(off, <<>>, <<>>, <<>>, <<>>, <<>>, "None", "None", 0)
    BY CarriesNothing
  <2>2. ReadEnd(v, e) = "None" /\ WriteEnd(v, e) = "None"
    BY <1>1, DirectionsDef, SMTT(60) DEF ReadEnd, WriteEnd
  <2>3. Carries(off, sent[v][e], got[v][e], buffer[v][e], wire[v][e], out[v][e],
                ReadEnd(v, e), WriteEnd(v, e), damages)
    BY <1>1, <1>2, <2>1, <2>2
  <2> QED BY <2>3 DEF Stream
<1>8. Queue /\ Cause /\ NoFalseAlarm
  <2>1. Len(backlog) = 0
    BY <1>1
  <2> QED BY <1>1, <2>1, SMTT(60) DEF Queue, Cause, NoFalseAlarm
<1>9. ASSUME NEW v \in Workers PROVE Contact(v) /\ Speech(v) /\ ~Acked(v)
  <2>1. \A e \in Directions : Len(sent[v][e]) = 0 /\ Len(got[v][e]) = 0
    BY <1>2, SMTT(60)
  <2>2. ~Acked(v)
    BY <2>1, DirectionsDef, SMTT(60) DEF Acked
  <2>3. /\ end[v].worker = "None" /\ end[v].coordinator = "None" /\ peer[v] = "None"
        /\ v # candidate /\ Len(backlog) = 0
        /\ wpc[v] = IF v \in Launched THEN "Start" ELSE "Absent"
    BY <1>1, ConnectionAssumption
  <2>4. Contact(v)
    BY <1>1, <2>1, <2>3, SMTT(60) DEF Contact, Untouched, Busy
  <2>5. Speech(v)
    BY <1>1, <2>1, <2>3, DirectionsDef, SMTT(60) DEF Speech, Serves
  <2> QED BY <2>2, <2>4, <2>5
<1>10. AckedOnce
  BY <1>9 DEF AckedOnce
<1> QED BY <1>6, <1>7, <1>8, <1>9, <1>10 DEF ConnInv

\* A step that changes nothing.
LEMMA ConnStutters ==
    ASSUME ConnInv, UNCHANGED vars
    PROVE  ConnInv'
<1>1. UNCHANGED <<pc, backlog, candidate, peer, attempts, dispatches, launch, wpc, job, out, wire, buffer,
                  sent, got, end, resets, alarms, killed, damages>>
  BY DEF vars
<1>2. ConnTyped' /\ Streams'
  BY <1>1 DEF ConnInv, ConnTyped, Streams, Stream, ReadEnd, WriteEnd
<1> QED BY <1>1, <1>2, CellsMove DEF ConnInv

\* Every step of the coordinator, of a worker, of the kernel and of the faults.
LEMMA ConnNext ==
    ASSUME ConnInv, [Next]_vars
    PROVE  ConnInv'
<1>1. CASE UNCHANGED vars
  BY <1>1, ConnStutters
<1>2. CASE CoordinatorStep
  <2>1. CASE accept \/ greet \/ acknowledged \/ greeting_fails \/ rounds_end \/ exit
    BY <2>1, AcceptInv, GreetInv, AcknowledgedInv, GreetingFailsInv, RoundsEndInv, ExitInv
  <2>2. ASSUME NEW w \in Workers, coordinator_reads(w) PROVE ConnInv'
    BY <2>2, ReadInv, DirectionsDef DEF coordinator_reads
  <2>3. ASSUME NEW w \in Workers, NEW k \in Cells, Write(w, "down", k) PROVE ConnInv'
    BY <2>3, WriteInv, DirectionsDef
  <2>4. ASSUME NEW w \in Workers, dispatch(w) \/ drain(w) \/ peer_lost(w) \/ shutdown_peer(w) \/ half_close(w)
        PROVE  ConnInv'
    BY <2>4, DispatchInv, DrainInv, PeerLostInv, ShutdownPeerInv, HalfCloseInv
  <2> QED BY <1>2, <2>1, <2>2, <2>3, <2>4 DEF CoordinatorStep
<1>3. CASE Fault
  <2>1. CASE coordinator_killed \/ send_signals
    BY <2>1, CoordinatorDiesInv
  <2>2. ASSUME NEW w \in Workers, worker_gives_up(w) \/ worker_killed(w) PROVE ConnInv'
    BY <2>2, WorkerGoneInv
  <2>3. ASSUME NEW w \in Workers, NEW d \in Directions, Reset(w, d) PROVE ConnInv'
    BY <2>3, ResetInv
  <2>4. ASSUME NEW w \in Workers, NEW d \in Directions, NEW n \in 0..(MaxPayload + 1), Damage(w, d, n)
        PROVE  ConnInv'
    <3>1. n \in Nat
      BY FramingAssumption, SMTT(60)
    <3> QED BY <2>4, <3>1, DamageInv
  <2> QED BY <1>3, <2>1, <2>2, <2>3, <2>4 DEF Fault
<1>4. ASSUME NEW w \in Workers, WorkerStep(w) PROVE ConnInv'
  <2>1. CASE connect(w) \/ connect_fails(w) \/ worker_accepted(w) \/ worker_starts(w) \/ worker_completes(w)
    BY <2>1, ConnectInv, ConnectFailsInv, WorkerAcceptedInv, WorkerStartsInv, WorkerCompletesInv
  <2>2. CASE worker_reads(w)
    BY <2>2, ReadInv, DirectionsDef DEF worker_reads
  <2>3. ASSUME NEW k \in Cells, Write(w, "up", k) PROVE ConnInv'
    BY <2>3, WriteInv, DirectionsDef
  <2>4. CASE worker_stops(w) \/ worker_fails(w) \/ worker_cut_off(w)
    BY <2>4, WorkerStopsInv, WorkerFailsInv, WorkerGoneInv
  <2> QED BY <1>4, <2>1, <2>2, <2>3, <2>4 DEF WorkerStep
<1> QED BY <1>1, <1>2, <1>3, <1>4 DEF Next

\* The invariant of the connections.
THEOREM ConnectionInvariance == Spec => []ConnInv
<1>1. Init => ConnInv
  BY ConnInit
<1>2. ConnInv /\ [Next]_vars => ConnInv'
  BY ConnNext
<1> QED BY <1>1, <1>2, PTL DEF Spec

\* However send_all, recv_some, a crash or a damaged cell cut up the stream, what
\* FrameAccumulator::next has returned is a prefix of what encode_frame was given,
\* for any lengths of frames and reads and any number of workers.
THEOREM FramesArriveInOrder == Spec => []InOrder
<1>1. ConnInv => InOrder
  <2> SUFFICES ASSUME ConnInv, NEW w \in Workers, NEW d \in Directions
               PROVE  /\ Len(got[w][d]) <= Len(sent[w][d])
                      /\ got[w][d] = SubSeq(sent[w][d], 1, Len(got[w][d]))
    BY DEF InOrder
  <2>1. PICK off : Carries(off, sent[w][d], got[w][d], buffer[w][d], wire[w][d], out[w][d],
                           ReadEnd(w, d), WriteEnd(w, d), damages)
    BY DEF ConnInv, Streams, Stream
  <2>2. PICK S, G : S = sent[w][d] /\ G = got[w][d]
    OBVIOUS
  <2>3. /\ S \in Seq(Messages) /\ G \in Seq(Messages) /\ Len(G) \in Nat /\ Len(S) \in Nat
        /\ Len(G) <= Len(S)
    BY <2>1, <2>2, CarriesTypes
  <2>4. \A i \in 1..Len(G) : G[i] = S[i]
    BY <2>1, <2>2 DEF Carries
  <2>5. G = SubSeq(S, 1, Len(G))
    BY <2>3, <2>4, SMTT(60)
  <2> QED BY <2>2, <2>3, <2>5
<1> QED BY <1>1, ConnectionInvariance, PTL

\* Where no cell was damaged, neither push, next, the coordinator's handshake nor
\* the worker's loop has met a protocol error, whoever has been killed.
THEOREM OnlyDamageAlarms == Spec => []NoFalseAlarm
<1>1. ConnInv => NoFalseAlarm
  BY DEF ConnInv
<1> QED BY <1>1, ConnectionInvariance, PTL

\* The handshake of the coordinator lets one process of an incarnation serve.
THEOREM OneIncarnationServes == Spec => []OneServes
<1>1. ConnInv => OneServes
  <2> SUFFICES ASSUME ConnInv PROVE OneServes
    OBVIOUS
  <2>1. ASSUME NEW w \in Workers, Serves(w) PROVE Acked(w)
    <3>1. PICK off : Carries(off, sent[w]["down"], got[w]["down"], buffer[w]["down"], wire[w]["down"],
                             out[w]["down"], ReadEnd(w, "down"), WriteEnd(w, "down"), damages)
      BY DirectionsDef DEF ConnInv, Streams, Stream
    <3>2. Len(got[w]["down"]) > 0 /\ got[w]["down"][1].type = "HelloAck"
      BY <2>1 DEF ConnInv, Speech
    <3>3. /\ Len(got[w]["down"]) \in Nat /\ Len(sent[w]["down"]) \in Nat
          /\ Len(got[w]["down"]) <= Len(sent[w]["down"])
      BY <3>1, CarriesTypes
    <3>4. \A i \in 1..Len(got[w]["down"]) : got[w]["down"][i] = sent[w]["down"][i]
      BY <3>1 DEF Carries
    <3>5. 1 \in 1..Len(got[w]["down"]) /\ Len(sent[w]["down"]) > 0
      BY <3>2, <3>3, SMTT(60)
    <3> QED BY <3>2, <3>4, <3>5 DEF Acked
  <2> QED BY <2>1 DEF OneServes, ConnInv, AckedOnce
<1> QED BY <1>1, ConnectionInvariance, PTL

\* A run that fails although every worker was accepted and nobody killed the
\* coordinator is one where a failing send raises a signal: what becomes of the
\* workers ends no run.
THEOREM LostWorkersEndNoRun == Spec => []RunGoesOnWinsock
<1>1. ConnInv => RunGoesOnWinsock
  BY DEF ConnInv, Cause, RunGoesOnWinsock, CutShort
<1> QED BY <1>1, ConnectionInvariance, PTL

=============================================================================
