----------------------------- MODULE LinkProofs -----------------------------
(***************************************************************************)
(* Proofs about Link, for every heartbeat interval, prove time, deadline,  *)
(* transit time, frame length and channel capacity.                        *)
(***************************************************************************)
EXTENDS Link, TLAPS

----------------------------------------------------------------------------
(***************************************************************************)
(* The inductive invariant.                                                *)
(***************************************************************************)

\* A read that has begun waits for at least one more unit.
ReadOK(rd) == IF rd.at = "start" THEN rd = Start ELSE rd.left > 0

\* A frame begins at place k of a wire, or the wire ends before it.
Boundary(wire, k) == k \in 1..(Len(wire) + 1) /\ (k <= Len(wire) => wire[k].i = 0)

\* Every frame on a wire is whole and followed by a boundary: frames are
\* written in one piece and only their reader takes them apart.
Framed(wire) ==
  \A j \in 1..Len(wire) :
     wire[j].i = 0 => /\ Boundary(wire, j + Size(wire[j].m) + 1)
                      /\ \A k \in 1..Size(wire[j].m) : wire[j + k].i # 0

\* The read ends where the frame does that it began.
Aligned(rd, wire) ==
  /\ rd.at # "junk"
  /\ Boundary(wire, rd.left + 1)
  /\ \A k \in 1..rd.left : wire[k].i # 0

InStep ==
  /\ Framed(toW) /\ Framed(toC)
  /\ "worker" \notin lost => Aligned(wread, toW)
  /\ "session" \notin lost => Aligned(cread, toC)

\* A heartbeat the session has not read to its end.
CarriesBeat(wire) == \E j \in 1..Len(wire) : wire[j].i = 0 /\ wire[j].m = "beat"
BeatUnderWay == (cread.at = "payload" /\ cread.m = "beat") \/ CarriesBeat(toC)

\* Since last_seen, every tick ran down the heartbeat timer, was spent away from
\* the select loop, or found a heartbeat on the wire.
BeatsTimely ==
  cpc = "select" /\ wpc # "ended" /\ "session" \notin lost
    => IF BeatUnderWay THEN age <= absent + Interval + lagC
                       ELSE age <= absent + Interval - due

\* A session ends before its worker only when the entry is gone or it lost step.
EndsExplained ==
  /\ cpc = "ended" => ~enrolled \/ "session" \in lost \/ wpc = "ended"
  /\ verdict = "stale" => ~enrolled

IInv == /\ TypeOK /\ ReadOK(wread) /\ ReadOK(cread)
        /\ InStep /\ InStepUntilDropped
        /\ BeatsTimely /\ EndsExplained /\ HealthyKept

----------------------------------------------------------------------------
(***************************************************************************)
(* Wires.                                                                  *)
(***************************************************************************)

\* Every frame is a length and at least one part of payload.
LEMMA Sizes == ASSUME NEW m PROVE Size(m) \in 1..Parts
  BY LinkAssumption DEF Size

LEMMA TailUnits ==
  ASSUME NEW wire \in Seq(Units), wire # <<>>
  PROVE  /\ Head(wire) = wire[1] /\ Head(wire) \in Units
         /\ Tail(wire) \in Seq(Units) /\ Len(wire) \in Nat /\ Len(wire) > 0
         /\ Len(Tail(wire)) = Len(wire) - 1
         /\ \A k \in 1..(Len(wire) - 1) : Tail(wire)[k] = wire[k + 1]
  OBVIOUS

LEMMA FrameUnits ==
  ASSUME NEW m \in Msgs
  PROVE  /\ Frame(m) \in Seq(Units) /\ Len(Frame(m)) = Size(m) + 1
         /\ Frame(m)[1].i = 0 /\ Frame(m)[1].m = m
         /\ \A k \in 2..(Size(m) + 1) : Frame(m)[k].i # 0
<1>1. Size(m) \in 1..Parts /\ Parts \in Nat
  BY Sizes, LinkAssumption
<1>2. \A k \in 1..(Size(m) + 1) : [m |-> m, i |-> k - 1] \in Units
  BY <1>1 DEF Units
<1>. QED  BY <1>1, <1>2 DEF Frame

\* A wire after write_frame.
LEMMA WrittenUnits ==
  ASSUME NEW wire \in Seq(Units), NEW m \in Msgs
  PROVE  /\ wire \o Frame(m) \in Seq(Units) /\ Len(wire) \in Nat
         /\ Len(wire \o Frame(m)) = Len(wire) + Size(m) + 1
         /\ \A k \in 1..Len(wire) : (wire \o Frame(m))[k] = wire[k]
         /\ (wire \o Frame(m))[Len(wire) + 1].i = 0
         /\ (wire \o Frame(m))[Len(wire) + 1].m = m
         /\ \A k \in (Len(wire) + 2)..(Len(wire) + Size(m) + 1) :
               (wire \o Frame(m))[k].i # 0
<1>1. /\ Frame(m) \in Seq(Units) /\ Len(Frame(m)) = Size(m) + 1
      /\ Frame(m)[1].i = 0 /\ Frame(m)[1].m = m /\ Size(m) \in 1..Parts /\ Parts \in Nat
      /\ \A k \in 2..(Size(m) + 1) : Frame(m)[k].i # 0
  BY FrameUnits, Sizes, LinkAssumption
<1>2. PICK f \in Seq(Units) : f = Frame(m)
  BY <1>1
<1>3. /\ wire \o f \in Seq(Units) /\ Len(wire) \in Nat
      /\ Len(wire \o f) = Len(wire) + Len(f)
      /\ \A k \in 1..Len(wire) : (wire \o f)[k] = wire[k]
      /\ \A k \in (Len(wire) + 1)..(Len(wire) + Len(f)) : (wire \o f)[k] = f[k - Len(wire)]
  OBVIOUS
<1>4. (wire \o f)[Len(wire) + 1] = f[1]
  BY <1>1, <1>2, <1>3
<1>5. ASSUME NEW k \in (Len(wire) + 2)..(Len(wire) + Size(m) + 1)
      PROVE  (wire \o f)[k].i # 0
  <2>1. (wire \o f)[k] = f[k - Len(wire)] /\ k - Len(wire) \in 2..(Size(m) + 1)
    BY <1>1, <1>2, <1>3
  <2>. QED  BY <1>1, <1>2, <2>1
<1>6. Len(wire \o f) = Len(wire) + Size(m) + 1
  BY <1>1, <1>2, <1>3
<1>7. (wire \o f)[Len(wire) + 1].i = 0 /\ (wire \o f)[Len(wire) + 1].m = m
  BY <1>1, <1>2, <1>4
<1>. QED  BY <1>2, <1>3, <1>5, <1>6, <1>7, Zenon

\* Reading a unit moves every boundary by one place.
LEMMA BoundaryTail ==
  ASSUME NEW wire \in Seq(Units), wire # <<>>, NEW k \in Nat, k > 1, Boundary(wire, k)
  PROVE  Boundary(Tail(wire), k - 1)
  BY TailUnits DEF Boundary

LEMMA BoundaryWritten ==
  ASSUME NEW wire \in Seq(Units), NEW m \in Msgs, NEW k, Boundary(wire, k)
  PROVE  Boundary(wire \o Frame(m), k)
<1>1. PICK w \in Seq(Units) : w = wire \o Frame(m)
  BY WrittenUnits
<1>2. /\ Len(wire) \in Nat /\ Len(w) = Len(wire) + Size(m) + 1
      /\ \A j \in 1..Len(wire) : w[j] = wire[j]
      /\ w[Len(wire) + 1].i = 0
  BY <1>1, WrittenUnits
<1>3. Size(m) \in Nat
  BY Sizes, LinkAssumption
<1>4. k \in 1..(Len(wire) + 1) /\ (k <= Len(wire) => wire[k].i = 0)
  BY DEF Boundary
<1>5. k \in 1..(Len(w) + 1)
  BY <1>2, <1>3, <1>4
<1>6. w[k].i = 0
  BY <1>2, <1>4
<1>. QED  BY <1>1, <1>5, <1>6 DEF Boundary

LEMMA FramedTail ==
  ASSUME NEW wire \in Seq(Units), wire # <<>>, Framed(wire)
  PROVE  Framed(Tail(wire))
<1>. SUFFICES ASSUME NEW j \in 1..Len(Tail(wire)), Tail(wire)[j].i = 0
              PROVE  /\ Boundary(Tail(wire), j + Size(Tail(wire)[j].m) + 1)
                     /\ \A k \in 1..Size(Tail(wire)[j].m) : Tail(wire)[j + k].i # 0
  BY DEF Framed
<1>1. Tail(wire)[j] = wire[j + 1] /\ j + 1 \in 1..Len(wire) /\ Len(wire) \in Nat
  BY TailUnits
<1>2. PICK z \in 1..Parts : z = Size(wire[j + 1].m)
  BY Sizes
<1>3. Boundary(wire, j + 1 + z + 1) /\ \A k \in 1..z : wire[j + 1 + k].i # 0
  BY <1>1, <1>2 DEF Framed
<1>4. Boundary(Tail(wire), j + z + 1)
  <2>1. j + 1 + z + 1 \in Nat /\ j + 1 + z + 1 > 1 /\ (j + 1 + z + 1) - 1 = j + z + 1
    BY LinkAssumption
  <2>. QED  BY <1>3, <2>1, BoundaryTail
<1>5. ASSUME NEW k \in 1..z PROVE Tail(wire)[j + k].i # 0
  <2>1. j + 1 + z + 1 \in 1..(Len(wire) + 1)
    BY <1>3 DEF Boundary
  <2>2. j + k \in 1..(Len(wire) - 1) /\ j + k + 1 = j + 1 + k
    BY <1>1, <2>1, LinkAssumption
  <2>3. Tail(wire)[j + k] = wire[j + k + 1]
    BY <2>2, TailUnits
  <2>. QED  BY <1>3, <2>2, <2>3
<1>. QED  BY <1>1, <1>2, <1>4, <1>5

LEMMA FramedWritten ==
  ASSUME NEW wire \in Seq(Units), NEW m \in Msgs, Framed(wire)
  PROVE  Framed(wire \o Frame(m))
<1>1. PICK w \in Seq(Units) : w = wire \o Frame(m)
  BY WrittenUnits
<1>2. PICK n \in Nat : n = Len(wire)
  BY WrittenUnits
<1>3. PICK z \in 1..Parts : z = Size(m)
  BY Sizes
<1>4. /\ Len(w) = n + z + 1 /\ w[n + 1].i = 0 /\ w[n + 1].m = m
      /\ \A k \in 1..n : w[k] = wire[k]
      /\ \A k \in (n + 2)..(n + z + 1) : w[k].i # 0
  BY <1>1, <1>2, <1>3, WrittenUnits
<1>. SUFFICES ASSUME NEW j \in 1..Len(w), w[j].i = 0
              PROVE  /\ Boundary(w, j + Size(w[j].m) + 1)
                     /\ \A k \in 1..Size(w[j].m) : w[j + k].i # 0
  BY <1>1 DEF Framed
<1>5. CASE j <= n
  <2>1. w[j] = wire[j] /\ j \in 1..Len(wire)
    BY <1>2, <1>4, <1>5
  <2>2. PICK y \in 1..Parts : y = Size(wire[j].m)
    BY Sizes
  <2>3. Boundary(wire, j + y + 1) /\ \A k \in 1..y : wire[j + k].i # 0
    BY <2>1, <2>2 DEF Framed
  <2>4. Boundary(w, j + y + 1)
    BY <1>1, <2>3, BoundaryWritten
  <2>5. ASSUME NEW k \in 1..y PROVE w[j + k].i # 0
    <3>1. j + k \in 1..n
      BY <1>2, <2>3, LinkAssumption DEF Boundary
    <3>. QED  BY <1>4, <2>3, <3>1
  <2>. QED  BY <2>1, <2>2, <2>4, <2>5
<1>6. CASE j = n + 1
  <2>1. Size(w[j].m) = z
    BY <1>3, <1>4, <1>6
  <2>2. Boundary(w, j + z + 1)
    BY <1>4, <1>6, LinkAssumption DEF Boundary
  <2>3. ASSUME NEW k \in 1..z PROVE w[j + k].i # 0
    <3>1. j + k \in (n + 2)..(n + z + 1)
      BY <1>6, LinkAssumption
    <3>. QED  BY <1>4, <3>1
  <2>. QED  BY <2>1, <2>2, <2>3
<1>7. CASE j > n + 1
  <2>1. j \in (n + 2)..(n + z + 1)
    BY <1>4, <1>7
  <2>. QED  BY <1>4, <2>1
<1>. QED  BY <1>4, <1>5, <1>6, <1>7

----------------------------------------------------------------------------
(***************************************************************************)
(* Reads.                                                                  *)
(***************************************************************************)

LEMMA ReadFields ==
  ASSUME NEW rd \in Reads
  PROVE  /\ rd.at \in {"start", "payload", "junk"} /\ rd.m \in Msgs \cup {""}
         /\ rd.left \in 0..(Parts + 2) /\ rd.left \in Nat
<1>1. rd.left \in 0..(Parts + 2)
  BY DEF Reads
<1>2. rd.left \in Nat
  BY <1>1, LinkAssumption
<1>3. rd.at \in {"start", "payload", "junk"} /\ rd.m \in Msgs \cup {""}
  BY DEF Reads
<1>. QED  BY <1>1, <1>2, <1>3

LEMMA Waiting ==
  ASSUME NEW n \in 1..(Parts + 2)
  PROVE  n \in 0..(Parts + 2) /\ n > 0
  BY LinkAssumption

LEMMA ReadOn ==
  ASSUME NEW at \in {"payload", "junk"}, NEW m \in Msgs \cup {""},
         NEW n, n \in 1..(Parts + 2)
  PROVE  LET r == More(at, m, n)
         IN  r.rd \in Reads /\ ReadOK(r.rd) /\ r.t = "more"
<1>1. n \in 0..(Parts + 2) /\ n > 0
  BY Waiting
<1>2. [at |-> at, m |-> m, left |-> n] \in Reads
  BY <1>1 DEF Reads
<1>3. ReadOK([at |-> at, m |-> m, left |-> n])
  BY <1>1, at # "start" DEF ReadOK
<1>. QED  BY <1>2, <1>3 DEF More

\* The outcomes of read_frame.
LEMMA ReadCases ==
  ASSUME NEW rd \in Reads, ReadOK(rd), NEW u \in Units, NEW r \in read_frame(rd, u)
  PROVE  \/ rd = Start /\ u.i = 0 /\ r = More("payload", u.m, Size(u.m))
         \/ rd = Start /\ u.i # 0 /\ r = FrameError
         \/ rd = Start /\ u.i # 0 /\ \E n \in 1..2 : r = More("junk", "", n)
         \/ rd.at # "start" /\ rd.left > 1 /\ r = More(rd.at, rd.m, rd.left - 1)
         \/ rd.at = "payload" /\ rd.left = 1 /\ r = Whole(rd.m)
         \/ rd.at = "junk" /\ rd.left = 1 /\ r = FrameError
<1>1. rd.at \in {"start", "payload", "junk"} /\ rd.left \in Nat
  BY ReadFields
<1>2. CASE rd.at = "start"
  <2>1. rd = Start
    BY <1>2 DEF ReadOK
  <2>2. CASE u.i = 0
    BY <1>2, <2>1, <2>2 DEF read_frame
  <2>3. CASE u.i # 0
    BY <1>2, <2>1, <2>3 DEF read_frame
  <2>. QED  BY <2>2, <2>3
<1>3. CASE rd.at # "start"
  <2>1. rd.left = 1 \/ rd.left > 1
    BY <1>1, <1>3 DEF ReadOK
  <2>2. CASE rd.left > 1
    BY <1>1, <1>3, <2>2 DEF read_frame
  <2>3. CASE rd.left = 1 /\ rd.at = "payload"
    BY <2>3 DEF read_frame
  <2>4. CASE rd.left = 1 /\ rd.at = "junk"
    BY <2>4 DEF read_frame
  <2>. QED  BY <1>1, <1>3, <2>1, <2>2, <2>3, <2>4
<1>. QED  BY <1>2, <1>3

LEMMA StartRead == Start \in Reads /\ ReadOK(Start) /\ Start.at = "start" /\ Start.left = 0
  BY LinkAssumption DEF Start, Reads, ReadOK

\* A read stays a read.
LEMMA ReadType ==
  ASSUME NEW rd \in Reads, ReadOK(rd), NEW u \in Units, NEW r \in read_frame(rd, u)
  PROVE  r.rd \in Reads /\ ReadOK(r.rd) /\ r.t \in {"more", "frame", "error"}
<1>1. /\ rd.at \in {"start", "payload", "junk"} /\ rd.m \in Msgs \cup {""}
      /\ u.m \in Msgs
  <2>1. u.m \in Msgs
    BY DEF Units
  <2>. QED  BY <2>1, ReadFields
<1>2. ASSUME NEW at \in {"payload", "junk"}, NEW m \in Msgs \cup {""},
             NEW n, n \in 1..(Parts + 2), r = More(at, m, n)
      PROVE  r.rd \in Reads /\ ReadOK(r.rd) /\ r.t = "more"
  BY <1>2, ReadOn
<1>3. CASE rd = Start /\ u.i = 0 /\ r = More("payload", u.m, Size(u.m))
  <2>1. Size(u.m) \in 1..(Parts + 2)
    <3>1. PICK z \in 1..Parts : z = Size(u.m)
      BY Sizes
    <3>2. z \in 1..(Parts + 2)
      BY LinkAssumption
    <3>. QED  BY <3>1, <3>2
  <2>. QED  BY <1>1, <1>2, <1>3, <2>1
<1>4. CASE \E n \in 1..2 : r = More("junk", "", n)
  <2>1. PICK n \in 1..2 : r = More("junk", "", n)
    BY <1>4
  <2>2. n \in 1..(Parts + 2)
    BY LinkAssumption
  <2>. QED  BY <1>2, <2>1, <2>2
<1>5. CASE rd.at # "start" /\ rd.left > 1 /\ r = More(rd.at, rd.m, rd.left - 1)
  <2>1. PICK z \in 0..(Parts + 2) : z = rd.left /\ z > 1
    BY <1>5, ReadFields
  <2>2. z - 1 \in 1..(Parts + 2)
    BY <2>1, LinkAssumption
  <2>3. rd.left - 1 \in 1..(Parts + 2)
    BY <2>1, <2>2
  <2>4. rd.at \in {"payload", "junk"}
    BY <1>1, <1>5
  <2>5. r.rd \in Reads /\ ReadOK(r.rd) /\ r.t = "more"
    BY <1>1, <1>2, <1>5, <2>3, <2>4, Zenon
  <2>. QED  BY <2>5
<1>6. CASE r = FrameError \/ r = Whole(rd.m)
  <2>1. CASE r = FrameError
    BY <2>1, StartRead DEF FrameError
  <2>2. CASE r = Whole(rd.m)
    BY <2>2, StartRead DEF Whole
  <2>. QED  BY <1>6, <2>1, <2>2
<1>. QED  BY <1>3, <1>4, <1>5, <1>6, ReadCases

\* An aligned read of whole frames meets no error, stays aligned, and gives up
\* the beginning of a frame only to begin that frame.
LEMMA ReadInStep ==
  ASSUME NEW rd \in Reads, ReadOK(rd), NEW wire \in Seq(Units), wire # <<>>,
         Framed(wire), Aligned(rd, wire), NEW r \in read_frame(rd, Head(wire))
  PROVE  /\ r.t # "error" /\ Aligned(r.rd, Tail(wire))
         /\ \/ /\ rd = Start /\ wire[1].i = 0
               /\ r = More("payload", wire[1].m, Size(wire[1].m))
            \/ /\ rd.at = "payload" /\ rd.left > 1 /\ wire[1].i # 0
               /\ r = More("payload", rd.m, rd.left - 1)
            \/ /\ rd.at = "payload" /\ rd.left = 1 /\ wire[1].i # 0
               /\ r = Whole(rd.m)
<1>1. /\ Head(wire) = wire[1] /\ Len(wire) \in Nat /\ Len(wire) > 0 /\ Head(wire) \in Units
      /\ Len(Tail(wire)) = Len(wire) - 1
      /\ \A k \in 1..(Len(wire) - 1) : Tail(wire)[k] = wire[k + 1]
  BY TailUnits
<1>2. rd.left \in Nat /\ rd.at \in {"start", "payload"}
  BY ReadFields DEF Aligned
<1>3. Boundary(wire, rd.left + 1) /\ \A k \in 1..rd.left : wire[k].i # 0
  BY DEF Aligned
<1>4. CASE rd = Start
  <2>1. wire[1].i = 0
    BY <1>1, <1>3, <1>4, StartRead DEF Boundary
  <2>2. r = More("payload", wire[1].m, Size(wire[1].m))
    BY <1>1, <1>4, <2>1, ReadCases, StartRead
  <2>3. PICK z \in 1..Parts : z = Size(wire[1].m)
    BY Sizes
  <2>4. Boundary(wire, 1 + z + 1) /\ \A k \in 1..z : wire[1 + k].i # 0
    BY <1>1, <2>1, <2>3 DEF Framed
  <2>5. r.rd.at = "payload" /\ r.rd.left = z /\ r.t = "more"
    BY <2>2, <2>3 DEF More
  <2>6. Boundary(Tail(wire), z + 1)
    <3>1. 1 + z + 1 \in Nat /\ 1 + z + 1 > 1 /\ (1 + z + 1) - 1 = z + 1
      BY LinkAssumption
    <3>. QED  BY <2>4, <3>1, BoundaryTail
  <2>7. ASSUME NEW k \in 1..z PROVE Tail(wire)[k].i # 0
    <3>1. k \in 1..(Len(wire) - 1) /\ k + 1 = 1 + k
      BY <1>1, <2>4, LinkAssumption DEF Boundary
    <3>. QED  BY <1>1, <2>4, <3>1
  <2>. QED  BY <1>4, <2>1, <2>2, <2>5, <2>6, <2>7 DEF Aligned
<1>5. CASE rd # Start
  <2>1. rd.at = "payload" /\ rd.left > 0
    BY <1>2, <1>5 DEF ReadOK
  <2>2. wire[1].i # 0
    BY <1>2, <1>3, <2>1
  <2>3. Boundary(Tail(wire), rd.left)
    <3>1. rd.left + 1 \in Nat /\ rd.left + 1 > 1 /\ (rd.left + 1) - 1 = rd.left
      BY <1>2, <2>1
    <3>. QED  BY <1>3, <3>1, BoundaryTail
  <2>4. ASSUME NEW k \in 1..(rd.left - 1) PROVE Tail(wire)[k].i # 0
    <3>1. rd.left + 1 \in 1..(Len(wire) + 1)
      BY <1>3 DEF Boundary
    <3>2. k \in 1..(Len(wire) - 1) /\ k + 1 \in 1..rd.left
      BY <1>1, <1>2, <3>1
    <3>3. Tail(wire)[k] = wire[k + 1] /\ wire[k + 1].i # 0
      BY <1>1, <1>3, <3>2
    <3>. QED  BY <3>3, Zenon
  <2>0. \/ rd.at # "start" /\ rd.left > 1 /\ r = More(rd.at, rd.m, rd.left - 1)
        \/ rd.at = "payload" /\ rd.left = 1 /\ r = Whole(rd.m)
        \/ rd.at = "junk" /\ rd.left = 1 /\ r = FrameError
    BY <1>1, <1>5, ReadCases, Zenon
  <2>5. CASE rd.left > 1
    <3>1. r = More("payload", rd.m, rd.left - 1)
      <4>1. rd.left # 1
        BY <1>2, <2>5
      <4>. QED  BY <2>0, <2>1, <4>1, Zenon
    <3>2. r.rd.at = "payload" /\ r.rd.left = rd.left - 1 /\ r.t = "more"
      BY <3>1 DEF More
    <3>3. Boundary(Tail(wire), (rd.left - 1) + 1)
      BY <1>2, <2>3
    <3>4. Aligned(r.rd, Tail(wire))
      BY <2>4, <3>2, <3>3, Zenon DEF Aligned
    <3>5. r.t # "error"
      BY <3>2
    <3>. QED  BY <2>1, <2>2, <2>5, <3>1, <3>4, <3>5, Zenon
  <2>6. CASE rd.left = 1
    <3>1. r = Whole(rd.m)
      <4>1. ~(rd.left > 1)
        BY <1>2, <2>6
      <4>2. rd.at # "junk"
        BY <2>1
      <4>. QED  BY <2>0, <4>1, <4>2, Zenon
    <3>2. r.rd = Start /\ r.t = "frame"
      BY <3>1 DEF Whole
    <3>3. Boundary(Tail(wire), 0 + 1)
      BY <2>3, <2>6
    <3>. QED  BY <2>1, <2>2, <2>6, <3>1, <3>2, <3>3, StartRead DEF Aligned
  <2>. QED  BY <1>2, <2>1, <2>5, <2>6
<1>. QED  BY <1>4, <1>5

LEMMA AlignedWritten ==
  ASSUME NEW rd \in Reads, NEW wire \in Seq(Units), NEW m \in Msgs, Aligned(rd, wire)
  PROVE  Aligned(rd, wire \o Frame(m))
<1>1. /\ Boundary(wire, rd.left + 1) /\ rd.left \in Nat
      /\ \A k \in 1..rd.left : wire[k].i # 0
  BY ReadFields DEF Aligned
<1>2. Boundary(wire \o Frame(m), rd.left + 1)
  BY <1>1, BoundaryWritten
<1>3. ASSUME NEW k \in 1..rd.left PROVE (wire \o Frame(m))[k].i # 0
  <2>1. k \in 1..Len(wire) /\ Len(wire) \in Nat
    BY <1>1 DEF Boundary
  <2>. QED  BY <1>1, <2>1, WrittenUnits
<1>. QED  BY <1>2, <1>3 DEF Aligned

----------------------------------------------------------------------------
(***************************************************************************)
(* Types.                                                                  *)
(***************************************************************************)

LEMMA Clocks == Interval \in Nat /\ Interval > 0 /\ Grace \in Nat /\ Lag \in Nat
  BY LinkAssumption DEF Interval, Grace

\* What a write leaves on the wire.
LEMMA WorkerWritten ==
  ASSUME TypeOK, NEW m \in Msgs, NEW pc, WorkerWrites(m, pc)
  PROVE  /\ toC' \in Seq(Units)
         /\ toC' = toC \o Frame(m) \/ UNCHANGED toC
         /\ wpc' = pc \/ wpc' = "ended"
         /\ cpc # "ended" => toC' = toC \o Frame(m) /\ wpc' = pc
<1>1. toC \o Frame(m) \in Seq(Units) /\ toC \in Seq(Units)
  BY WrittenUnits DEF TypeOK
<1>. QED  BY <1>1 DEF WorkerWrites

LEMMA SessionWritten ==
  ASSUME TypeOK, NEW m \in Msgs, SessionWrites(m)
  PROVE  /\ toW' \in Seq(Units)
         /\ toW' = toW \o Frame(m) \/ UNCHANGED toW
         /\ cpc' = cpc \/ (wpc = "ended" /\ cpc' = "ended")
<1>1. toW \o Frame(m) \in Seq(Units) /\ toW \in Seq(Units)
  BY WrittenUnits DEF TypeOK
<1>2. CASE toW' = (IF wpc = "ended" THEN toW ELSE toW \o Frame(m)) /\ UNCHANGED cpc
  <2>1. toW' = toW \o Frame(m) \/ toW' = toW
    BY <1>2
  <2>2. cpc' = cpc
    BY <1>2
  <2>3. toW' \in Seq(Units)
    BY <1>1, <2>1
  <2>. QED  BY <2>1, <2>2, <2>3
<1>3. CASE wpc = "ended" /\ cpc' = "ended" /\ UNCHANGED toW
  BY <1>1, <1>3, Zenon
<1>. QED  BY <1>2, <1>3, Zenon DEF SessionWrites

\* A unit is read off a wire.
LEMMA TakenOff ==
  ASSUME NEW wire \in Seq(Units), wire # <<>>, NEW lag \in 0..Lag
  PROVE  /\ Head(wire) \in Units /\ Tail(wire) \in Seq(Units)
         /\ Rest(wire, lag) \in 0..Lag
  BY TailUnits, Clocks DEF Rest

LEMMA TypeInit == Init => TypeOK /\ ReadOK(wread) /\ ReadOK(cread)
<1>. SUFFICES ASSUME Init PROVE TypeOK /\ ReadOK(wread) /\ ReadOK(cread)
  OBVIOUS
<1>1. /\ 0 \in 0..Interval /\ 0 \in 0..EvCap /\ 0 \in 0..Lag /\ 0 \in 0..(Grace + 1)
      /\ 0 \in 0..(ShardDeadline + 1) /\ 0 \in 0..MaxAssign
  BY Clocks, LinkAssumption
<1>2. toW \in Seq(Units) /\ toC \in Seq(Units) /\ pushq \in Seq({"assign", "receipt"})
  BY DEF Init
<1>3. /\ due \in 0..Interval /\ evq \in 0..EvCap /\ lagW \in 0..Lag /\ lagC \in 0..Lag
      /\ age \in 0..(Grace + 1) /\ absent \in 0..(Grace + 1) /\ left \in Nat
      /\ dl \in 0..(ShardDeadline + 1) /\ assigns \in 0..MaxAssign
  BY <1>1 DEF Init
<1>4. wread \in Reads /\ cread \in Reads /\ ReadOK(wread) /\ ReadOK(cread)
  BY StartRead DEF Init
<1>. QED  BY <1>2, <1>3, <1>4 DEF Init, TypeOK

Types == TypeOK /\ ReadOK(wread) /\ ReadOK(cread)

LEMMA TypeWorker ==
  ASSUME Types, Worker \/ WorkerGoodbye \/ WitnessDrain \/ WitnessFault
  PROVE  Types'
<1>. USE DEF sessVars, wireVars, jobVars, histVars
<1>0. /\ TypeOK /\ ReadOK(wread) /\ ReadOK(cread)
      /\ {"beat", "failed", "done", "bye"} \subseteq Msgs
  BY DEF Types, Msgs
<1>1. CASE WorkerHeartbeat
  <2>1. toC' \in Seq(Units) /\ wpc' \in {"select", "ended"}
    BY <1>0, <1>1, WorkerWritten DEF WorkerHeartbeat
  <2>2. due' \in 0..Interval
    BY <1>1, Clocks DEF WorkerHeartbeat
  <2>3. wread' \in Reads /\ ReadOK(wread') /\ lost' \subseteq {"worker", "session"}
    BY <1>0, <1>1, StartRead DEF WorkerHeartbeat, Dropped, TypeOK
  <2>. QED  BY <1>0, <1>1, <2>1, <2>2, <2>3 DEF WorkerHeartbeat, Types, TypeOK
<1>2. CASE WorkerRead
  <2>1. /\ Head(toW) \in Units /\ toW' \in Seq(Units) /\ lagW' \in 0..Lag
    BY <1>0, <1>2, TakenOff DEF WorkerRead, TypeOK
  <2>2. PICK r \in read_frame(wread, Head(toW)) :
          /\ wread' = r.rd
          /\ CASE r.t = "error" -> wpc' = "ended" /\ UNCHANGED left
               [] r.t = "frame" /\ r.m = "assign" -> wpc' = "proving" /\ left' \in Proves
               [] OTHER -> UNCHANGED <<wpc, left>>
          /\ broken' = IF r.t = "error" THEN broken \cup {"worker"} ELSE broken
    BY <1>2 DEF WorkerRead
  <2>3. wread' \in Reads /\ ReadOK(wread')
    BY <1>0, <2>1, <2>2, ReadType DEF TypeOK
  <2>4. wpc' \in {"select", "proving", "ended"} /\ left' \in Nat
    <3>1. wpc = "select" /\ left \in Nat /\ Proves \subseteq Nat
      BY <1>0, <1>2, LinkAssumption DEF WorkerRead, TypeOK
    <3>. QED  BY <2>2, <3>1
  <2>5. broken' \subseteq {"worker", "session"}
    BY <1>0, <2>2 DEF TypeOK
  <2>. QED  BY <1>0, <1>2, <2>1, <2>3, <2>4, <2>5 DEF WorkerRead, Types, TypeOK
<1>3. CASE ProveDone
  BY <1>0, <1>3 DEF ProveDone, Types, TypeOK
<1>4. CASE ProveFailed
  <2>1. toC' \in Seq(Units) /\ wpc' \in {"select", "ended"}
    BY <1>0, <1>4, WorkerWritten DEF ProveFailed
  <2>. QED  BY <1>0, <1>4, <2>1 DEF ProveFailed, Types, TypeOK
<1>5. CASE Fanout
  <2>1. toC' \in Seq(Units) /\ wpc' \in {"select", "ended"}
    BY <1>0, <1>5, WorkerWritten DEF Fanout
  <2>2. evq' \in 0..EvCap
    BY <1>0, <1>5, LinkAssumption DEF Fanout, TypeOK
  <2>. QED  BY <1>0, <1>5, <2>1, <2>2 DEF Fanout, Types, TypeOK
<1>6. CASE WorkerEof
  BY <1>0, <1>6 DEF WorkerEof, Types, TypeOK
<1>7. CASE WorkerGoodbye
  <2>1. toC' \in Seq(Units) /\ wpc' = "ended"
    BY <1>0, <1>7, WorkerWritten DEF WorkerGoodbye
  <2>. QED  BY <1>0, <1>7, <2>1 DEF WorkerGoodbye, Types, TypeOK
<1>8. CASE WitnessDrain
  <2>1. evq' \in 0..EvCap
    BY <1>0, <1>8, LinkAssumption DEF WitnessDrain, TypeOK
  <2>. QED  BY <1>0, <1>8, <2>1 DEF WitnessDrain, Types, TypeOK
<1>9. CASE WitnessFault
  BY <1>0, <1>9 DEF WitnessFault, Types, TypeOK
<1>. QED  BY <1>1, <1>2, <1>3, <1>4, <1>5, <1>6, <1>7, <1>8, <1>9 DEF Worker

LEMMA TypeSession ==
  ASSUME Types, Session
  PROVE  Types'
<1>. USE DEF workVars, wireVars, jobVars, histVars
<1>0. /\ TypeOK /\ ReadOK(wread) /\ ReadOK(cread) /\ {"assign", "receipt", "ack"} \subseteq Msgs
  BY DEF Types, Msgs
<1>1. CASE SessionPush
  <2>1. Head(pushq) \in {"assign", "receipt"} /\ Tail(pushq) \in Seq({"assign", "receipt"})
    BY <1>0, <1>1 DEF SessionPush, TypeOK
  <2>2. toW' \in Seq(Units) /\ cpc' \in {"select", "ended"}
    <3>1. PICK m \in Msgs : m = Head(pushq)
      BY <1>0, <2>1
    <3>2. SessionWrites(m)
      BY <1>1, <3>1 DEF SessionPush
    <3>. QED  BY <1>0, <1>1, <3>2, SessionWritten DEF SessionPush
  <2>3. cread' \in Reads /\ ReadOK(cread') /\ lost' \subseteq {"worker", "session"}
    BY <1>0, <1>1, StartRead DEF SessionPush, Dropped, TypeOK
  <2>. QED  BY <1>0, <1>1, <2>1, <2>2, <2>3 DEF SessionPush, Types, TypeOK
<1>2. CASE SessionClosed
  BY <1>0, <1>2 DEF SessionClosed, Types, TypeOK
<1>3. CASE SessionRead
  <2>1. Head(toC) \in Units /\ toC' \in Seq(Units) /\ lagC' \in 0..Lag
    BY <1>0, <1>3, TakenOff DEF SessionRead, TypeOK
  <2>2. PICK r \in read_frame(cread, Head(toC)) :
          /\ cread' = r.rd
          /\ broken' = IF r.t = "error" THEN broken \cup {"session"} ELSE broken
          /\ \/ r.t = "more" /\ UNCHANGED <<cpc, pushq, toW, enrolled, age, absent, replica>>
             \/ r.t = "error" /\ cpc' = "ended"
                              /\ UNCHANGED <<pushq, toW, enrolled, age, absent, replica>>
             \/ r.t = "frame" /\ r.m = "beat" /\ OnBeat
             \/ r.t = "frame" /\ r.m \in {"done", "failed"} /\ OnAnswer(r.m)
             \/ r.t = "frame" /\ r.m = "bye" /\ OnGoodbye
    BY <1>3 DEF SessionRead
  <2>3. cread' \in Reads /\ ReadOK(cread')
    BY <1>0, <2>1, <2>2, ReadType DEF TypeOK
  <2>4. broken' \subseteq {"worker", "session"}
    BY <1>0, <2>2 DEF TypeOK
  <2>5. /\ cpc' \in {"select", "ended"} /\ pushq' \in Seq({"assign", "receipt"})
        /\ toW' \in Seq(Units) /\ enrolled' \in BOOLEAN
        /\ age' \in 0..(Grace + 1) /\ absent' \in 0..(Grace + 1)
        /\ replica' \in {"none", "out", "answered", "failed", "dropped"}
    <3>0. 0 \in 0..(Grace + 1)
      BY Clocks
    <3>1. CASE UNCHANGED <<pushq, toW, enrolled, age, absent, replica>>
               /\ cpc' \in {cpc, "ended"}
      BY <1>0, <3>1 DEF TypeOK
    <3>2. CASE OnBeat
      <4>1. toW' \in Seq(Units) /\ cpc' \in {cpc, "ended"}
        BY <1>0, <3>2, SessionWritten DEF OnBeat
      <4>. QED  BY <1>0, <3>0, <3>2, <4>1 DEF OnBeat, TypeOK
    <3>3. CASE OnAnswer(r.m)
      BY <1>0, <3>3 DEF OnAnswer, TypeOK
    <3>4. CASE OnGoodbye
      BY <1>0, <3>4 DEF OnGoodbye, Unenrol, TypeOK
    <3>. QED  BY <2>2, <3>1, <3>2, <3>3, <3>4
  <2>. QED  BY <1>0, <1>3, <2>1, <2>3, <2>4, <2>5 DEF SessionRead, Types, TypeOK
<1>4. CASE SessionEof
  BY <1>0, <1>4 DEF SessionEof, Unenrol, Types, TypeOK
<1>. QED  BY <1>1, <1>2, <1>3, <1>4 DEF Session

LEMMA TypeJob ==
  ASSUME Types, Assign \/ Reaper
  PROVE  Types'
<1>. USE DEF workVars, sessVars, wireVars, histVars
<1>0. TypeOK /\ ReadOK(wread) /\ ReadOK(cread)
  BY DEF Types
<1>1. CASE Assign
  <2>1. pushq' \in Seq({"assign", "receipt"})
    BY <1>0, <1>1 DEF Assign, TypeOK
  <2>2. dl' \in 0..(ShardDeadline + 1) /\ assigns' \in 0..MaxAssign
    BY <1>0, <1>1, LinkAssumption DEF Assign, TypeOK
  <2>. QED  BY <1>0, <1>1, <2>1, <2>2 DEF Assign, Types, TypeOK
<1>2. CASE Reaper
  <2>1. enrolled' \in BOOLEAN
    BY <1>2 DEF Reaper
  <2>2. /\ replica' \in {"none", "out", "answered", "failed", "dropped"}
        /\ verdict' \in {"none", "stale", "late"}
    BY <1>0, <1>2 DEF Reaper, TypeOK
  <2>. QED  BY <1>0, <1>2, <2>1, <2>2 DEF Reaper, Types, TypeOK
<1>. QED  BY <1>1, <1>2

LEMMA TypeTick ==
  ASSUME Types, Tick
  PROVE  Types'
<1>. USE DEF sessVars
<1>0. TypeOK /\ ReadOK(wread) /\ ReadOK(cread)
  BY DEF Types
<1>1. /\ \A b \in Nat : \A x \in 0..b : Down(x) \in 0..b /\ Up(x, b) \in 0..b
      /\ \A x \in Nat : Down(x) \in Nat
  BY DEF Down, Up
<1>2. /\ Interval \in Nat /\ ShardDeadline + 1 \in Nat /\ Grace + 1 \in Nat
  BY Clocks, LinkAssumption
<1>3. due' \in 0..Interval /\ left' \in Nat
  BY <1>0, <1>1, <1>2 DEF Tick, TypeOK
<1>4. dl' \in 0..(ShardDeadline + 1)
  <2>1. 0 \in 0..(ShardDeadline + 1)
    BY <1>2
  <2>. QED  BY <1>0, <1>1, <1>2, <2>1 DEF Tick, TypeOK
<1>5. age' \in 0..(Grace + 1) /\ absent' \in 0..(Grace + 1)
  BY <1>0, <1>1, <1>2 DEF Tick, TypeOK
<1>6. lagW' \in 0..Lag /\ lagC' \in 0..Lag
  <2>1. lagW \in 0..Lag /\ lagC \in 0..Lag /\ Lag \in Nat
    BY <1>0, Clocks DEF TypeOK
  <2>2. lagW' = lagW \/ (lagW < Lag /\ lagW' = lagW + 1)
    <3>1. CASE wpc = "select" /\ toW # <<>>
      <4>1. lagW < Lag
        BY <3>1 DEF Tick, Idle
      <4>2. lagW' = lagW + 1
        BY <3>1 DEF Tick
      <4>. QED  BY <4>1, <4>2
    <3>2. CASE ~(wpc = "select" /\ toW # <<>>)
      BY <3>2 DEF Tick
    <3>. QED  BY <3>1, <3>2
  <2>3. lagC' = lagC \/ (lagC < Lag /\ lagC' = lagC + 1)
    <3>1. CASE cpc = "select" /\ toC # <<>>
      <4>1. lagC < Lag
        BY <3>1 DEF Tick, Idle
      <4>2. lagC' = lagC + 1
        BY <3>1 DEF Tick
      <4>. QED  BY <4>1, <4>2
    <3>2. CASE ~(cpc = "select" /\ toC # <<>>)
      BY <3>2 DEF Tick
    <3>. QED  BY <3>1, <3>2
  <2>. QED  BY <2>1, <2>2, <2>3
<1>7. reap' \in BOOLEAN
  BY DEF Tick
<1>. QED  BY <1>0, <1>3, <1>4, <1>5, <1>6, <1>7 DEF Tick, Types, TypeOK

LEMMA TypeStep ==
  ASSUME Types, Next
  PROVE  Types'
  BY TypeWorker, TypeSession, TypeJob, TypeTick DEF Next

----------------------------------------------------------------------------
(***************************************************************************)
(* Both ends stay in step.                                                 *)
(***************************************************************************)

WorkerInStep  == Framed(toW) /\ ("worker" \notin lost => Aligned(wread, toW))
SessionInStep == Framed(toC) /\ ("session" \notin lost => Aligned(cread, toC))

LEMMA WriteKeeps ==
  ASSUME NEW rd \in Reads, NEW wire \in Seq(Units), NEW m \in Msgs, Framed(wire),
         NEW wire2, wire2 = wire \o Frame(m) \/ wire2 = wire
  PROVE  Framed(wire2) /\ (Aligned(rd, wire) => Aligned(rd, wire2))
  BY FramedWritten, AlignedWritten

\* The worker's writes, seen from the session.
LEMMA WorkerWriteInStep ==
  ASSUME Types, SessionInStep, NEW m \in Msgs, NEW pc, WorkerWrites(m, pc),
         UNCHANGED cread, "session" \notin lost' => "session" \notin lost
  PROVE  SessionInStep'
<1>1. TypeOK
  BY DEF Types
<1>2. toC' = toC \o Frame(m) \/ toC' = toC
  BY <1>1, WorkerWritten
<1>3. cread \in Reads /\ toC \in Seq(Units) /\ Framed(toC)
  BY <1>1 DEF TypeOK, SessionInStep
<1>4. Framed(toC') /\ (Aligned(cread, toC) => Aligned(cread, toC'))
  BY <1>2, <1>3, WriteKeeps
<1>. QED  BY <1>4 DEF SessionInStep

LEMMA SessionWriteInStep ==
  ASSUME Types, WorkerInStep, NEW m \in Msgs, SessionWrites(m),
         UNCHANGED wread, "worker" \notin lost' => "worker" \notin lost
  PROVE  WorkerInStep'
<1>1. TypeOK
  BY DEF Types
<1>2. toW' = toW \o Frame(m) \/ toW' = toW
  BY <1>1, SessionWritten
<1>3. wread \in Reads /\ toW \in Seq(Units) /\ Framed(toW)
  BY <1>1 DEF TypeOK, WorkerInStep
<1>4. Framed(toW') /\ (Aligned(wread, toW) => Aligned(wread, toW'))
  BY <1>2, <1>3, WriteKeeps
<1>. QED  BY <1>4 DEF WorkerInStep

\* A select that takes another branch drops nothing, or is known to.
LEMMA DropKnown ==
  ASSUME NEW rd, NEW side, lost' = Dropped(rd, side)
  PROVE  /\ lost \subseteq lost'
         /\ side \notin lost' => rd = Start
         /\ \A s : s # side => (s \in lost' <=> s \in lost)
  BY DEF Dropped

LEMMA StepWorker ==
  ASSUME Types, InStep, InStepUntilDropped, Worker \/ WorkerGoodbye
  PROVE  InStep' /\ InStepUntilDropped'
<1>. USE DEF sessVars, wireVars, jobVars, histVars
<1>0. /\ TypeOK /\ ReadOK(wread) /\ WorkerInStep /\ SessionInStep
      /\ {"beat", "failed", "done", "bye"} \subseteq Msgs
  BY DEF Types, Msgs, InStep, WorkerInStep, SessionInStep
<1>. SUFFICES WorkerInStep' /\ SessionInStep' /\ InStepUntilDropped'
  BY DEF InStep, WorkerInStep, SessionInStep
<1>1. CASE WorkerHeartbeat
  <2>1. /\ WorkerWrites("beat", "select") /\ wread' = Start /\ UNCHANGED <<cread, toW, broken>>
        /\ lost' = Dropped(wread, "worker")
    BY <1>1 DEF WorkerHeartbeat
  <2>2. /\ lost \subseteq lost' /\ ("worker" \notin lost' => wread = Start)
        /\ "session" \in lost' <=> "session" \in lost
    BY <2>1, DropKnown
  <2>3. SessionInStep'
    BY <1>0, <2>1, <2>2, WorkerWriteInStep
  <2>4. WorkerInStep'
    BY <1>0, <2>1, <2>2 DEF WorkerInStep
  <2>. QED  BY <2>1, <2>2, <2>3, <2>4 DEF InStepUntilDropped
<1>2. CASE WorkerRead
  <2>1. /\ toW # <<>> /\ toW' = Tail(toW) /\ UNCHANGED <<cread, toC, lost>>
    BY <1>2 DEF WorkerRead
  <2>2. PICK r \in read_frame(wread, Head(toW)) :
          /\ wread' = r.rd
          /\ broken' = IF r.t = "error" THEN broken \cup {"worker"} ELSE broken
    BY <1>2 DEF WorkerRead
  <2>3. wread \in Reads /\ toW \in Seq(Units) /\ Framed(toW)
    BY <1>0 DEF TypeOK, WorkerInStep
  <2>4. Framed(toW')
    BY <2>1, <2>3, FramedTail
  <2>5. ASSUME "worker" \notin lost
        PROVE  r.t # "error" /\ Aligned(wread', toW')
    <3>1. Aligned(wread, toW)
      BY <1>0, <2>5 DEF WorkerInStep
    <3>. QED  BY <1>0, <2>1, <2>2, <2>3, <3>1, ReadInStep
  <2>6. InStepUntilDropped'
    BY <2>1, <2>2, <2>5 DEF InStepUntilDropped
  <2>. QED  BY <1>0, <2>1, <2>4, <2>5, <2>6 DEF WorkerInStep, SessionInStep
<1>3. CASE ProveDone \/ WorkerEof
  BY <1>0, <1>3 DEF ProveDone, WorkerEof, WorkerInStep, SessionInStep, InStepUntilDropped
<1>4. CASE ProveFailed \/ Fanout \/ WorkerGoodbye
  <2>1. UNCHANGED <<wread, cread, toW, lost, broken>>
    BY <1>4 DEF ProveFailed, Fanout, WorkerGoodbye
  <2>2. \E m \in Msgs, pc \in {"select", "ended"} : WorkerWrites(m, pc)
    BY <1>0, <1>4 DEF ProveFailed, Fanout, WorkerGoodbye
  <2>3. SessionInStep'
    BY <1>0, <2>1, <2>2, WorkerWriteInStep
  <2>. QED  BY <1>0, <2>1, <2>3 DEF WorkerInStep, InStepUntilDropped
<1>. QED  BY <1>1, <1>2, <1>3, <1>4 DEF Worker

LEMMA StepSession ==
  ASSUME Types, InStep, InStepUntilDropped, Session
  PROVE  InStep' /\ InStepUntilDropped'
<1>. USE DEF workVars, wireVars, jobVars, histVars
<1>0. /\ TypeOK /\ ReadOK(cread) /\ WorkerInStep /\ SessionInStep
      /\ {"assign", "receipt", "ack"} \subseteq Msgs
  BY DEF Types, Msgs, InStep, WorkerInStep, SessionInStep
<1>. SUFFICES WorkerInStep' /\ SessionInStep' /\ InStepUntilDropped'
  BY DEF InStep, WorkerInStep, SessionInStep
<1>1. CASE SessionPush
  <2>0. PICK m \in Msgs : m = Head(pushq)
    <3>1. Head(pushq) \in {"assign", "receipt"}
      BY <1>0, <1>1 DEF SessionPush, TypeOK
    <3>. QED  BY <1>0, <3>1
  <2>1. /\ SessionWrites(m) /\ cread' = Start /\ UNCHANGED <<wread, toC, broken>>
        /\ lost' = Dropped(cread, "session")
    BY <1>1, <2>0 DEF SessionPush
  <2>2. /\ lost \subseteq lost' /\ ("session" \notin lost' => cread = Start)
        /\ "worker" \in lost' <=> "worker" \in lost
    BY <2>1, DropKnown
  <2>3. WorkerInStep'
    BY <1>0, <2>1, <2>2, SessionWriteInStep
  <2>4. SessionInStep'
    BY <1>0, <2>1, <2>2 DEF SessionInStep
  <2>. QED  BY <2>1, <2>2, <2>3, <2>4 DEF InStepUntilDropped
<1>2. CASE SessionRead
  <2>1. toC # <<>> /\ toC' = Tail(toC) /\ UNCHANGED <<wread, lost>>
    BY <1>2 DEF SessionRead
  <2>2. PICK r \in read_frame(cread, Head(toC)) :
          /\ cread' = r.rd
          /\ broken' = IF r.t = "error" THEN broken \cup {"session"} ELSE broken
          /\ UNCHANGED toW \/ SessionWrites("ack")
    BY <1>2 DEF SessionRead, OnBeat, OnAnswer, OnGoodbye
  <2>3. cread \in Reads /\ toC \in Seq(Units) /\ Framed(toC)
    BY <1>0 DEF TypeOK, SessionInStep
  <2>4. Framed(toC')
    BY <2>1, <2>3, FramedTail
  <2>5. ASSUME "session" \notin lost
        PROVE  r.t # "error" /\ Aligned(cread', toC')
    <3>1. Aligned(cread, toC)
      BY <1>0, <2>5 DEF SessionInStep
    <3>. QED  BY <1>0, <2>1, <2>2, <2>3, <3>1, ReadInStep
  <2>6. InStepUntilDropped'
    BY <2>1, <2>2, <2>5 DEF InStepUntilDropped
  <2>7. WorkerInStep'
    <3>1. CASE UNCHANGED toW
      BY <1>0, <2>1, <3>1 DEF WorkerInStep
    <3>2. CASE SessionWrites("ack")
      BY <1>0, <2>1, <3>2, SessionWriteInStep
    <3>. QED  BY <2>2, <3>1, <3>2
  <2>. QED  BY <2>1, <2>4, <2>5, <2>6, <2>7 DEF SessionInStep
<1>3. CASE SessionClosed \/ SessionEof
  BY <1>0, <1>3 DEF SessionClosed, SessionEof, WorkerInStep, SessionInStep, InStepUntilDropped
<1>. QED  BY <1>1, <1>2, <1>3 DEF Session

LEMMA StepStep ==
  ASSUME Types, InStep, InStepUntilDropped, Next
  PROVE  InStep' /\ InStepUntilDropped'
<1>1. CASE WitnessDrain \/ WitnessFault \/ Assign \/ Reaper \/ Tick
  BY <1>1 DEF WitnessDrain, WitnessFault, Assign, Reaper, Tick, workVars, sessVars, wireVars,
       jobVars, histVars, InStep, InStepUntilDropped
<1>. QED  BY <1>1, StepWorker, StepSession DEF Next

----------------------------------------------------------------------------
(***************************************************************************)
(* Heartbeats.                                                             *)
(***************************************************************************)

LEMMA BeatWritten ==
  ASSUME NEW wire \in Seq(Units), NEW m \in Msgs
  PROVE  CarriesBeat(wire \o Frame(m)) <=> CarriesBeat(wire) \/ m = "beat"
<1>1. PICK w \in Seq(Units) : w = wire \o Frame(m)
  BY WrittenUnits
<1>2. PICK n \in Nat : n = Len(wire)
  BY WrittenUnits
<1>3. PICK z \in 1..Parts : z = Size(m)
  BY Sizes
<1>4. /\ Len(w) = n + z + 1 /\ w[n + 1].i = 0 /\ w[n + 1].m = m
      /\ \A k \in 1..n : w[k] = wire[k]
      /\ \A k \in (n + 2)..(n + z + 1) : w[k].i # 0
  BY <1>1, <1>2, <1>3, WrittenUnits
<1>5. \A k \in 1..n : k \in 1..Len(w)
  BY <1>3, <1>4, LinkAssumption
<1>6. n + 1 \in 1..Len(w)
  BY <1>3, <1>4, LinkAssumption
<1>7. CarriesBeat(wire) => CarriesBeat(w)
  BY <1>2, <1>4, <1>5, Zenon DEF CarriesBeat
<1>8. m = "beat" => CarriesBeat(w)
  BY <1>4, <1>6, Zenon DEF CarriesBeat
<1>9. ASSUME CarriesBeat(w) PROVE CarriesBeat(wire) \/ m = "beat"
  <2>1. PICK j \in 1..Len(w) : w[j].i = 0 /\ w[j].m = "beat"
    BY <1>9 DEF CarriesBeat
  <2>2. j \in 1..n \/ j = n + 1 \/ j \in (n + 2)..(n + z + 1)
    BY <1>3, <1>4, LinkAssumption
  <2>3. CASE j \in 1..n
    BY <1>2, <1>4, <2>1, <2>3, Zenon DEF CarriesBeat
  <2>. QED  BY <1>4, <2>1, <2>2, <2>3, Zenon
<1>. QED  BY <1>1, <1>7, <1>8, <1>9

LEMMA BeatTaken ==
  ASSUME NEW wire \in Seq(Units), wire # <<>>
  PROVE  CarriesBeat(wire) <=> (wire[1].i = 0 /\ wire[1].m = "beat") \/ CarriesBeat(Tail(wire))
<1>1. /\ Len(wire) \in Nat /\ Len(wire) > 0 /\ Len(Tail(wire)) = Len(wire) - 1
      /\ \A k \in 1..(Len(wire) - 1) : Tail(wire)[k] = wire[k + 1]
  BY TailUnits
<1>2. PICK n \in Nat : n = Len(wire) /\ n > 0
  BY <1>1
<1>3. ASSUME CarriesBeat(Tail(wire)) PROVE CarriesBeat(wire)
  <2>1. PICK j \in 1..(n - 1) : Tail(wire)[j].i = 0 /\ Tail(wire)[j].m = "beat"
    BY <1>1, <1>2, <1>3 DEF CarriesBeat
  <2>2. j + 1 \in 1..n
    BY <1>2
  <2>. QED  BY <1>1, <1>2, <2>1, <2>2, Zenon DEF CarriesBeat
<1>4. 1 \in 1..n
  BY <1>2
<1>5. (wire[1].i = 0 /\ wire[1].m = "beat") => CarriesBeat(wire)
  BY <1>2, <1>4, Zenon DEF CarriesBeat
<1>6. ASSUME CarriesBeat(wire), ~(wire[1].i = 0 /\ wire[1].m = "beat")
      PROVE  CarriesBeat(Tail(wire))
  <2>1. PICK j \in 1..n : wire[j].i = 0 /\ wire[j].m = "beat"
    BY <1>2, <1>6 DEF CarriesBeat
  <2>2. j # 1
    BY <1>6, <2>1
  <2>3. j - 1 \in 1..(n - 1) /\ (j - 1) + 1 = j
    BY <2>2
  <2>4. Tail(wire)[j - 1] = wire[j]
    BY <1>1, <1>2, <2>3
  <2>5. j - 1 \in 1..Len(Tail(wire))
    BY <1>1, <1>2, <2>3
  <2>. QED  BY <2>1, <2>4, <2>5, Zenon DEF CarriesBeat
<1>. QED  BY <1>3, <1>5, <1>6

\* The worker and the session end, the roster entry goes and step is lost once.
LEMMA OneWay ==
  ASSUME Next
  PROVE  /\ cpc' = "select" /\ cpc \in {"select", "ended"} => cpc = "select"
         /\ wpc' # "ended" => wpc # "ended"
         /\ "session" \notin lost' => "session" \notin lost
<1>. USE DEF workVars, sessVars, wireVars, jobVars, histVars
<1>1. CASE Worker \/ WorkerGoodbye
  BY <1>1 DEF Worker, WorkerGoodbye, WorkerHeartbeat, WorkerRead, ProveDone, ProveFailed,
       Fanout, WorkerEof, Dropped
<1>2. CASE Session
  BY <1>2 DEF Session, SessionPush, SessionClosed, SessionRead, SessionEof, Dropped
<1>3. CASE WitnessDrain \/ WitnessFault \/ Assign \/ Reaper \/ Tick
  BY <1>3 DEF WitnessDrain, WitnessFault, Assign, Reaper, Tick
<1>. QED  BY <1>1, <1>2, <1>3 DEF Next

Healthy == cpc = "select" /\ wpc # "ended" /\ "session" \notin lost

LEMMA Quantities ==
  ASSUME TypeOK
  PROVE  /\ age \in Nat /\ absent \in Nat /\ lagC \in Nat /\ due \in Nat
         /\ due <= Interval /\ lagC <= Lag /\ age <= Grace + 1 /\ absent <= Grace + 1
  BY Clocks DEF TypeOK

\* A step that neither moves the clocks nor reads from the worker.
LEMMA BeatsFrame ==
  ASSUME BeatsTimely, Healthy, UNCHANGED <<age, absent, lagC, due>>,
         BeatUnderWay' <=> BeatUnderWay
  PROVE  BeatsTimely'
  BY DEF BeatsTimely, Healthy

LEMMA BeatsWorker ==
  ASSUME Types, BeatsTimely, Healthy, Worker \/ WorkerGoodbye
  PROVE  BeatsTimely'
<1>. USE DEF sessVars, wireVars, jobVars, histVars
<1>0. /\ TypeOK /\ toC \in Seq(Units) /\ {"beat", "failed", "done", "bye"} \subseteq Msgs
      /\ cpc = "select"
  BY DEF Types, Msgs, TypeOK, Healthy
<1>1. CASE WorkerHeartbeat
  <2>1. toC' = toC \o Frame("beat") /\ due = 0 /\ UNCHANGED <<age, absent, lagC, cread>>
    <3>1. WorkerWrites("beat", "select") /\ cpc # "ended" /\ "beat" \in Msgs
      BY <1>0, <1>1 DEF WorkerHeartbeat
    <3>2. toC' = toC \o Frame("beat")
      BY <1>0, <3>1, WorkerWritten
    <3>. QED  BY <1>1, <3>2 DEF WorkerHeartbeat
  <2>2. BeatUnderWay'
    BY <1>0, <2>1, BeatWritten DEF BeatUnderWay
  <2>3. age <= absent + Interval + lagC
    <3>1. \/ age <= absent + Interval + lagC
          \/ age <= absent + Interval - due
      BY DEF BeatsTimely, Healthy
    <3>. QED  BY <1>0, <2>1, <3>1, Quantities, Clocks
  <2>. QED  BY <2>1, <2>2, <2>3 DEF BeatsTimely
<1>2. CASE WorkerRead \/ ProveDone \/ WorkerEof
  <2>1. UNCHANGED <<age, absent, lagC, due, toC, cread>>
    BY <1>2 DEF WorkerRead, ProveDone, WorkerEof
  <2>2. BeatUnderWay' <=> BeatUnderWay
    BY <2>1 DEF BeatUnderWay
  <2>. QED  BY <2>1, <2>2, BeatsFrame
<1>3. CASE ProveFailed \/ Fanout \/ WorkerGoodbye
  <2>1. UNCHANGED <<age, absent, lagC, due, cread>>
    BY <1>3 DEF ProveFailed, Fanout, WorkerGoodbye
  <2>2. PICK m \in {"failed", "done", "bye"}, pc \in {"select", "ended"} : WorkerWrites(m, pc)
    BY <1>3 DEF ProveFailed, Fanout, WorkerGoodbye
  <2>3. m \in Msgs /\ m # "beat"
    BY <1>0, <2>2
  <2>4. toC' = toC \o Frame(m)
    BY <1>0, <2>2, <2>3, WorkerWritten
  <2>5. BeatUnderWay' <=> BeatUnderWay
    BY <1>0, <2>1, <2>3, <2>4, BeatWritten DEF BeatUnderWay
  <2>. QED  BY <2>1, <2>5, BeatsFrame
<1>. QED  BY <1>1, <1>2, <1>3 DEF Worker

\* The session reads: the heartbeat under way stays so until it is noted.
LEMMA BeatsRead ==
  ASSUME Types, InStep, BeatsTimely, Healthy, SessionRead
  PROVE  BeatsTimely' /\ broken' = broken
<1>0. /\ TypeOK /\ ReadOK(cread) /\ cread \in Reads /\ toC \in Seq(Units)
      /\ Framed(toC) /\ Aligned(cread, toC)
  BY DEF Types, TypeOK, InStep, Healthy
<1>1. /\ toC # <<>> /\ toC' = Tail(toC) /\ lagC' = Rest(toC, lagC) /\ UNCHANGED due
  BY DEF SessionRead, workVars
<1>2. PICK r \in read_frame(cread, Head(toC)) :
        /\ cread' = r.rd
        /\ broken' = IF r.t = "error" THEN broken \cup {"session"} ELSE broken
        /\ \/ r.t = "more" /\ UNCHANGED <<age, absent>>
           \/ r.t = "error"
           \/ r.t = "frame" /\ r.m = "beat" /\ age' = 0 /\ absent' = 0
           \/ r.t = "frame" /\ r.m \in {"done", "failed", "bye"} /\ UNCHANGED <<age, absent>>
  BY DEF SessionRead, OnBeat, OnAnswer, OnGoodbye
<1>3. /\ r.t # "error" /\ Aligned(r.rd, Tail(toC))
      /\ \/ /\ cread = Start /\ toC[1].i = 0
            /\ r = More("payload", toC[1].m, Size(toC[1].m))
         \/ /\ cread.at = "payload" /\ cread.left > 1 /\ toC[1].i # 0
            /\ r = More("payload", cread.m, cread.left - 1)
         \/ /\ cread.at = "payload" /\ cread.left = 1 /\ toC[1].i # 0
            /\ r = Whole(cread.m)
  BY <1>0, <1>1, <1>2, ReadInStep
<1>4. CarriesBeat(toC) <=> (toC[1].i = 0 /\ toC[1].m = "beat") \/ CarriesBeat(toC')
  BY <1>0, <1>1, BeatTaken
<1>5. broken' = broken
  BY <1>2, <1>3
\* The wire runs empty only at the end of a frame.
<1>6. lagC' = lagC \/ (Len(toC) = 1 /\ lagC' = 0)
  BY <1>1 DEF Rest
<1>7. CASE r.t = "more"
  <2>1. UNCHANGED <<age, absent>>
    BY <1>2, <1>7
  <2>2. /\ cread'.at = "payload"
        /\ \/ cread = Start /\ toC[1].i = 0 /\ cread'.m = toC[1].m
           \/ cread.at = "payload" /\ toC[1].i # 0 /\ cread'.m = cread.m
    BY <1>2, <1>3, <1>7 DEF More, Whole
  <2>3. BeatUnderWay' <=> BeatUnderWay
    BY <1>4, <2>2, StartRead, Zenon DEF BeatUnderWay
  <2>4. Len(toC) # 1
    <3>1. cread' \in Reads /\ ReadOK(cread')
      BY <1>0, <1>1, <1>2, ReadType, TakenOff, TailUnits
    <3>2. cread'.left \in Nat /\ cread'.left > 0
      BY <2>2, <3>1, ReadFields DEF ReadOK
    <3>3. cread'.left + 1 \in 1..(Len(Tail(toC)) + 1)
      BY <1>2, <1>3 DEF Aligned, Boundary
    <3>. QED  BY <1>0, <1>1, <3>2, <3>3, TailUnits
  <2>5. UNCHANGED lagC
    BY <1>6, <2>4
  <2>. QED  BY <1>1, <1>5, <2>1, <2>3, <2>5, BeatsFrame
<1>8. CASE r.t = "frame"
  <2>1. cread.at = "payload" /\ cread.m = r.m /\ toC[1].i # 0 /\ cread' = Start
    BY <1>2, <1>3, <1>8 DEF More, Whole
  <2>2. CASE r.m = "beat"
    <3>1. age' = 0 /\ absent' = 0
      BY <1>2, <1>8, <2>2
    <3>2. lagC' \in Nat /\ due' \in Nat /\ due' <= Interval
      BY <1>0, <1>1, <1>6, Quantities
    <3>3. age' <= absent' + Interval + lagC' /\ age' <= absent' + Interval - due'
      <4>1. PICK l \in Nat, d \in Nat : l = lagC' /\ d = due' /\ d <= Interval
        BY <3>2
      <4>2. d <= Interval
        BY <4>1
      <4>3. 0 <= 0 + Interval + l /\ 0 <= 0 + Interval - d
        BY <4>2, Clocks
      <4>. QED  BY <3>1, <4>1, <4>3
    <3>. QED  BY <1>5, <3>3 DEF BeatsTimely
  <2>3. CASE r.m # "beat"
    <3>1. UNCHANGED <<age, absent>>
      BY <1>2, <1>8, <2>3
    <3>2. BeatUnderWay <=> CarriesBeat(toC)
      BY <2>1, <2>3 DEF BeatUnderWay
    <3>3. BeatUnderWay' <=> CarriesBeat(toC')
      BY <2>1, StartRead DEF BeatUnderWay
    <3>4. BeatUnderWay' <=> BeatUnderWay
      BY <1>4, <2>1, <3>2, <3>3
    <3>5. CASE UNCHANGED lagC
      BY <1>1, <1>5, <3>1, <3>4, <3>5, BeatsFrame
    <3>6. CASE Len(toC) = 1
      <4>1. Len(toC') = 0
        BY <1>0, <1>1, <3>6, TailUnits
      <4>2. ~BeatUnderWay' /\ ~BeatUnderWay
        BY <3>3, <3>4, <4>1 DEF CarriesBeat
      <4>3. age <= absent + Interval - due
        BY <4>2 DEF BeatsTimely, Healthy
      <4>. QED  BY <1>1, <1>5, <3>1, <4>2, <4>3 DEF BeatsTimely
    <3>. QED  BY <1>6, <3>5, <3>6
  <2>. QED  BY <2>2, <2>3
<1>. QED  BY <1>2, <1>3, <1>7, <1>8

LEMMA BeatsTick ==
  ASSUME Types, InStep, BeatsTimely, Healthy, Tick
  PROVE  BeatsTimely'
<1>0. /\ TypeOK /\ ReadOK(cread) /\ cread \in Reads /\ toC \in Seq(Units) /\ Aligned(cread, toC)
      /\ cpc = "select" /\ wpc # "ended"
  BY DEF Types, TypeOK, InStep, Healthy
<1>1. UNCHANGED <<toC, cread>> /\ (BeatUnderWay' <=> BeatUnderWay)
  BY DEF Tick, sessVars, BeatUnderWay
<1>2. age' \in {age, Up(age, Grace + 1)} /\ absent' \in {absent, Up(absent, Grace + 1)}
  BY DEF Tick
<1>3. /\ age \in Nat /\ absent \in Nat /\ lagC \in Nat /\ due \in Nat
      /\ age <= Grace + 1 /\ absent <= Grace + 1 /\ Grace \in Nat /\ Interval \in Nat
      /\ due <= Interval
  BY <1>0, Quantities, Clocks
<1>4. /\ age' \in Nat /\ absent' \in Nat /\ age' <= age + 1 /\ absent' >= absent
      /\ age' <= Grace + 1
  BY <1>2, <1>3 DEF Up
<1>a. PICK a, b, d, l :
        /\ a \in Nat /\ b \in Nat
        /\ a = age' /\ b = absent' /\ d = due' /\ l = lagC'
        /\ a <= age + 1 /\ b >= absent /\ a <= Grace + 1
  BY <1>4
<1>b. a \in Nat /\ b \in Nat /\ a <= age + 1 /\ b >= absent /\ a <= Grace + 1
  BY <1>a
<1>5. CASE BeatUnderWay
  <2>1. toC # <<>>
    <3>1. CASE CarriesBeat(toC)
      <4>1. Len(toC) # 0
        BY <3>1 DEF CarriesBeat
      <4>. QED  BY <4>1
    <3>2. CASE cread.at = "payload"
      <4>1. cread.left \in Nat /\ cread.left > 0
        BY <1>0, <3>2, ReadFields DEF ReadOK
      <4>2. cread.left + 1 \in 1..(Len(toC) + 1) /\ Len(toC) \in Nat
        BY <1>0 DEF Aligned, Boundary
      <4>3. Len(toC) # 0
        BY <4>1, <4>2
      <4>. QED  BY <4>3
    <3>. QED  BY <1>5, <3>1, <3>2 DEF BeatUnderWay
  <2>2. lagC' = lagC + 1
    BY <1>0, <2>1 DEF Tick
  <2>3. age <= absent + Interval + lagC
    BY <1>5 DEF BeatsTimely, Healthy
  <2>4. a <= b + Interval + l
    <3>1. l = lagC + 1
      BY <1>a, <2>2
    <3>. QED  BY <1>3, <1>b, <2>3, <3>1
  <2>5. age' <= absent' + Interval + lagC'
    BY <1>a, <2>4
  <2>. QED  BY <1>1, <1>5, <2>5 DEF BeatsTimely
<1>6. CASE ~BeatUnderWay
  <2>1. age <= absent + Interval - due
    BY <1>6 DEF BeatsTimely, Healthy
  <2>2. a <= b + Interval - d
    <3>1. CASE due > 0
      <4>1. d = due - 1
        BY <1>0, <1>a, <3>1 DEF Tick, Down
      <4>. QED  BY <1>3, <1>b, <2>1, <4>1
    <3>2. CASE due = 0
      <4>1. d = 0
        BY <1>0, <1>a, <3>2 DEF Tick, Down
      <4>2. wpc \in {"proving", "fanout"}
        BY <1>0, <3>2 DEF Tick, Idle, TypeOK
      <4>3. CASE enrolled
        <5>1. b = Up(absent, Grace + 1)
          BY <1>a, <4>2, <4>3 DEF Tick
        <5>2. b = absent + 1 \/ b = Grace + 1
          BY <5>1 DEF Up
        <5>. QED  BY <1>3, <1>b, <2>1, <3>2, <4>1, <5>2
      <4>4. CASE ~enrolled
        <5>1. a = age
          BY <1>a, <4>4 DEF Tick
        <5>. QED  BY <1>3, <1>b, <2>1, <3>2, <4>1, <5>1
      <4>. QED  BY <4>3, <4>4
    <3>. QED  BY <1>3, <3>1, <3>2
  <2>3. age' <= absent' + Interval - due'
    BY <1>a, <2>2
  <2>. QED  BY <1>1, <1>6, <2>3 DEF BeatsTimely
<1>. QED  BY <1>5, <1>6

LEMMA BeatsStep ==
  ASSUME Types, InStep, BeatsTimely, Next
  PROVE  BeatsTimely'
<1>1. CASE ~Healthy
  <2>1. cpc \in {"select", "ended"}
    BY DEF Types, TypeOK
  <2>2. ~Healthy'
    BY <1>1, <2>1, OneWay DEF Healthy
  <2>. QED  BY <2>2 DEF BeatsTimely, Healthy
<1>2. CASE Healthy /\ (Worker \/ WorkerGoodbye)
  BY <1>2, BeatsWorker
<1>3. CASE Healthy /\ SessionRead
  BY <1>3, BeatsRead
<1>4. CASE Healthy /\ SessionPush
  <2>1. UNCHANGED <<age, absent, lagC, due, toC>> /\ cread' = Start /\ lost' = Dropped(cread, "session")
    BY <1>4 DEF SessionPush, workVars, jobVars
  <2>2. CASE "session" \in lost'
    BY <2>2 DEF BeatsTimely
  <2>3. CASE "session" \notin lost'
    <3>1. cread = Start
      BY <2>1, <2>3, DropKnown
    <3>2. BeatUnderWay' <=> BeatUnderWay
      BY <2>1, <3>1 DEF BeatUnderWay
    <3>. QED  BY <1>4, <2>1, <3>2, BeatsFrame
  <2>. QED  BY <2>2, <2>3
<1>5. CASE Healthy /\ Tick
  BY <1>5, BeatsTick
<1>6. CASE Healthy /\ (SessionClosed \/ SessionEof \/ WitnessDrain \/ WitnessFault \/ Assign \/ Reaper)
  <2>1. UNCHANGED <<age, absent, lagC, due, toC, cread>>
    BY <1>6 DEF SessionClosed, SessionEof, WitnessDrain, WitnessFault, Assign, Reaper,
         workVars, sessVars, wireVars, jobVars, histVars
  <2>2. BeatUnderWay' <=> BeatUnderWay
    BY <2>1 DEF BeatUnderWay
  <2>. QED  BY <1>6, <2>1, <2>2, BeatsFrame
<1>. QED  BY <1>1, <1>2, <1>3, <1>4, <1>5, <1>6 DEF Next, Session

LEMMA EndsStep ==
  ASSUME Types, InStepUntilDropped', EndsExplained, Next
  PROVE  EndsExplained'
<1>. USE DEF workVars, sessVars, wireVars, jobVars, histVars, EndsExplained
<1>0. TypeOK /\ {"assign", "receipt", "ack"} \subseteq Msgs
  BY DEF Types, Msgs
<1>1. CASE Worker \/ WorkerGoodbye
  BY <1>1 DEF Worker, WorkerGoodbye, WorkerHeartbeat, WorkerRead, ProveDone, ProveFailed,
       Fanout, WorkerEof, Dropped
<1>2. CASE SessionPush
  <2>0. PICK m \in Msgs : m = Head(pushq)
    <3>1. Head(pushq) \in {"assign", "receipt"}
      BY <1>0, <1>2 DEF SessionPush, TypeOK
    <3>. QED  BY <1>0, <3>1
  <2>1. cpc' = cpc \/ (wpc = "ended" /\ cpc' = "ended")
    BY <1>0, <1>2, <2>0, SessionWritten DEF SessionPush
  <2>2. UNCHANGED <<wpc, enrolled, verdict>> /\ lost \subseteq lost'
    BY <1>2, DropKnown DEF SessionPush
  <2>. QED  BY <2>1, <2>2
<1>3. CASE SessionRead
  <2>1. UNCHANGED <<wpc, lost, verdict>> /\ cpc = "select" /\ enrolled
    BY <1>3 DEF SessionRead
  <2>2. PICK r \in read_frame(cread, Head(toC)) :
          /\ broken' = IF r.t = "error" THEN broken \cup {"session"} ELSE broken
          /\ \/ r.t = "more" /\ UNCHANGED cpc
             \/ r.t = "error"
             \/ SessionWrites("ack")
             \/ UNCHANGED cpc
             \/ OnGoodbye
    BY <1>3 DEF SessionRead, OnBeat, OnAnswer
  <2>3. verdict # "stale"
    BY <2>1
  <2>4. CASE r.t = "error"
    <3>1. "session" \in lost'
      BY <2>2, <2>4 DEF InStepUntilDropped
    <3>. QED  BY <2>1, <2>3, <3>1
  <2>5. CASE SessionWrites("ack")
    <3>1. cpc' = cpc \/ (wpc = "ended" /\ cpc' = "ended")
      BY <1>0, <2>5, SessionWritten
    <3>. QED  BY <2>1, <2>3, <3>1
  <2>6. CASE UNCHANGED cpc
    BY <2>1, <2>3, <2>6
  <2>7. CASE OnGoodbye
    BY <2>1, <2>3, <2>7 DEF OnGoodbye, Unenrol
  <2>. QED  BY <2>2, <2>4, <2>5, <2>6, <2>7
<1>4. CASE SessionClosed \/ SessionEof
  BY <1>4 DEF SessionClosed, SessionEof, Unenrol
<1>5. CASE WitnessDrain \/ WitnessFault \/ Assign \/ Tick
  BY <1>5 DEF WitnessDrain, WitnessFault, Assign, Tick
<1>6. CASE Reaper
  BY <1>6 DEF Reaper
<1>. QED  BY <1>1, <1>2, <1>3, <1>4, <1>5, <1>6 DEF Next, Session

\* The reaper finds a worker stale only after the grace, so the time is accounted
\* for; nothing moves the account once the entry is gone.
LEMMA HealthyStep ==
  ASSUME Types, BeatsTimely, EndsExplained, HealthyKept, Next
  PROVE  HealthyKept'
<1>. USE DEF workVars, sessVars, wireVars, jobVars, histVars
<1>0. TypeOK
  BY DEF Types
<1>. SUFFICES ASSUME verdict' = "stale", wpc' # "ended", "session" \notin lost'
              PROVE  absent' + Interval + Lag > Grace
  BY DEF HealthyKept
<1>1. wpc # "ended" /\ "session" \notin lost
  BY OneWay
<1>2. CASE verdict = "stale"
  <2>1. ~enrolled
    BY <1>2 DEF EndsExplained
  <2>2. absent' = absent
    <3>1. CASE Worker \/ WorkerGoodbye
      BY <3>1 DEF Worker, WorkerGoodbye, WorkerHeartbeat, WorkerRead, ProveDone, ProveFailed,
           Fanout, WorkerEof
    <3>2. CASE Session
      BY <2>1, <3>2 DEF Session, SessionPush, SessionClosed, SessionRead, SessionEof
    <3>3. CASE WitnessDrain \/ WitnessFault \/ Assign \/ Reaper \/ Tick
      BY <2>1, <3>3 DEF WitnessDrain, WitnessFault, Assign, Reaper, Tick
    <3>. QED  BY <3>1, <3>2, <3>3 DEF Next
  <2>. QED  BY <1>1, <1>2, <2>2 DEF HealthyKept
<1>3. CASE verdict # "stale"
  <2>1. Reaper
    <3>1. CASE Worker \/ WorkerGoodbye
      BY <1>3, <3>1 DEF Worker, WorkerGoodbye, WorkerHeartbeat, WorkerRead, ProveDone, ProveFailed,
           Fanout, WorkerEof
    <3>2. CASE Session
      BY <1>3, <3>2 DEF Session, SessionPush, SessionClosed, SessionRead, SessionEof
    <3>3. CASE WitnessDrain \/ WitnessFault \/ Assign \/ Tick
      BY <1>3, <3>3 DEF WitnessDrain, WitnessFault, Assign, Tick
    <3>. QED  BY <3>1, <3>2, <3>3 DEF Next
  <2>2. enrolled /\ age > Grace /\ absent' = absent
    BY <1>3, <2>1 DEF Reaper
  <2>3. cpc = "select"
    BY <1>0, <1>1, <2>2 DEF EndsExplained, TypeOK
  <2>4. age <= absent + Interval + lagC \/ age <= absent + Interval - due
    BY <1>1, <2>3 DEF BeatsTimely
  <2>5. absent + Interval + Lag > Grace
    <3>1. age > Grace
      BY <2>2
    <3>. QED  BY <1>0, <2>4, <3>1, Quantities, Clocks
  <2>. QED  BY <2>2, <2>5
<1>. QED  BY <1>2, <1>3

----------------------------------------------------------------------------
LEMMA InitIInv == Init => IInv
<1>. SUFFICES ASSUME Init PROVE IInv
  OBVIOUS
<1>1. TypeOK /\ ReadOK(wread) /\ ReadOK(cread)
  BY TypeInit
<1>2. Framed(<<>>) /\ Aligned(Start, <<>>)
  BY StartRead DEF Framed, Aligned, Boundary
<1>3. InStep /\ InStepUntilDropped
  BY <1>2 DEF Init, InStep, InStepUntilDropped
<1>4. ~BeatUnderWay
  BY StartRead DEF Init, BeatUnderWay, CarriesBeat
<1>5. BeatsTimely
  <2>1. age = 0 /\ absent = 0 /\ due = 0
    BY DEF Init
  <2>2. 0 <= 0 + Interval - 0
    BY Clocks
  <2>. QED  BY <1>4, <2>1, <2>2 DEF BeatsTimely
<1>6. EndsExplained /\ HealthyKept
  BY DEF Init, EndsExplained, HealthyKept
<1>. QED  BY <1>1, <1>3, <1>5, <1>6 DEF IInv

LEMMA NextIInv == IInv /\ [Next]_vars => IInv'
<1>. SUFFICES ASSUME IInv, [Next]_vars PROVE IInv'
  OBVIOUS
<1>0. Types /\ InStep /\ InStepUntilDropped /\ BeatsTimely /\ EndsExplained /\ HealthyKept
  BY DEF IInv, Types
<1>1. CASE Next
  <2>1. Types' /\ InStep' /\ InStepUntilDropped'
    BY <1>0, <1>1, TypeStep, StepStep
  <2>2. BeatsTimely' /\ EndsExplained' /\ HealthyKept'
    BY <1>0, <1>1, <2>1, BeatsStep, EndsStep, HealthyStep
  <2>. QED  BY <2>1, <2>2 DEF IInv, Types
<1>2. CASE UNCHANGED vars
  BY <1>0, <1>2 DEF vars, workVars, sessVars, wireVars, jobVars, histVars, IInv, Types, TypeOK,
       InStep, InStepUntilDropped, BeatsTimely, BeatUnderWay, EndsExplained, HealthyKept
<1>. QED  BY <1>1, <1>2

\* The invariant holds in every reachable state of a worker, its session and the
\* reapers that watch them.
THEOREM Invariance == Spec => []IInv
<1>1. Init => IInv
  BY InitIInv
<1>2. IInv /\ [Next]_vars => IInv'
  BY NextIInv
<1>. QED  BY <1>1, <1>2, PTL DEF Spec

\* Every variable keeps the shape of the value it stands for: the evidence channel
\* never holds more than its capacity, and no frame is longer on its way than Lag.
THEOREM TypeCorrect == Spec => []TypeOK
<1>1. IInv => TypeOK
  BY DEF IInv
<1>. QED  BY <1>1, Invariance, PTL

\* read_frame meets a frame error only on a side whose select loop dropped a read
\* half-way, for every length of frame and however the two ends interleave.
THEOREM InStepKept == Spec => []InStepUntilDropped
<1>1. IInv => InStepUntilDropped
  BY DEF IInv
<1>. QED  BY <1>1, Invariance, PTL

\* The heartbeat reaper removes a running worker with an intact stream only if its
\* loop was away for more than the grace leaves after an interval and a transit.
THEOREM HealthyNeverReaped == Spec => []HealthyKept
<1>1. IInv => HealthyKept
  BY DEF IInv
<1>. QED  BY <1>1, Invariance, PTL
=============================================================================
