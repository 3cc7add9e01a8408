-------------------------------- MODULE Wire --------------------------------
(***************************************************************************)
(* The buffers under the wire protocol: MessageWriter                      *)
(* (src/packages/pg-rocket/src/protocol/writer.ts), the connection's       *)
(* flush(), and MessageReader (protocol/reader.ts) with the part of        *)
(* drain() that lends its messages out.                                    *)
(*                                                                         *)
(* The two ends are joined by one stream, which TCP cuts anywhere: what    *)
(* stands in for the server echoes the frames it got.  A cell is a type    *)
(* byte, a length (the four bytes of the int32 in one) or a cell of a      *)
(* body.  Untyped frames (startup, SSLRequest, cancel) are left out: they  *)
(* differ in the missing type byte, and each is flushed by itself.         *)
(***************************************************************************)
EXTENDS Integers, Sequences, FiniteSets, FiniteSetsExt, SequencesExt

CONSTANTS
  Messages,        \* number of frames encoded
  Fields,          \* what a body is made of: [reserve, written], in cells
  MaxFields,       \* fields of a body
  InitialCapacity  \* INITIAL_CAPACITY

ASSUME WireAssumption ==
  /\ Messages \in Nat
  /\ MaxFields \in Nat
  /\ InitialCapacity \in Nat \ {0}
  /\ Fields \subseteq [reserve : Nat, written : Nat]
  /\ \A f \in Fields : f.written <= f.reserve

VARIABLES
  body,     \* the fields of each message's body
  encoded,  \* messages encoded so far
  w,        \* the writer: buffer, offset, headerStart
  wire,     \* cells on the way
  r,        \* the reader: buffer, readPos, writePos
  msg,      \* the message lent to the waiter, or NoMsg
  got,      \* the messages consumers have parsed
  most      \* ghost: the most cells the reader has held unread

vars == <<body, encoded, w, wire, r, msg, got, most>>

HeaderSize == 2
NoMsg == [kind |-> 0, offset |-> 0, length |-> 0]

\* A fresh buffer is zeroed.
Zero == <<"zero">>
NewBuffer(cap) == [i \in 0 .. cap - 1 |-> Zero]
Cap(buf) == Cardinality(DOMAIN buf)

Cells(buf, from, to) == [i \in 1 .. to - from |-> buf[from + i - 1]]
Patch(buf, at, cells) ==
  [i \in DOMAIN buf |-> IF i \in at .. at + Len(cells) - 1
                        THEN cells[i - at + 1] ELSE buf[i]]

\* cap * 2, and again until there is room.
Doubled(cap, need) ==
  LET k == CHOOSE k \in 1 .. need + 1 :
             /\ cap * 2 ^ k >= need
             /\ \A j \in 1 .. k - 1 : cap * 2 ^ j < need
  IN  cap * 2 ^ k

-----------------------------------------------------------------------------
(* MessageWriter *)

MutEnsure(x, extra) ==
  IF x.offset + extra <= Cap(x.buf)
  THEN x
  ELSE [x EXCEPT !.buf = NewBuffer(Doubled(Cap(x.buf), x.offset + extra))]

\* ensure(): the encoded cells move to a larger buffer.
Ensure(x, extra) ==
  IF x.offset + extra <= Cap(x.buf)
  THEN x
  ELSE [x EXCEPT !.buf = Patch(NewBuffer(Doubled(Cap(x.buf), x.offset + extra)),
                               0, Cells(x.buf, 0, x.offset))]

\* startFrame(): the length slot keeps what it held.
StartFrame(x, m) ==
  LET e == Ensure(x, HeaderSize)
  IN  [buf |-> Patch(e.buf, e.offset, <<<<"kind", m>>>>),
       headerStart |-> e.offset + 1,
       offset |-> e.offset + HeaderSize]

\* A primitive writer reserves and writes; writeCString() reserves the worst
\* case of its encoding and writes less.
WriteField(x, m, f) ==
  LET e == Ensure(x, f.reserve)
  IN  [e EXCEPT !.buf = Patch(@, e.offset, [i \in 1 .. f.written |->
                                 <<"body", m, e.offset + i - e.headerStart - 1>>]),
                !.offset = @ + f.written]

\* finishFrame(): the length counts itself and not the type.
FinishFrame(x) ==
  [x EXCEPT !.buf[x.headerStart] = <<"len", x.offset - x.headerStart>>,
            !.headerStart = -1]

\* One of the write functions, in one go.
Encode ==
  /\ encoded < Messages
  /\ LET m == encoded + 1
     IN  w' = FinishFrame(FoldLeft(LAMBDA x, f : WriteField(x, m, f),
                                   StartFrame(w, m), body[m]))
  /\ encoded' = encoded + 1
  /\ UNCHANGED <<body, wire, r, msg, got, most>>

\* flush(): a copy of bytes() goes to the socket and reset() takes it back;
\* an empty writer writes nothing.
Flush ==
  /\ w.offset > 0
  /\ wire' = wire \o Cells(w.buf, 0, w.offset)
  /\ w' = [w EXCEPT !.offset = 0]
  /\ UNCHANGED <<body, encoded, r, msg, got, most>>

-----------------------------------------------------------------------------
(* MessageReader *)

MutEnsureWritable(extra) ==
  LET unread == r.writePos - r.readPos
  IN  IF r.writePos + extra <= Cap(r.buf)
      THEN r
      ELSE [buf |-> Patch(NewBuffer(Doubled(Cap(r.buf), unread + extra)), 0,
                          Cells(r.buf, r.readPos, r.writePos)),
            readPos |-> 0, writePos |-> unread]

\* ensureWritable(): the unread cells slide to the front, or move to a larger
\* buffer.
EnsureWritable(extra) ==
  LET unread == r.writePos - r.readPos
      cells == Cells(r.buf, r.readPos, r.writePos)
  IN  IF r.writePos + extra <= Cap(r.buf)
      THEN r
      ELSE [buf |-> IF r.readPos > 0 /\ unread + extra <= Cap(r.buf)
                    THEN Patch(r.buf, 0, cells)
                    ELSE Patch(NewBuffer(Doubled(Cap(r.buf), unread + extra)),
                               0, cells),
            readPos |-> 0, writePos |-> unread]

\* onTransportData() with a chunk of n cells.  The waiter of a message runs
\* before the next chunk comes.
MutPush ==
  /\ \E n \in 1 .. Len(wire) :
       LET e == EnsureWritable(n)
       IN  /\ r' = [e EXCEPT !.buf = Patch(@, e.writePos, SubSeq(wire, 1, n)),
                             !.writePos = @ + n]
           /\ wire' = SubSeq(wire, n + 1, Len(wire))
           /\ most' = Max({most, e.writePos - e.readPos + n})
  /\ UNCHANGED <<body, encoded, w, msg, got>>

Push ==
  /\ msg = NoMsg
  /\ \E n \in 1 .. Len(wire) :
       LET e == EnsureWritable(n)
       IN  /\ r' = [e EXCEPT !.buf = Patch(@, e.writePos, SubSeq(wire, 1, n)),
                             !.writePos = @ + n]
           /\ wire' = SubSeq(wire, n + 1, Len(wire))
           /\ most' = Max({most, e.writePos - e.readPos + n})
  /\ UNCHANGED <<body, encoded, w, msg, got>>

\* A whole frame is in the buffer; a length below its own size would throw.
Complete ==
  /\ r.writePos - r.readPos >= HeaderSize
  /\ r.buf[r.readPos + 1][1] = "len"
  /\ r.writePos - r.readPos >= r.buf[r.readPos + 1][2] + 1

\* next(): the record borrows the cells of the body.
Peeled ==
  [kind |-> r.buf[r.readPos][2],
   offset |-> r.readPos + HeaderSize,
   length |-> r.buf[r.readPos + 1][2] - 1]

Parsed(m) == <<m.kind, Cells(r.buf, m.offset, m.offset + m.length)>>

\* drain() hands a message to the head of the queue, which parses it at once,
\* or to the waiter, which gets the record.
NextMessage ==
  /\ msg = NoMsg
  /\ Complete
  /\ r' = [r EXCEPT !.readPos = Peeled.offset + Peeled.length]
  /\ \/ got' = Append(got, Parsed(Peeled)) /\ UNCHANGED msg
     \/ msg' = Peeled /\ UNCHANGED got
  /\ UNCHANGED <<body, encoded, w, wire, most>>

\* The continuation of awaitMessage() parses the body where it lies.
ParseLent ==
  /\ msg # NoMsg
  /\ got' = Append(got, Parsed(msg))
  /\ msg' = NoMsg
  /\ UNCHANGED <<body, encoded, w, wire, r, most>>

-----------------------------------------------------------------------------
Init ==
  /\ body \in [1 .. Messages -> BoundedSeq(Fields, MaxFields)]
  /\ encoded = 0
  /\ w = [buf |-> NewBuffer(InitialCapacity), offset |-> 0, headerStart |-> -1]
  /\ wire = <<>>
  /\ r = [buf |-> NewBuffer(InitialCapacity), readPos |-> 0, writePos |-> 0]
  /\ msg = NoMsg
  /\ got = <<>> /\ most = 0

Next == Encode \/ Flush \/ Push \/ NextMessage \/ ParseLent

Spec == Init /\ [][Next]_vars

-----------------------------------------------------------------------------
(* Properties *)

Length(m) == FoldLeft(LAMBDA n, f : n + f.written, 0, body[m])

\* The frame of message m, and its body, by the protocol's definition.
Body(m) == [k \in 1 .. Length(m) |-> <<"body", m, k>>]
Frame(m) == <<<<"kind", m>>, <<"len", Length(m) + 1>>>> \o Body(m)
Frames(n) == FlattenSeq([m \in 1 .. n |-> Frame(m)])

\* Types; positions stay in their buffers; no frame is left open; and the
\* reader's buffer is never twice as large as what it had to hold: it slides
\* rather than grows where it can.
TypeOK ==
  /\ encoded \in 0 .. Messages
  /\ 0 <= w.offset /\ w.offset <= Cap(w.buf) /\ w.headerStart = -1
  /\ 0 <= r.readPos /\ r.readPos <= r.writePos /\ r.writePos <= Cap(r.buf)
  /\ Len(got) <= encoded
  /\ Cap(r.buf) = InitialCapacity \/ Cap(r.buf) < 2 * most

\* Every message that was encoded is parsed once, in order, with its own body,
\* however frames are batched, buffers grow, slide and are used again, and
\* chunks are cut; and what has not been parsed is on the way, cell for cell.
FramesExact ==
  LET lent == IF msg = NoMsg THEN <<>> ELSE <<Parsed(msg)>>
      read == Len(got) + Len(lent)
  IN  /\ got \o lent = [m \in 1 .. read |-> <<m, Body(m)>>]
      /\ Frames(read) \o Cells(r.buf, r.readPos, r.writePos) \o wire
           \o Cells(w.buf, 0, w.offset) = Frames(encoded)
=============================================================================
