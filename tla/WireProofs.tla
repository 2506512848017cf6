----------------------------- MODULE WireProofs -----------------------------
(***************************************************************************)
(* What a connection brings across, for every length of the fields, every  *)
(* base, every file, and every way to cut the stream into writes and       *)
(* reads: the invariant says where in the stream each step of the protocol *)
(* stands, and the two properties follow by arithmetic.                    *)
(***************************************************************************)
EXTENDS Wire, TLAPS

\* Lengths are natural numbers, as written and as parsed.  (ReadFilename)
LEMMA Lengths ==
    ASSUME TypeOK
    PROVE  /\ file.chars \in Nat /\ file.bytes \in Nat /\ file.content \in Nat
           /\ NameStart \in Nat /\ Width(file.chars) \in Nat
           /\ Total \in Nat /\ Parsed(file.chars) \in Nat
<1>1. file.chars \in Nat /\ file.bytes \in Nat /\ file.content \in Nat
  BY WireAssumption DEF TypeOK
<1>2. Base \in Nat /\ Base > 0
  BY WireAssumption
<1>3. Parsed(file.chars) \in Nat
  <2>1. CASE file.chars < Limit
    BY <1>1, <2>1 DEF Parsed
  <2>2. CASE ~(file.chars < Limit)
    <3> DEFINE n == file.chars
    <3>1. n \div Base \in Nat
      <4> HIDE DEF n
      <4>1. n \in Nat BY <1>1 DEF n
      <4> QED BY <1>2, <4>1
    <3> QED BY <2>2, <3>1 DEF Parsed
  <2> QED BY <2>1, <2>2
<1> QED BY <1>1, <1>3, WireAssumption DEF NameStart, Width, Total

\* Every step of the protocol stands where the stream says.
LEMMA InitIInv == Init => IInv
<1> SUFFICES ASSUME Init PROVE IInv
  OBVIOUS
<1>1. file.chars \in Nat /\ file.bytes \in Nat /\ file.content \in Nat
  BY WireAssumption DEF Init
<1>2. Total \in Nat
  BY <1>1, WireAssumption DEF Total, Width
<1>3. TypeOK
  BY <1>2 DEF Init, TypeOK, Over
<1>4. PositionInv
  BY WireAssumption DEF Init, PositionInv, NameTaken, InHeader
<1> QED BY <1>3, <1>4 DEF IInv

LEMMA NextIInv == IInv /\ [Next]_vars => IInv'
<1> SUFFICES ASSUME IInv, [Next]_vars PROVE IInv'
  OBVIOUS
<1> USE DEF IInv
<1>n. /\ file.chars \in Nat /\ file.bytes \in Nat /\ file.content \in Nat
      /\ NameStart \in Nat /\ Total \in Nat /\ Parsed(file.chars) \in Nat
      /\ IdLen \in Nat /\ IdLen <= NameStart
  BY Lengths, WireAssumption DEF NameStart
<1>f. file' = file /\ Total' = Total /\ Parsed(file.chars)' = Parsed(file.chars)
  BY DEF Next, Serve, Finished, Write, Close, Break, Vanish, ReadHeader,
         ReadTaskId, Refuse, ReadLength, ReadFilename, HeaderFails, OpenFile, Copy, CopyFails, CopyEnds,
         Total, Parsed, Width, vars, clientVars, serverVars
<1> USE <1>n, <1>f DEF TypeOK, PositionInv, NameTaken, InHeader, FieldEnd, Over,
        vars, clientVars, serverVars
<1>1. CASE Write
  BY <1>1 DEF Write
<1>2. CASE Close \/ Break \/ Vanish
  BY <1>2 DEF Close, Break, Vanish, CanBeLost
<1>3. CASE ReadHeader
  BY <1>3 DEF ReadHeader
<1>4. CASE ReadTaskId \/ Refuse
  BY <1>4 DEF ReadTaskId, Refuse
<1>5. CASE ReadLength
  BY <1>5 DEF ReadLength
<1>6. CASE ReadFilename
  BY <1>6 DEF ReadFilename
<1>7. CASE HeaderFails
  BY <1>7 DEF HeaderFails
<1>8. CASE OpenFile
  BY <1>8 DEF OpenFile
<1>9. CASE Copy
  BY <1>9 DEF Copy
<1>10. CASE CopyFails \/ CopyEnds
  BY <1>10 DEF CopyFails, CopyEnds
<1>11. CASE Finished /\ UNCHANGED vars
  BY <1>11
<1>12. CASE UNCHANGED vars
  BY <1>12
<1> QED
  BY <1>1, <1>2, <1>3, <1>4, <1>5, <1>6, <1>7, <1>8, <1>9, <1>10, <1>11, <1>12
  DEF Next, Serve

\* Wherever the stream is cut, the handler knows where it stands in it.
THEOREM WireInvariant == Spec => []IInv
BY InitIInv, NextIInv, PTL DEF Spec

\* The handler takes as the name what was sent as the name if, and only if,
\* the name has as many bytes as characters and its length fits the field.
THEOREM NamesArrive == Spec => []NameIntact
<1>1. IInv => NameIntact
  <2> SUFFICES ASSUME IInv, NameTaken PROVE
        Fits <=> /\ NameStart = IdLen + Width(file.chars)
                 /\ nameEnd = IdLen + Width(file.chars) + file.bytes
    BY DEF NameIntact
  <2>1. nameEnd = NameStart + Parsed(file.chars)
    BY DEF IInv, PositionInv, NameTaken
  <2>2. /\ file.chars \in Nat /\ file.bytes \in Nat /\ NameStart \in Nat
        /\ Parsed(file.chars) \in Nat
    BY Lengths DEF IInv
  <2>3. CASE file.chars < Limit
    BY <2>1, <2>2, <2>3, WireAssumption DEF Fits, Parsed, Width, NameStart
  <2>4. CASE ~(file.chars < Limit)
    BY <2>2, <2>4, WireAssumption DEF Fits, Width, NameStart
  <2> QED BY <2>3, <2>4
<1> QED BY <1>1, WireInvariant, PTL

\* A connection that ends well has stored all that was written after the name.
THEOREM ContentArrives == Spec => []StoredIsSent
<1>1. IInv => StoredIsSent
  <2> SUFFICES ASSUME IInv, state = "END" PROVE
        /\ client = "closed"
        /\ nameEnd + stored = written
        /\ Fits /\ written = Total => stored = file.content
    BY DEF StoredIsSent
  <2>1. /\ client = "closed" /\ received = written
        /\ nameLen # -1 /\ nameEnd = NameStart + nameLen
        /\ nameEnd + stored = received
        /\ nameLen \in {-1, Parsed(file.chars)}
    BY DEF IInv, PositionInv, NameTaken
  <2>2. ASSUME Fits, written = Total PROVE stored = file.content
    <3>1. /\ file.chars \in Nat /\ file.bytes \in Nat /\ file.content \in Nat
          /\ stored \in Nat /\ NameStart \in Nat
      BY Lengths DEF IInv, TypeOK
    <3>2. nameLen = file.bytes /\ Width(file.chars) = LenLen
      BY <2>1, <2>2 DEF Fits, Parsed, Width
    <3> QED BY <2>1, <2>2, <3>1, <3>2, WireAssumption DEF Total, NameStart
  <2> QED BY <2>1, <2>2
<1> QED BY <1>1, WireInvariant, PTL

-----------------------------------------------------------------------------
(* The connection as Backup takes it                                       *)

Same == UNCHANGED Connection!vars

LEMMA ClientMoves ==
    ASSUME NEW a, NEW b, ClientOf = a, ClientOf' = b, HandlerOf' = HandlerOf
    PROVE  Connection!ClientGoes(It, a, b)
BY DEF Connection!ClientGoes

LEMMA HandlerMoves ==
    ASSUME NEW a, NEW b, HandlerOf = a, HandlerOf' = b, ClientOf' = ClientOf
    PROVE  /\ Connection!HandlerGoes(It, a, b)
           /\ [c \in {It} |-> ClientOf][It] = ClientOf
BY DEF Connection!HandlerGoes

LEMMA NothingMoves ==
    ASSUME HandlerOf' = HandlerOf, ClientOf' = ClientOf PROVE Same
BY DEF Same, Connection!vars

\* Which bytes are there decides what the client has done.
LEMMA ClientStepMapped ==
    ASSUME IInv, Write \/ Close \/ Break \/ Vanish
    PROVE  Connection!Next \/ Same
<1>1. /\ file.chars \in Nat /\ NameStart \in Nat /\ Total \in Nat
      /\ Parsed(file.chars) \in Nat /\ IdLen \in Nat
  BY Lengths, WireAssumption DEF IInv
<1>2. /\ file' = file /\ UNCHANGED serverVars /\ client \in {"sending", "closed"}
      /\ Parsed(file.chars)' = Parsed(file.chars) /\ written \in Nat
  BY <1>1 DEF Write, Close, Break, Vanish, CanBeLost, IInv, TypeOK, Parsed
<1>3. HandlerOf' = HandlerOf
  BY <1>2 DEF HandlerOf, Admitting, serverVars
<1>4. CASE Write
  <2>1. /\ written' \in Nat /\ written' > written
        /\ client = "sending" /\ client' = "sending"
    BY <1>1, <1>2, <1>4 DEF Write
  <2>2. CASE written < IdLen /\ written' >= IdLen
    <3>1. ClientOf = "connected"
      BY <1>1, <1>2, <2>1, <2>2 DEF ClientOf
    <3>2. ClientOf' = "headed"
      BY <1>1, <2>1, <2>2 DEF ClientOf
    <3>3. Connection!SendId(It)
      BY <1>3, <3>1, <3>2, ClientMoves DEF Connection!SendId
    <3> QED BY <3>3 DEF Connection!Next
  <2>3. CASE ~(written < IdLen /\ written' >= IdLen)
    <3>1. ClientOf' = ClientOf
      BY <1>1, <1>2, <2>1, <2>3 DEF ClientOf
    <3> QED BY <1>3, <3>1, NothingMoves
  <2> QED BY <2>2, <2>3
<1>5. CASE Close \/ Break \/ Vanish
  <2>1. written' = written /\ client' \in {"closed", "broken", "vanished"}
    BY <1>5 DEF Close, Break, Vanish
  <2>2. CASE written < IdLen
    <3>1. ClientOf \in {"connected", "lost"}
      BY <1>1, <1>2, <2>2 DEF ClientOf
    <3>2. ClientOf' = "lost"
      BY <1>1, <1>2, <2>1, <2>2 DEF ClientOf
    <3>3. CASE ClientOf = "connected"
      <4>1. Connection!Break(It)
        BY <1>3, <3>2, <3>3, ClientMoves DEF Connection!Break
      <4> QED BY <4>1 DEF Connection!Next
    <3> QED BY <1>3, <3>1, <3>2, <3>3, NothingMoves
  <2>3. CASE ~(written < IdLen) /\ client = "sending"
    <3>1. ClientOf = "headed"
      BY <1>1, <1>2, <2>3 DEF ClientOf
    <3>2. ClientOf' \in {"eof", "reset"}
      BY <1>1, <1>2, <2>1, <2>3 DEF ClientOf
    <3>3. Connection!End(It) \/ Connection!Break(It)
      BY <1>3, <3>1, <3>2, ClientMoves DEF Connection!End, Connection!Break
    <3> QED BY <3>3 DEF Connection!Next
  \* The connection is lost after the script has closed it.
  <2>4. CASE ~(written < IdLen) /\ client = "closed"
    <3>1. ClientOf \in {"eof", "reset"}
      BY <1>1, <1>2, <2>4 DEF ClientOf
    <3>2. client' # "closed" /\ client' # "sending"
      BY <1>5, <2>4 DEF Close, Break, Vanish
    <3>3. ClientOf' = "reset"
      BY <1>1, <1>2, <2>1, <2>4, <3>2 DEF ClientOf
    <3>4. CASE ClientOf = "eof"
      <4>1. Connection!Break(It)
        BY <1>3, <3>3, <3>4, ClientMoves DEF Connection!Break
      <4> QED BY <4>1 DEF Connection!Next
    <3> QED BY <1>3, <3>1, <3>3, <3>4, NothingMoves
  <2> QED BY <1>2, <2>2, <2>3, <2>4
<1> QED BY <1>4, <1>5

\* A handler that has been told a task id, or more, has it from the client.
LEMMA ClientHasSpoken ==
    ASSUME IInv, written >= IdLen
    PROVE  ClientOf \in {"headed", "eof", "reset"}
BY WireAssumption DEF IInv, TypeOK, ClientOf

LEMMA ServeStepMapped ==
    ASSUME IInv, IInv', Serve
    PROVE  Connection!Next \/ Same
<1> USE DEF IInv
<1>1. /\ file.chars \in Nat /\ NameStart \in Nat /\ Total \in Nat
      /\ Parsed(file.chars) \in Nat /\ IdLen \in Nat \ {0} /\ NameStart >= IdLen
      /\ written \in Nat /\ received \in Nat /\ received <= written
  <2>1. NameStart >= IdLen
    BY WireAssumption DEF NameStart
  <2> QED BY <2>1, Lengths, WireAssumption DEF TypeOK
<1>2. UNCHANGED clientVars
  BY DEF Serve, ReadHeader, ReadTaskId, Refuse, ReadLength, ReadFilename,
         HeaderFails, OpenFile, Copy, CopyFails, CopyEnds
<1>3. ClientOf' = ClientOf
  BY <1>2 DEF clientVars, ClientOf, NameStart, Parsed
<1>4. ASSUME HandlerOf = "task_id", HandlerOf' = "filename", written >= IdLen
      PROVE  Connection!Next
  <2>1. Connection!Admit(It)
    BY <1>3, <1>4, HandlerMoves, ClientHasSpoken DEF Connection!Admit
  <2> QED BY <2>1 DEF Connection!Next
<1>5. ASSUME HandlerOf' = "gaveup",
             \/ HandlerOf = "task_id" /\ ClientOf # "connected"
             \/ HandlerOf \in {"filename", "receiving"}
      PROVE  Connection!Next
  <2>1. Connection!GiveUp(It)
    BY <1>3, <1>5, HandlerMoves DEF Connection!GiveUp
  <2> QED BY <2>1 DEF Connection!Next
<1>6. ASSUME HandlerOf' = HandlerOf PROVE Same
  BY <1>3, <1>6, NothingMoves
<1>7. CASE ReadHeader
  <2>1. /\ InHeader /\ state' = state /\ nameLen' = nameLen /\ received' > received
        /\ received' <= written /\ received' \in Nat
    BY <1>1, <1>7 DEF ReadHeader
  <2>2. CASE state = "WAIT_TASK_ID" \/ nameLen # -1
    <3>1. HandlerOf' = HandlerOf
      BY <2>1, <2>2 DEF HandlerOf, Admitting, InHeader
    <3> QED BY <1>6, <3>1
  <2>3. CASE state = "WAIT_FILENAME" /\ nameLen = -1 /\ received = IdLen
    <3>1. HandlerOf = "task_id"
      BY <2>3 DEF HandlerOf, Admitting
    <3>2. ~Admitting' /\ state' = "WAIT_FILENAME"
      BY <1>1, <2>1, <2>3 DEF Admitting
    <3>3. HandlerOf' = "filename"
      BY <3>2 DEF HandlerOf
    <3> QED BY <1>1, <1>4, <2>3, <3>1, <3>3
  <2>4. CASE state = "WAIT_FILENAME" /\ nameLen = -1 /\ received # IdLen
    <3>1. received >= IdLen
      BY <2>4 DEF PositionInv
    <3>2. ~Admitting /\ ~Admitting' /\ state' = "WAIT_FILENAME"
      BY <1>1, <2>1, <2>4, <3>1 DEF Admitting
    <3>3. HandlerOf' = HandlerOf
      BY <2>4, <3>2 DEF HandlerOf
    <3> QED BY <1>6, <3>3
  <2> QED BY <2>1, <2>2, <2>3, <2>4 DEF InHeader
<1>8. CASE ReadTaskId
  <2>1. /\ state = "WAIT_TASK_ID" /\ state' = "WAIT_FILENAME"
        /\ nameLen' = -1 /\ received' = IdLen
    BY <1>8 DEF ReadTaskId, PositionInv, FieldEnd
  <2>2. HandlerOf' = HandlerOf
    BY <2>1 DEF HandlerOf, Admitting
  <2> QED BY <1>6, <2>2
<1>9. CASE Refuse
  <2>1. HandlerOf = "task_id" /\ HandlerOf' = "gaveup" /\ written >= IdLen
    BY <1>1, <1>9 DEF Refuse, HandlerOf, Admitting
  <2> QED BY <1>5, <2>1, ClientHasSpoken
<1>10. CASE ReadLength
  <2>1. /\ state = "WAIT_FILENAME" /\ state' = "WAIT_FILENAME" /\ nameLen = -1
        /\ nameLen' = Parsed(file.chars) /\ received >= IdLen
        /\ received' = received
    BY <1>1, <1>10 DEF ReadLength, FieldEnd
  <2>2. ~Admitting'
    BY <1>1, <2>1 DEF Admitting
  <2>3. HandlerOf' = "filename"
    BY <2>1, <2>2 DEF HandlerOf
  <2>4. HandlerOf \in {"task_id", "filename"}
    BY <2>1 DEF HandlerOf
  <2> QED BY <1>1, <1>4, <1>6, <2>1, <2>3, <2>4
<1>11. CASE ReadFilename
  <2>1. /\ state = "WAIT_FILENAME" /\ nameLen # -1 /\ state' = "WAIT_DATA"
    BY <1>11 DEF ReadFilename
  <2>2. HandlerOf = "filename" /\ HandlerOf' = "filename"
    BY <2>1 DEF HandlerOf, Admitting
  <2> QED BY <1>6, <2>2
<1>12. CASE HeaderFails
  <2>1. /\ InHeader /\ received < FieldEnd /\ state' = "failed"
        /\ \/ client = "closed" /\ received = written
           \/ client = "broken"
    BY <1>12 DEF HeaderFails
  <2>2. HandlerOf \in {"task_id", "filename"} /\ HandlerOf' = "gaveup"
    BY <2>1 DEF HandlerOf, Admitting, InHeader
  <2>3. ClientOf # "connected"
    BY <2>1 DEF ClientOf
  <2> QED BY <1>5, <2>2, <2>3
<1>13. CASE OpenFile
  <2>1. HandlerOf = "filename" /\ HandlerOf' \in {"receiving", "gaveup"}
    BY <1>13 DEF OpenFile, HandlerOf, Admitting
  <2>2. CASE HandlerOf' = "receiving"
    <3>1. Connection!Open(It)
      BY <1>3, <2>1, <2>2, HandlerMoves DEF Connection!Open
    <3> QED BY <3>1 DEF Connection!Next
  <2> QED BY <1>5, <2>1, <2>2
<1>14. CASE Copy
  <2>1. HandlerOf' = HandlerOf
    BY <1>14 DEF Copy, HandlerOf, Admitting
  <2> QED BY <1>6, <2>1
<1>15. CASE CopyFails
  <2>1. HandlerOf = "receiving" /\ HandlerOf' = "gaveup"
    BY <1>15 DEF CopyFails, HandlerOf, Admitting
  <2> QED BY <1>5, <2>1
<1>16. CASE CopyEnds
  <2>1. HandlerOf = "receiving" /\ HandlerOf' = "received"
    BY <1>16 DEF CopyEnds, HandlerOf, Admitting
  <2>2. client = "closed" /\ received = written /\ state = "RECEIVING"
    BY <1>16 DEF CopyEnds
  <2>3. written >= NameStart + Parsed(file.chars)
    BY <1>1, <2>2 DEF PositionInv, NameTaken, TypeOK
  <2>4. ClientOf = "eof"
    BY <1>1, <2>2, <2>3 DEF ClientOf
  <2>5. Connection!Finish(It)
    BY <1>3, <2>1, <2>4, HandlerMoves DEF Connection!Finish
  <2> QED BY <2>5 DEF Connection!Next
<1> QED
  BY <1>7, <1>8, <1>9, <1>10, <1>11, <1>12, <1>13, <1>14, <1>15, <1>16 DEF Serve

LEMMA InitConnection == Init => Connection!Init
<1> SUFFICES ASSUME Init PROVE Connection!Init
  OBVIOUS
<1>1. ClientOf = "connected" /\ HandlerOf = "task_id"
  BY WireAssumption DEF Init, ClientOf, HandlerOf, Admitting
<1> QED BY <1>1 DEF Connection!Init

\* For every length of the fields and every way to cut the stream the bytes
\* behave as a connection of Connections.
\* (_send_file, ReadTaskId, ReadFilename, ReadContent)
THEOREM WireIsConnection == Spec => ImplementsConnection
<1>1. IInv /\ IInv' /\ [Next]_vars => [Connection!Next]_(Connection!vars)
  <2> SUFFICES ASSUME IInv, IInv', [Next]_vars PROVE Connection!Next \/ Same
    BY DEF Same
  <2>1. CASE UNCHANGED vars
    <3>1. ClientOf' = ClientOf /\ HandlerOf' = HandlerOf
      BY <2>1 DEF vars, clientVars, serverVars, ClientOf, HandlerOf, Admitting,
                  NameStart, Parsed
    <3> QED BY <3>1, NothingMoves
  <2> QED BY <2>1, ClientStepMapped, ServeStepMapped DEF Next
<1>2. Spec => Connection!Init /\ [][Connection!Next]_(Connection!vars)
  BY <1>1, InitConnection, WireInvariant, PTL DEF Spec
<1> QED
  BY <1>2 DEF ImplementsConnection, Connection!Spec

=============================================================================
