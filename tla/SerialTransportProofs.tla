------------------------ MODULE SerialTransportProofs ------------------------
(***************************************************************************)
(* What SerialTransport promises for any registers and values, answers of  *)
(* any length, and a line that loses and delays whatever it likes.         *)
(***************************************************************************)
EXTENDS SerialTransport, SequenceTheorems, TLAPS

-----------------------------------------------------------------------------
(***************************************************************************)
(* Types.                                                                  *)
(***************************************************************************)

LEMMA CallTypes ==
  /\ \A c \in Calls : /\ c.op \in {"read", "write"}
                      /\ c.register \in Registers /\ c.value \in Values
                      /\ InRange(c) /\ c # NoCall
                      /\ c.op = "read" => c.register \in Feedback
  /\ \A c \in OutOfRangeCalls : ~InRange(c)
<1>1. \A c \in Calls : /\ c.op \in {"read", "write"}
                       /\ c.register \in Registers /\ c.value \in Values
                       /\ c.op = "read" => c.register \in Feedback
  BY ValuesAssumption DEF Calls, Call, Registers, Written
<1>2. \A c \in Calls : c # NoCall
  BY <1>1 DEF NoCall, Call
<1>3. \A c \in Calls : InRange(c)
  BY <1>1, ValuesAssumption DEF InRange
<1>4. \A c \in OutOfRangeCalls : ~InRange(c)
  BY DEF OutOfRangeCalls, Call, InRange
<1>5. QED
  BY <1>1, <1>2, <1>3, <1>4

LEMMA LengthType ==
  ASSUME NEW c
  PROVE  Length(c) \in Nat \ {0}
BY PiecesAssumption DEF Length, Shape

\* A frame is made of pieces of one answer.
LEMMA FrameType ==
  ASSUME NEW a \in Answers
  PROVE  /\ Frame(a) \in Seq(Pieces)
         /\ \A i \in DOMAIN Frame(a) : Frame(a)[i].of = a
<1>1. Length(a) \in Nat \ {0}
  BY LengthType
<1>2. \A i \in 1 .. Length(a) : [of |-> a, part |-> i] \in Pieces
  BY <1>1 DEF Pieces
<1>3. QED
  BY <1>1, <1>2 DEF Frame

\* What a hand served has the type of an answer.
LEMMA ServedType ==
  ASSUME TypeOK, NEW c \in Calls, NEW own \in BOOLEAN
  PROVE  LET v == IF c.op = "write" THEN c.value ELSE register[c.register] IN
         /\ v \in Values
         /\ [op |-> c.op, register |-> c.register, value |-> v, own |-> own]
              \in Answers
<1> DEFINE v == IF c.op = "write" THEN c.value ELSE register[c.register]
<1>1. v \in Values
  BY CallTypes DEF TypeOK
<1>2. QED
  BY <1>1, CallTypes DEF Answers

LEMMA OldRequests ==
  ASSUME NEW s \in Seq(Requests)
  PROVE  /\ NoLonger(s) \in Seq(Requests) /\ Len(NoLonger(s)) = Len(s)
         /\ \A i \in DOMAIN s : ~NoLonger(s)[i].own
<1>1. Len(s) \in Nat /\ DOMAIN s = 1 .. Len(s)
  OBVIOUS
<1>2. \A i \in DOMAIN s : /\ NoLonger(s)[i] \in Requests
                          /\ ~NoLonger(s)[i].own
  <2>1. TAKE i \in DOMAIN s
  <2>2. s[i] \in Requests /\ NoLonger(s)[i] = [s[i] EXCEPT !.own = FALSE]
    BY DEF NoLonger
  <2>3. QED
    BY <2>2 DEF Requests
<1>3. DOMAIN NoLonger(s) = DOMAIN s
  BY DEF NoLonger
<1>4. NoLonger(s) = [i \in 1 .. Len(s) |-> NoLonger(s)[i]]
  BY <1>1, <1>3 DEF NoLonger
<1>5. QED
  BY <1>1, <1>2, <1>4

LEMMA OldPieces ==
  ASSUME NEW s \in Seq(Pieces)
  PROVE  /\ NoLongerPieces(s) \in Seq(Pieces) /\ Len(NoLongerPieces(s)) = Len(s)
         /\ \A i \in DOMAIN s : ~NoLongerPieces(s)[i].of.own
<1>1. Len(s) \in Nat /\ DOMAIN s = 1 .. Len(s)
  OBVIOUS
<1>2. \A i \in DOMAIN s : /\ NoLongerPieces(s)[i] \in Pieces
                          /\ ~NoLongerPieces(s)[i].of.own
  <2>1. TAKE i \in DOMAIN s
  <2> DEFINE a == s[i].of
             b == [a EXCEPT !.own = FALSE]
  <2>2. s[i] \in Pieces /\ NoLongerPieces(s)[i] = [s[i] EXCEPT !.of = b]
    BY DEF NoLongerPieces
  <2>3. a \in Answers
    BY <2>2 DEF Pieces
  <2>4. b \in Answers /\ ~b.own
    BY <2>3 DEF Answers
  <2> HIDE DEF b
  <2>5. QED
    BY <2>2, <2>4 DEF Pieces
<1>3. NoLongerPieces(s) = [i \in 1 .. Len(s) |-> NoLongerPieces(s)[i]]
  BY <1>1 DEF NoLongerPieces
<1>4. QED
  BY <1>1, <1>2, <1>3
LEMMA EnterTypes ==
  ASSUME TypeOK, NEW c \in Calls \cup OutOfRangeCalls, Flush(c)
  PROVE  TypeOK'
<1>1. c \in Calls
  BY CallTypes DEF Flush, Enter
<1>2. requests' \in Seq(Requests) /\ line' \in Seq(Pieces) /\ input' \in Seq(Pieces)
  BY OldRequests, OldPieces DEF TypeOK, Flush, Enter
<1>3. behind' \in BOOLEAN
  BY DEF Flush, Enter
<1>4. QED
  BY <1>1, <1>2, <1>3 DEF TypeOK, Flush, Enter

LEMMA ReturnTypes ==
  ASSUME TypeOK, NEW a \in Values \cup {None, Failed}, NEW f \in Answers \cup {NoAnswer},
         Return(a, f), UNCHANGED requests, UNCHANGED line, input' \in Seq(Pieces)
  PROVE  TypeOK'
BY DEF TypeOK, Return

\* The pieces that Receive takes, and those it leaves.
LEMMA ReceiveTypes ==
  ASSUME TypeOK, Receive
  PROVE  /\ input' \in Seq(Pieces)
         /\ \A i \in DOMAIN input' : \E j \in DOMAIN input : input'[i] = input[j]
         /\ 1 \in DOMAIN input
         /\ SubSeq(input, 1, Length(call))[1] = input[1]
         /\ input[1].of \in Answers
<1> DEFINE n == Length(call)
<1>1. n \in Nat \ {0}
  BY LengthType
<1>2. /\ input \in Seq(Pieces) /\ Len(input) \in Nat /\ Len(input) >= n
      /\ input' = SubSeq(input, n + 1, Len(input))
      /\ DOMAIN input = 1 .. Len(input)
  BY DEF TypeOK, Receive
<1> HIDE DEF n
<1>3. 1 \in DOMAIN input /\ input[1] \in Pieces
  BY <1>1, <1>2
<1>4. /\ input' \in Seq(Pieces) /\ Len(input') = Len(input) - n
      /\ \A i \in 1 .. Len(input) - n : input'[i] = input[i + n]
  <2>1. \A i \in n + 1 .. Len(input) : input[i] \in Pieces
    BY <1>1, <1>2
  <2> DEFINE rest == SubSeq(input, n + 1, Len(input))
  <2>2. /\ rest \in Seq(Pieces) /\ Len(rest) = Len(input) - n
        /\ \A i \in 1 .. Len(input) - n : rest[i] = input[i + n]
    <3>1. n + 1 \in Int /\ Len(input) \in Int
      BY <1>1, <1>2
    <3>2. /\ rest \in Seq(Pieces)
          /\ Len(rest) = IF n + 1 <= Len(input) THEN Len(input) - (n + 1) + 1 ELSE 0
          /\ \A i \in 1 .. Len(input) - (n + 1) + 1 : rest[i] = input[n + 1 + i - 1]
      BY <2>1, <3>1, SubSeqProperties
    <3> HIDE DEF rest
    <3> DEFINE len == Len(input)
    <3>0. n \in Nat /\ len \in Nat /\ len >= n
      BY <1>1, <1>2
    <3>3. len - (n + 1) + 1 = len - n
      <4> HIDE DEF len
      <4>1. QED
        BY <3>0
    <3>4. Len(rest) = len - n
      <4>1. Len(rest) = IF n + 1 <= len THEN len - (n + 1) + 1 ELSE 0
        BY <3>2
      <4> HIDE DEF len
      <4>2. QED
        BY <3>0, <4>1
    <3>5. ASSUME NEW i \in 1 .. Len(input) - n PROVE rest[i] = input[i + n]
      <4>1. n + 1 + i - 1 = i + n
        BY <1>1, <3>1
      <4>2. QED
        BY <3>2, <3>3, <4>1
    <3>6. QED
      BY <3>2, <3>4, <3>5
  <2> HIDE DEF rest
  <2>3. QED
    BY <1>2, <2>2 DEF rest
<1>5. ASSUME NEW i \in DOMAIN input'
      PROVE  \E j \in DOMAIN input : input'[i] = input[j]
  <2>1. i \in 1 .. Len(input) - n
    BY <1>1, <1>4
  <2>2. input'[i] = input[i + n]
    BY <1>4, <2>1
  <2>3. i + n \in DOMAIN input
    BY <1>1, <1>2, <2>1
  <2>4. QED
    BY <2>2, <2>3
<1>6. SubSeq(input, 1, n)[1] = input[1]
  BY <1>1, <1>2
<1>7. QED
  BY <1>3, <1>4, <1>5, <1>6 DEF n, Pieces

\* The pieces on the line after the hand has answered its first request.
LEMMA ServeTypes ==
  ASSUME TypeOK, Serve
  PROVE  LET q == requests[1]
             v == IF q.call.op = "write" THEN q.call.value
                  ELSE register[q.call.register]
             a == [op |-> q.call.op, register |-> q.call.register,
                   value |-> v, own |-> q.own]
         IN
         /\ 1 \in DOMAIN requests /\ q \in Requests /\ v \in Values /\ a \in Answers
         /\ requests' \in Seq(Requests) /\ line' \in Seq(Pieces)
         /\ register' \in [Registers -> Values]
         /\ served' = IF q.own THEN v ELSE served
         /\ register' = IF q.call.op = "write"
                        THEN [register EXCEPT ![q.call.register] = v] ELSE register
         /\ \A i \in DOMAIN requests' :
              i + 1 \in DOMAIN requests /\ i + 1 # 1 /\ requests'[i] = requests[i + 1]
         /\ \A i \in DOMAIN line' : line'[i].of = a \/ \E j \in DOMAIN line : line'[i] = line[j]
<1> DEFINE q == requests[1]
           v == IF q.call.op = "write" THEN q.call.value
                ELSE register[q.call.register]
           a == [op |-> q.call.op, register |-> q.call.register,
                 value |-> v, own |-> q.own]
<1>1. /\ requests \in Seq(Requests) /\ requests # <<>>
      /\ 1 \in DOMAIN requests /\ Head(requests) = q /\ q \in Requests
      /\ DOMAIN requests = 1 .. Len(requests) /\ Len(requests) \in Nat \ {0}
  BY DEF TypeOK, Serve
<1>2. v \in Values /\ a \in Answers
  <2>1. q.call \in Calls /\ q.own \in BOOLEAN
    BY <1>1 DEF Requests
  <2>2. QED
    BY <2>1, ServedType
<1>3. /\ requests' = Tail(requests) /\ line' = line \o Frame(a)
      /\ served' = IF q.own THEN v ELSE served
      /\ register' = IF q.call.op = "write"
                     THEN [register EXCEPT ![q.call.register] = v] ELSE register
  BY <1>1 DEF Serve
<1> HIDE DEF q, v, a
<1>4. /\ requests' \in Seq(Requests)
      /\ \A i \in DOMAIN requests' :
           i + 1 \in DOMAIN requests /\ i + 1 # 1 /\ requests'[i] = requests[i + 1]
  BY <1>1, <1>3
<1>5. /\ Frame(a) \in Seq(Pieces) /\ \A i \in DOMAIN Frame(a) : Frame(a)[i].of = a
      /\ line \in Seq(Pieces)
  BY <1>2, FrameType DEF TypeOK
<1>6. /\ line' \in Seq(Pieces)
      /\ \A i \in DOMAIN line' : line'[i].of = a \/ \E j \in DOMAIN line : line'[i] = line[j]
  <2> DEFINE fr == Frame(a)
  <2>1. /\ line' = line \o fr /\ fr \in Seq(Pieces) /\ line \in Seq(Pieces)
        /\ \A i \in DOMAIN fr : fr[i].of = a
    BY <1>3, <1>5
  <2> HIDE DEF fr
  <2>2. /\ line' \in Seq(Pieces) /\ Len(line') = Len(line) + Len(fr)
        /\ Len(line) \in Nat /\ Len(fr) \in Nat
        /\ \A i \in 1 .. Len(line') :
             line'[i] = IF i <= Len(line) THEN line[i] ELSE fr[i - Len(line)]
    BY <2>1
  <2>3. ASSUME NEW i \in DOMAIN line'
        PROVE  line'[i].of = a \/ \E j \in DOMAIN line : line'[i] = line[j]
    <3>1. CASE i <= Len(line)
      <4>1. i \in DOMAIN line /\ line'[i] = line[i]
        BY <2>1, <2>2, <3>1
      <4>2. QED
        BY <4>1
    <3>2. CASE ~(i <= Len(line))
      BY <2>1, <2>2, <3>2
    <3>3. QED
      BY <3>1, <3>2
  <2>4. QED
    BY <2>2, <2>3
<1>7. register' \in [Registers -> Values]
  BY <1>2, <1>3 DEF TypeOK
<1>8. QED
  BY <1>1, <1>2, <1>3, <1>4, <1>6, <1>7 DEF q, v, a

\* The first element of a sequence that leaves it.
LEMMA TailTypes ==
  ASSUME NEW S, NEW s \in Seq(S), s # <<>>
  PROVE  /\ Tail(s) \in Seq(S) /\ Head(s) = s[1] /\ s[1] \in S /\ 1 \in DOMAIN s
         /\ \A i \in DOMAIN Tail(s) :
              i + 1 \in DOMAIN s /\ i + 1 # 1 /\ Tail(s)[i] = s[i + 1]
<1>1. /\ Tail(s) \in Seq(S) /\ Len(Tail(s)) = Len(s) - 1 /\ Len(s) \in Nat
      /\ \A i \in 1 .. Len(Tail(s)) : Tail(s)[i] = s[i + 1]
  BY HeadTailProperties
<1>2. Head(s) = s[1] /\ s[1] \in S /\ 1 \in DOMAIN s
  OBVIOUS
<1>3. DOMAIN Tail(s) = 1 .. Len(Tail(s)) /\ DOMAIN s = 1 .. Len(s)
  BY <1>1
<1>4. QED
  BY <1>1, <1>2, <1>3

\* Every variable keeps its type, and a call that is begun is one.
TypeInv == TypeOK /\ (phase # "idle" => call \in Calls)

LEMMA TypeStep ==
  ASSUME TypeInv, Next \/ UNCHANGED vars
  PROVE  TypeInv'
<1> USE DEF lineVars, historyVars
<1>1. ASSUME NEW c \in Calls \cup OutOfRangeCalls, Flush(c) \/ Refuse(c)
      PROVE  TypeInv'
  <2>1. CASE Flush(c)
    BY <2>1, EnterTypes, CallTypes DEF TypeInv, Flush, Enter
  <2>2. CASE Refuse(c)
    BY <2>2 DEF Refuse, TypeInv, TypeOK
  <2>3. QED
    BY <1>1, <2>1, <2>2
<1>2. CASE Send
  <2>1. CASE Return(Failed, NoAnswer) /\ UNCHANGED lineVars
    <3>1. Return(Failed, NoAnswer) /\ UNCHANGED requests /\ UNCHANGED line
          /\ input' \in Seq(Pieces)
      BY <2>1 DEF TypeInv, TypeOK
    <3>2. TypeOK'
      BY <3>1, ReturnTypes DEF TypeInv
    <3>3. QED
      BY <3>1, <3>2 DEF TypeInv, Return
  <2>2. CASE /\ phase = "send" /\ phase' = "receive"
             /\ requests' = Append(requests, [call |-> call, own |-> TRUE])
             /\ UNCHANGED <<line, input, call, register, answer, historyVars>>
    <3>1. [call |-> call, own |-> TRUE] \in Requests /\ requests \in Seq(Requests)
      BY <2>2 DEF TypeInv, TypeOK, Requests
    <3>2. requests' \in Seq(Requests)
      BY <2>2, <3>1, AppendProperties
    <3>3. QED
      BY <2>2, <3>2 DEF TypeInv, TypeOK
  <2>3. QED
    BY <1>2, <2>1, <2>2 DEF Send
<1>3. CASE Receive
  <2>1. input' \in Seq(Pieces) /\ input[1].of \in Answers
        /\ SubSeq(input, 1, Length(call))[1] = input[1]
    BY <1>3, ReceiveTypes DEF TypeInv
  <2>2. \/ Return(input[1].of.value, input[1].of)
        \/ Return(Failed, NoAnswer)
    BY <1>3, <2>1 DEF Receive
  <2>3. UNCHANGED requests /\ UNCHANGED line /\ input[1].of.value \in Values
    BY <1>3, <2>1 DEF Receive, Answers
  <2>4. TypeOK'
    BY <2>1, <2>2, <2>3, ReturnTypes DEF TypeInv
  <2>5. QED
    BY <2>2, <2>4 DEF TypeInv, Return
<1>4. CASE Timeout
  <2>1. /\ UNCHANGED requests /\ UNCHANGED line /\ input' = <<>>
        /\ Return(Failed, NoAnswer)
    BY <1>4 DEF Timeout
  <2>2. input' \in Seq(Pieces)
    BY <2>1
  <2>3. QED
    BY <2>1, <2>2, ReturnTypes DEF TypeInv, Return
<1>5. CASE Serve
  <2>1. /\ requests' \in Seq(Requests) /\ line' \in Seq(Pieces)
        /\ register' \in [Registers -> Values] /\ served' \in Values \cup {None}
    BY <1>5, ServeTypes DEF TypeInv, TypeOK
  <2>2. QED
    BY <1>5, <2>1 DEF Serve, TypeInv, TypeOK
<1>6. CASE Deliver
  <2>1. line \in Seq(Pieces) /\ input \in Seq(Pieces) /\ line # <<>>
    BY <1>6 DEF Deliver, TypeInv, TypeOK
  <2>2. Tail(line) \in Seq(Pieces) /\ Append(input, Head(line)) \in Seq(Pieces)
    BY <2>1, TailTypes, AppendProperties
  <2>3. QED
    BY <1>6, <2>2 DEF Deliver, TypeInv, TypeOK
<1>7. CASE LoseRequest
  <2>1. Tail(requests) \in Seq(Requests)
    BY <1>7, TailTypes DEF LoseRequest, TypeInv, TypeOK
  <2>2. QED
    BY <1>7, <2>1 DEF LoseRequest, TypeInv, TypeOK
<1>8. CASE LosePiece
  <2>1. Tail(line) \in Seq(Pieces)
    BY <1>8, TailTypes DEF LosePiece, TypeInv, TypeOK
  <2>2. QED
    BY <1>8, <2>1 DEF LosePiece, TypeInv, TypeOK
<1>9. CASE Move
  BY <1>9 DEF Move, TypeInv, TypeOK
<1>10. CASE UNCHANGED vars
  BY <1>10 DEF vars, TypeInv, TypeOK
<1>11. QED
  BY <1>1, <1>2, <1>3, <1>4, <1>5, <1>6, <1>7, <1>8, <1>9, <1>10 DEF Next

LEMMA TypeInit == Init => TypeInv
<1> SUFFICES ASSUME Init PROVE TypeInv
  OBVIOUS
<1>1. requests \in Seq(Requests) /\ line \in Seq(Pieces) /\ input \in Seq(Pieces)
  BY DEF Init
<1>2. behind \in BOOLEAN
  BY DEF Init
<1>3. QED
  BY <1>1, <1>2 DEF Init, TypeInv, TypeOK

\* TypeOK holds for any registers, values, lengths of answers and faults of the
\* line.
THEOREM TypeCorrect == Spec => []TypeOK
<1>1. TypeInv /\ [Next]_vars => TypeInv'
  BY TypeStep
<1>2. TypeInv => TypeOK
  BY DEF TypeInv
<1>3. QED
  BY TypeInit, <1>1, <1>2, PTL DEF Spec

-----------------------------------------------------------------------------
(***************************************************************************)
(* Whose answers are on the line.                                          *)
(***************************************************************************)

\* A request of the last call is alone, was not served and is not written
\* twice; any other is of a call whose answers the last one did not flush.
RequestFits(q, c, s, b) ==
  IF q.own THEN q.call = c /\ c \in Calls /\ s = None ELSE b
RequestInv ==
  /\ \A i \in DOMAIN requests : RequestFits(requests[i], call, served, behind)
  /\ \A i, j \in DOMAIN requests : requests[i].own /\ requests[j].own => i = j
  /\ phase = "send" =>
       served = None /\ \A i \in DOMAIN requests : ~requests[i].own

\* A piece of an answer to the last call carries what the hand found or wrote
\* for it.
PieceFits(p, s, b) == IF p.of.own THEN p.of.value = s ELSE b
PiecesFit(ps, s, b) == \A i \in DOMAIN ps : PieceFits(ps[i], s, b)

LineInv ==
  /\ TypeInv /\ RequestInv
  /\ PiecesFit(line, served, behind) /\ PiecesFit(input, served, behind)
  /\ AnswerIsOwn

LEMMA LineInit == Init => LineInv
BY TypeInit DEF Init, LineInv, RequestInv, PiecesFit, AnswerIsOwn

\* After the flush nothing on the line is of the call that begins.
LEMMA EnterLine ==
  ASSUME LineInv, NEW c \in Calls \cup OutOfRangeCalls, Flush(c)
  PROVE  LineInv'
<1>1. TypeInv'
  BY TypeStep DEF LineInv, Next
<1>2. /\ requests \in Seq(Requests) /\ line \in Seq(Pieces)
      /\ requests' = NoLonger(requests) /\ line' = NoLongerPieces(line)
      /\ input' = <<>> /\ phase' = "send" /\ served' = None
      /\ behind' = (requests # <<>> \/ line # <<>>)
      /\ accepted' = NoAnswer
  BY DEF LineInv, TypeInv, TypeOK, Flush, Enter
<1>3. /\ DOMAIN requests' = DOMAIN requests /\ DOMAIN line' = DOMAIN line
      /\ \A i \in DOMAIN requests : ~requests'[i].own
      /\ \A i \in DOMAIN line : ~line'[i].of.own
  BY <1>2, OldRequests, OldPieces DEF NoLonger, NoLongerPieces
<1>4. (requests # <<>> \/ line # <<>>) => behind'
  BY <1>2
<1>5. (DOMAIN requests # {} => requests # <<>>) /\ (DOMAIN line # {} => line # <<>>)
  BY <1>2
<1>6. RequestInv'
  BY <1>2, <1>3, <1>4, <1>5 DEF RequestInv, RequestFits
<1>7. PiecesFit(line, served, behind)' /\ PiecesFit(input, served, behind)'
  BY <1>2, <1>3, <1>4, <1>5 DEF PiecesFit, PieceFits
<1>8. QED
  BY <1>1, <1>2, <1>6, <1>7 DEF LineInv, AnswerIsOwn

LEMMA SendLine ==
  ASSUME LineInv, Send
  PROVE  LineInv'
<1>1. TypeInv'
  BY TypeStep DEF LineInv, Next
<1>2. CASE Return(Failed, NoAnswer) /\ UNCHANGED lineVars
  BY <1>1, <1>2 DEF LineInv, RequestInv, PiecesFit, AnswerIsOwn, Return, lineVars
<1>3. CASE /\ phase = "send" /\ phase' = "receive"
           /\ requests' = Append(requests, [call |-> call, own |-> TRUE])
           /\ UNCHANGED <<line, input, call, register, answer, historyVars>>
  <2> DEFINE q == [call |-> call, own |-> TRUE]
             n == Len(requests)
  <2>1. /\ call \in Calls /\ served = None /\ requests \in Seq(Requests)
        /\ q \in Requests /\ q.own /\ q.call = call
        /\ \A i \in DOMAIN requests : ~requests[i].own
    BY <1>3 DEF LineInv, RequestInv, TypeInv, TypeOK, Requests
  <2> HIDE DEF q
  <2>2. /\ n \in Nat /\ Len(requests') = n + 1 /\ requests' \in Seq(Requests)
        /\ \A i \in 1 .. n : requests'[i] = requests[i]
        /\ requests'[n + 1] = q
    BY <1>3, <2>1, AppendProperties DEF q
  <2>3. DOMAIN requests = 1 .. n /\ DOMAIN requests' = 1 .. n + 1
    BY <2>1, <2>2
  <2>4. UNCHANGED <<call, served, behind, line, input, accepted>>
    BY <1>3 DEF historyVars
  <2> HIDE DEF n
  <2>5. \A i \in DOMAIN requests' : i \in DOMAIN requests \/ i = n + 1
    BY <2>2, <2>3
  <2>6. RequestInv'
    BY <1>3, <2>1, <2>2, <2>3, <2>4, <2>5 DEF LineInv, RequestInv, RequestFits
  <2>7. QED
    BY <1>1, <2>4, <2>6 DEF LineInv, PiecesFit, AnswerIsOwn
<1>4. QED
  BY <1>2, <1>3 DEF Send

\* A response that is accepted names the register of the call.
LEMMA ReceiveLine ==
  ASSUME LineInv, Receive
  PROVE  LineInv'
<1> DEFINE got == SubSeq(input, 1, Length(call))
           a == input[1].of
<1>1. TypeInv'
  BY TypeStep DEF LineInv, Next
<1>2. /\ 1 \in DOMAIN input /\ got[1] = input[1] /\ a \in Answers
      /\ \A i \in DOMAIN input' : \E j \in DOMAIN input : input'[i] = input[j]
  BY ReceiveTypes DEF LineInv, TypeInv
<1>3. /\ phase' = "idle"
      /\ UNCHANGED <<call, served, behind, requests, line>>
      /\ \/ accepted' = NoAnswer
         \/ accepted' = a /\ a.register = call.register
  BY <1>2 DEF Receive, Return, IsResponse
<1>4. PieceFits(input[1], served, behind)
  BY <1>2 DEF LineInv, PiecesFit
<1>5. PiecesFit(input, served, behind)'
  BY <1>2, <1>3 DEF LineInv, PiecesFit
<1>6. PiecesFit(line, served, behind)' /\ RequestInv'
  BY <1>3 DEF LineInv, PiecesFit, RequestInv
<1>7. AnswerIsOwn'
  BY <1>3, <1>4 DEF AnswerIsOwn, PieceFits
<1>8. QED
  BY <1>1, <1>5, <1>6, <1>7 DEF LineInv

\* The request of the last call is served once, before any answer to it.
LEMMA ServeLine ==
  ASSUME LineInv, Serve
  PROVE  LineInv'
<1> DEFINE q == requests[1]
           v == IF q.call.op = "write" THEN q.call.value
                ELSE register[q.call.register]
           a == [op |-> q.call.op, register |-> q.call.register,
                 value |-> v, own |-> q.own]
<1>1. TypeInv'
  BY TypeStep DEF LineInv, Next
<1>2. /\ 1 \in DOMAIN requests /\ q \in Requests /\ v \in Values
      /\ served' = IF q.own THEN v ELSE served
      /\ \A i \in DOMAIN requests' :
           i + 1 \in DOMAIN requests /\ i + 1 # 1 /\ requests'[i] = requests[i + 1]
      /\ \A i \in DOMAIN line' : line'[i].of = a \/ \E j \in DOMAIN line : line'[i] = line[j]
  BY ServeTypes DEF LineInv, TypeInv
<1>3. a.own = q.own /\ a.value = v
  OBVIOUS
<1> HIDE DEF v, a, q
<1>4. UNCHANGED <<phase, call, input, answer, accepted, behind>>
  BY DEF Serve
<1>5. \A i, j \in DOMAIN requests' : i + 1 = j + 1 => i = j
  <2>1. requests' \in Seq(Requests)
    BY <1>1 DEF TypeInv, TypeOK
  <2>2. QED
    BY <2>1
<1>6. CASE q.own
  <2>1. /\ served = None /\ served' = v /\ phase # "send"
        /\ \A i \in DOMAIN requests' : ~requests'[i].own
    BY <1>2, <1>6 DEF LineInv, RequestInv, RequestFits, q
  <2>2. served \notin Values
    BY <2>1, ValuesAssumption DEF None
  <2>3. ASSUME NEW ps \in Seq(Pieces), PiecesFit(ps, served, behind), NEW i \in DOMAIN ps
        PROVE  ~ps[i].of.own /\ behind
    <3>1. ps[i] \in Pieces
      BY <2>3
    <3>2. ps[i].of.value \in Values
      BY <3>1 DEF Pieces, Answers
    <3>3. QED
      BY <2>2, <2>3, <3>2 DEF PiecesFit, PieceFits
  <2>4. /\ \A i \in DOMAIN line : ~line[i].of.own /\ behind
        /\ \A i \in DOMAIN input : ~input[i].of.own /\ behind
    BY <2>3 DEF LineInv, TypeInv, TypeOK
  <2>5. PiecesFit(input, served, behind)'
    BY <1>4, <2>4 DEF PiecesFit, PieceFits
  <2>6. PiecesFit(line, served, behind)'
    BY <1>2, <1>3, <1>4, <1>6, <2>1, <2>4 DEF PiecesFit, PieceFits
  <2>7. RequestInv'
    <3>1. \A i \in DOMAIN requests' : behind
      BY <1>2, <2>1 DEF LineInv, RequestInv, RequestFits
    <3>2. QED
      BY <1>4, <2>1, <3>1 DEF RequestInv, RequestFits
  <2>8. QED
    BY <1>1, <1>4, <2>5, <2>6, <2>7 DEF LineInv, AnswerIsOwn
<1>7. CASE ~q.own
  <2>1. served' = served /\ behind
    BY <1>2, <1>7 DEF LineInv, RequestInv, RequestFits, q
  <2>2. PiecesFit(line, served, behind)'
    BY <1>2, <1>3, <1>4, <1>7, <2>1 DEF LineInv, PiecesFit, PieceFits
  <2>3. RequestInv'
    BY <1>2, <1>4, <1>5, <2>1 DEF LineInv, RequestInv, RequestFits
  <2>4. QED
    BY <1>1, <1>4, <2>1, <2>2, <2>3 DEF LineInv, PiecesFit, AnswerIsOwn
<1>8. QED
  BY <1>6, <1>7

\* What moves along the line or leaves it fits as it did.
LEMMA MoveLine ==
  ASSUME LineInv, Timeout \/ Deliver \/ LoseRequest \/ LosePiece
  PROVE  LineInv'
<1>1. TypeInv'
  BY TypeStep DEF LineInv, Next
<1>2. /\ UNCHANGED <<call, served, behind>>
      /\ phase' # "send" \/ phase' = phase
      /\ accepted' = accepted \/ accepted' = NoAnswer
  BY DEF Timeout, Return, Deliver, LoseRequest, LosePiece, historyVars
<1>0. requests \in Seq(Requests) /\ line \in Seq(Pieces) /\ input \in Seq(Pieces)
  BY DEF LineInv, TypeInv, TypeOK
<1>3. \/ requests' = requests
      \/ requests # <<>> /\ requests' = Tail(requests)
  BY DEF Timeout, Return, Deliver, LoseRequest, LosePiece
<1>4. \/ line' = line
      \/ line # <<>> /\ line' = Tail(line)
  BY DEF Timeout, Return, Deliver, LoseRequest, LosePiece
<1>5. \/ input' = input \/ input' = <<>>
      \/ line # <<>> /\ input' = Append(input, Head(line))
  BY DEF Timeout, Return, Deliver, LoseRequest, LosePiece
<1>6. \A i \in DOMAIN line' : \E j \in DOMAIN line : line'[i] = line[j]
  <2>1. CASE line # <<>> /\ line' = Tail(line)
    <3>1. \A i \in DOMAIN line' : i + 1 \in DOMAIN line /\ line'[i] = line[i + 1]
      BY <1>0, <2>1, TailTypes
    <3>2. QED
      BY <3>1
  <2>2. QED
    BY <1>4, <2>1
<1>7. \A i \in DOMAIN input' : \/ \E j \in DOMAIN input : input'[i] = input[j]
                               \/ \E j \in DOMAIN line : input'[i] = line[j]
  <2>1. CASE line # <<>> /\ input' = Append(input, Head(line))
    <3>1. Head(line) = line[1] /\ line[1] \in Pieces /\ 1 \in DOMAIN line
      BY <1>0, <2>1, TailTypes
    <3>2. /\ Len(input') = Len(input) + 1 /\ Len(input) \in Nat
          /\ \A i \in 1 .. Len(input) : input'[i] = input[i]
          /\ input'[Len(input) + 1] = line[1]
      BY <1>0, <2>1, <3>1, AppendProperties
    <3>3. DOMAIN input = 1 .. Len(input) /\ DOMAIN input' = 1 .. Len(input')
      BY <1>0, <1>1 DEF TypeInv, TypeOK
    <3>4. \A i \in DOMAIN input' : i \in DOMAIN input \/ i = Len(input) + 1
      BY <3>2, <3>3
    <3>5. QED
      BY <3>1, <3>2, <3>3, <3>4
  <2>2. QED
    BY <1>5, <2>1
<1>8. PiecesFit(line, served, behind)' /\ PiecesFit(input, served, behind)'
  BY <1>2, <1>6, <1>7 DEF LineInv, PiecesFit
<1>9. RequestInv'
  <2>1. CASE requests' = requests
    BY <1>2, <2>1 DEF LineInv, RequestInv
  <2>2. CASE requests # <<>> /\ requests' = Tail(requests)
    <3>1. \A i \in DOMAIN requests' :
            i + 1 \in DOMAIN requests /\ requests'[i] = requests[i + 1]
      BY <1>0, <2>2, TailTypes
    <3>2. \A i, j \in DOMAIN requests' : i + 1 = j + 1 => i = j
      BY <1>1 DEF TypeInv, TypeOK
    <3>3. QED
      BY <1>2, <3>1, <3>2 DEF LineInv, RequestInv
  <2>3. QED
    BY <1>3, <2>1, <2>2
<1>10. QED
  BY <1>1, <1>2, <1>8, <1>9 DEF LineInv, AnswerIsOwn

LEMMA LineStep ==
  ASSUME LineInv, Next \/ UNCHANGED vars
  PROVE  LineInv'
<1>1. TypeInv'
  BY TypeStep DEF LineInv
<1>2. ASSUME NEW c \in Calls \cup OutOfRangeCalls, Refuse(c)
      PROVE  LineInv'
  BY <1>1, <1>2 DEF LineInv, Refuse, lineVars, RequestInv, PiecesFit, AnswerIsOwn
<1>3. CASE Move \/ UNCHANGED vars
  BY <1>1, <1>3
     DEF LineInv, Move, vars, lineVars, historyVars, RequestInv, PiecesFit, AnswerIsOwn
<1>4. QED
  BY <1>2, <1>3, EnterLine, SendLine, ReceiveLine, ServeLine, MoveLine DEF Next

\* AnswerIsOwn holds whatever the line loses, and however late an answer comes
\* (transport.hpp:131-148).
THEOREM AnswersAreOwn == Spec => []AnswerIsOwn
<1>1. LineInv /\ [Next]_vars => LineInv'
  BY LineStep
<1>2. LineInv => AnswerIsOwn
  BY DEF LineInv
<1>3. QED
  BY LineInit, <1>1, <1>2, PTL DEF Spec

-----------------------------------------------------------------------------
(***************************************************************************)
(* What a HandController relies on.                                        *)
(***************************************************************************)

LEMMA LineRefinesInit == Init => Line!Init
BY DEF Init, Line!Init

\* A request is carried out for the last call, once, or for an earlier one that
\* the flush left behind.
LEMMA ServeRefines ==
  ASSUME LineInv, Serve
  PROVE  Line!Next \/ UNCHANGED Line!vars
<1> DEFINE q == requests[1]
           v == IF q.call.op = "write" THEN q.call.value
                ELSE register[q.call.register]
<1>1. /\ 1 \in DOMAIN requests /\ q \in Requests /\ v \in Values
      /\ served' = IF q.own THEN v ELSE served
      /\ register' = IF q.call.op = "write"
                     THEN [register EXCEPT ![q.call.register] = v] ELSE register
  BY ServeTypes DEF LineInv, TypeInv
<1>2. /\ q.call.op \in {"read", "write"} /\ q.call.register \in Registers
      /\ q.call # NoCall
  BY <1>1, CallTypes DEF Requests
<1>3. RequestFits(q, call, served, behind)
  BY <1>1 DEF LineInv, RequestInv
<1>4. UNCHANGED <<call, phase, behind, answer>>
  BY DEF Serve
<1> HIDE DEF q
<1>5. CASE q.own
  <2>1. q.call = call /\ served = None /\ served' = v
    BY <1>1, <1>3, <1>5 DEF RequestFits
  <2>2. Line!Reach
    BY <1>1, <1>2, <1>4, <2>1 DEF Line!Reach
  <2>3. QED
    BY <2>2 DEF Line!Next
<1>6. CASE ~q.own /\ q.call.op = "write"
  <2>1. behind /\ served' = served
    BY <1>1, <1>3, <1>6 DEF RequestFits
  <2>2. Line!ReachLate
    BY <1>1, <1>2, <1>4, <1>6, <2>1 DEF Line!ReachLate
  <2>3. QED
    BY <2>2 DEF Line!Next
<1>7. CASE ~q.own /\ q.call.op # "write"
  BY <1>1, <1>4, <1>7 DEF Line!vars
<1>8. QED
  BY <1>5, <1>6, <1>7

\* An answer that is accepted is what the hand found or wrote for the call.
LEMMA ReceiveRefines ==
  ASSUME LineInv, Receive
  PROVE  Line!Next
<1> DEFINE a == input[1].of
<1>1. /\ 1 \in DOMAIN input /\ a \in Answers
      /\ SubSeq(input, 1, Length(call))[1] = input[1]
  BY ReceiveTypes DEF LineInv, TypeInv
<1>2. /\ phase = "receive" /\ phase' = "idle"
      /\ UNCHANGED <<register, call, served, behind>>
      /\ answer' = Failed \/ answer' = a.value
  BY <1>1 DEF Receive, Return
<1>3. CASE answer' = Failed
  BY <1>2, <1>3 DEF Line!Fail, Line!Return, Line!Next
<1>4. CASE answer' = a.value
  <2>1. PieceFits(input[1], served, behind) /\ a.value \in Values
    BY <1>1 DEF LineInv, PiecesFit, Answers
  <2>2. Line!Return(a.value)
    BY <1>2, <1>4 DEF Line!Return
  <2>3. a.value # None
    BY <2>1, ValuesAssumption DEF None
  <2> HIDE DEF a
  <2>4. CASE a.own
    BY <2>1, <2>2, <2>3, <2>4 DEF PieceFits, Line!Succeed, Line!Next, a
  <2>5. CASE ~a.own
    BY <2>1, <2>2, <2>5 DEF PieceFits, Line!Succeed, Line!Next, a
  <2>6. QED
    BY <2>4, <2>5
<1>5. QED
  BY <1>2, <1>3, <1>4

LEMMA LineRefinesStep ==
  ASSUME LineInv, Next \/ UNCHANGED vars
  PROVE  Line!Next \/ UNCHANGED Line!vars
<1>1. ASSUME NEW c \in Calls \cup OutOfRangeCalls, Flush(c)
      PROVE  Line!Next
  <2>1. c \in Calls /\ behind' \in BOOLEAN
    BY <1>1, CallTypes DEF Flush, Enter
  <2>2. Line!Ask(c)
    BY <1>1, <2>1 DEF Flush, Enter, Line!Ask
  <2>3. QED
    BY <2>1, <2>2 DEF Line!Next
<1>2. ASSUME NEW c \in Calls \cup OutOfRangeCalls, Refuse(c)
      PROVE  Line!Next
  BY <1>2 DEF Refuse, Line!Refuse, Line!Next
<1>3. CASE Send
  <2>1. CASE Return(Failed, NoAnswer)
    BY <1>3, <2>1 DEF Send, Return, Line!Fail, Line!Return, Line!Next
  <2>2. CASE /\ phase' = "receive"
             /\ UNCHANGED <<line, input, call, register, answer, historyVars>>
    BY <1>3, <2>2 DEF Send, historyVars, Line!vars
  <2>3. QED
    BY <1>3, <2>1, <2>2 DEF Send
<1>4. CASE Timeout
  BY <1>4 DEF Timeout, Return, Line!Fail, Line!Return, Line!Next
<1>5. CASE Deliver \/ LoseRequest \/ LosePiece \/ UNCHANGED vars
  BY <1>5 DEF Deliver, LoseRequest, LosePiece, vars, historyVars, Line!vars
<1>6. CASE Move
  BY <1>6 DEF Move, historyVars, Line!Move, Line!Next
<1>7. QED
  BY <1>1, <1>2, <1>3, <1>4, <1>5, <1>6, ServeRefines, ReceiveRefines DEF Next

\* SerialTransport is the Transport that a HandController expects: a read that
\* succeeds returns what the register held during the call, a write that
\* succeeds has taken place (transport.hpp:21-33).
THEOREM ImplementsLine == Spec => LineSpec
<1>1. LineInv /\ [Next]_vars => [Line!Next]_(Line!vars)
  BY LineRefinesStep
<1>2. LineInv /\ [Next]_vars => LineInv'
  BY LineStep
<1>3. QED
  BY LineInit, LineRefinesInit, <1>1, <1>2, PTL DEF Spec, LineSpec, Line!Spec
=============================================================================
