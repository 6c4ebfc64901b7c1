--------------------------- MODULE SerialTransport ---------------------------
(***************************************************************************)
(* SerialTransport of src/src/rh56/transport.hpp and the frames of         *)
(* protocol.hpp: one request at a time to a hand that answers through a    *)
(* serial line, in pieces, late, or not at all.  The caller holds the      *)
(* mutex of its HandController.                                            *)
(*                                                                         *)
(* A frame is told apart by what the code tests: its operation, its        *)
(* register, its length and a checksum, of which it is assumed that it     *)
(* betrays a frame put together from two answers.  One value stands for    *)
(* the six of a frame.                                                     *)
(***************************************************************************)
EXTENDS Integers, Sequences

CONSTANTS
  Words, Bytes,  \* the registers ReadWords and ReadBytes are called with
  Limits,        \* those WriteWords is
  Values,        \* values of the registers, decoded
  OutOfRange,    \* a value above the maximum of WriteWords
  PieceCount,    \* length of an answer to a "write", a "bytes" and a "words" read
  Faults,        \* "lost": a request or a piece of an answer gets lost;
                 \* "late": an answer may come after the call has given up;
                 \* "overdue": ... or after the next call has begun;
                 \* "send": the request cannot be written
  MaxBehind      \* bound: answers on their way when a call begins

ASSUME ValuesAssumption ==
  /\ Values \subseteq Nat /\ {0, 1} \subseteq Values
  /\ OutOfRange \in Nat \ Values
ASSUME PiecesAssumption ==
  PieceCount \in [{"write", "bytes", "words"} -> Nat \ {0}]
ASSUME FaultsAssumption == Faults \subseteq {"lost", "late", "overdue", "send"}
ASSUME RegistersAssumption ==
  /\ Words \cap Bytes = {}
  /\ (Words \cup Bytes) \cap (Limits \cup {"POS_SET", "CLEAR_ERROR"}) = {}
  /\ "POS_ACT" \in Words /\ "POS_SET" \notin Limits

Feedback == Words \cup Bytes
Written == Limits \cup {"POS_SET", "CLEAR_ERROR"}
Registers == Feedback \cup Written

\* ReadPosition is a read of the words at POS_ACT.
Call(op, r, v) == [op |-> op, register |-> r, value |-> v]
Calls ==
  {Call("read", r, 0) : r \in Feedback}
    \cup {Call("write", r, v) : r \in Limits, v \in Values}
    \cup {Call("write", "POS_SET", v) : v \in Values}
    \cup {Call("write", "CLEAR_ERROR", 1)}
OutOfRangeCalls == {Call("write", r, OutOfRange) : r \in Limits}
NoCall == Call("none", "none", 0)

None == -1    \* no value
Failed == -2  \* the call returned false

VARIABLES
  phase,     \* where Exchange is: "idle", "send", "receive"
  call,      \* the last call
  requests,  \* on their way to the hand
  line,      \* pieces of answers on their way from the hand
  input,     \* pieces in the input buffer of the serial device
  register,  \* the hand's registers
  answer,    \* what the call returned
  accepted,  \* history: the answer that it accepted
  served,    \* history: what the hand found or wrote for the call
  behind     \* history: answers to earlier calls were on their way at its flush

lineVars == <<requests, line, input>>
historyVars == <<accepted, served, behind>>
vars == <<phase, call, lineVars, register, answer, historyVars>>

\* own: the answer is to the last call, and not to an earlier one.
Requests == [call : Calls, own : BOOLEAN]
Answers == [op : {"read", "write"}, register : Registers, value : Values,
            own : BOOLEAN]
NoAnswer == [op |-> "none", register |-> "none", value |-> None, own |-> FALSE]
Pieces == [of : Answers, part : Nat \ {0}]

\* Every variable keeps its type.
TypeOK ==
  /\ phase \in {"idle", "send", "receive"}
  /\ call \in Calls \cup {NoCall}
  /\ requests \in Seq(Requests)
  /\ line \in Seq(Pieces) /\ input \in Seq(Pieces)
  /\ register \in [Registers -> Values]
  /\ answer \in Values \cup {None, Failed}
  /\ accepted \in Answers \cup {NoAnswer}
  /\ served \in Values \cup {None}
  /\ behind \in BOOLEAN

Init ==
  /\ phase = "idle" /\ call = NoCall
  /\ requests = <<>> /\ line = <<>> /\ input = <<>>
  /\ register \in [Registers -> Values]
  /\ answer = None /\ accepted = NoAnswer /\ served = None /\ behind = FALSE

-----------------------------------------------------------------------------
(***************************************************************************)
(* Frames.                                                                 *)
(***************************************************************************)

Shape(op, r) == IF op = "write" THEN "write"
                ELSE IF r \in Bytes THEN "bytes" ELSE "words"
Length(c) == PieceCount[Shape(c.op, c.register)]
Frame(a) == [i \in 1 .. Length(a) |-> [of |-> a, part |-> i]]

\* ValidReadResponse, ParsePosition and WriteAndAcknowledge on a full buffer.
IsResponseAnyRegister(c, got) ==
  /\ got = Frame(got[1].of)
  /\ got[1].of.op = c.op
IsResponse(c, got) ==
  /\ got = Frame(got[1].of)
  /\ got[1].of.op = c.op /\ got[1].of.register = c.register

-----------------------------------------------------------------------------
(***************************************************************************)
(* Exchange.                                                               *)
(***************************************************************************)

NoLonger(s) == [i \in DOMAIN s |-> [s[i] EXCEPT !.own = FALSE]]
NoLongerPieces(s) == [i \in DOMAIN s |-> [s[i] EXCEPT !.of.own = FALSE]]

\* WriteWords tests its values before it writes any; a position is clamped.
InRangeUntested(c) == TRUE
InRange(c) == c.value # OutOfRange

\* A call begins.
Enter(c) ==
  /\ phase = "idle" /\ phase' = "send"
  /\ InRange(c)
  /\ call' = c
  /\ "overdue" \notin Faults => requests = <<>> /\ line = <<>>
  /\ Len(requests) + Len(line) <= MaxBehind
  /\ behind' = (requests # <<>> \/ line # <<>>)
  /\ requests' = NoLonger(requests)
  /\ line' = NoLongerPieces(line)
  /\ answer' = None /\ accepted' = NoAnswer /\ served' = None
  /\ UNCHANGED register

FlushSkipped(c) == Enter(c) /\ input' = NoLongerPieces(input)

\* tcflush: what has arrived is thrown away, what is on its way is not.
Flush(c) == Enter(c) /\ input' = <<>>

Return(a, from) ==
  /\ phase' = "idle"
  /\ answer' = a /\ accepted' = from
  /\ UNCHANGED <<call, register, served, behind>>

\* WriteExact and tcdrain.
Send ==
  /\ phase = "send"
  /\ \/ /\ phase' = "receive"
        /\ requests' = Append(requests, [call |-> call, own |-> TRUE])
        /\ UNCHANGED <<line, input, call, register, answer, historyVars>>
     \/ /\ "send" \in Faults
        /\ Return(Failed, NoAnswer)
        /\ UNCHANGED lineVars

\* ReadExact has all the bytes it wants.
Receive ==
  LET n == Length(call)
      got == SubSeq(input, 1, n)
  IN
  /\ phase = "receive" /\ Len(input) >= n
  /\ input' = SubSeq(input, n + 1, Len(input))
  /\ IF IsResponse(call, got)
       THEN Return(got[1].of.value, got[1].of)
       ELSE Return(Failed, NoAnswer)
  /\ UNCHANGED <<requests, line>>

\* The deadline passes before that; the bytes it has read are gone.
Timeout ==
  /\ phase = "receive"
  /\ "late" \notin Faults =>
       requests = <<>> /\ Len(line) + Len(input) < Length(call)
  /\ input' = <<>>
  /\ Return(Failed, NoAnswer)
  /\ UNCHANGED <<requests, line>>

Refuse(c) ==
  /\ phase = "idle" /\ ~InRange(c)
  /\ answer' = Failed /\ accepted' = NoAnswer
  /\ UNCHANGED <<phase, call, lineVars, register, served, behind>>

-----------------------------------------------------------------------------
(***************************************************************************)
(* The hand and the line (external).                                       *)
(***************************************************************************)

\* The hand carries out a request and answers it.
Serve ==
  /\ requests # <<>>
  /\ LET c == Head(requests).call
         v == IF c.op = "write" THEN c.value ELSE register[c.register]
     IN
     /\ register' = IF c.op = "write"
                    THEN [register EXCEPT ![c.register] = v] ELSE register
     /\ line' = line \o Frame([op |-> c.op, register |-> c.register,
                               value |-> v, own |-> Head(requests).own])
     /\ served' = IF Head(requests).own THEN v ELSE served
  /\ requests' = Tail(requests)
  /\ UNCHANGED <<phase, call, input, answer, accepted, behind>>

Deliver ==
  /\ line # <<>>
  /\ line' = Tail(line) /\ input' = Append(input, Head(line))
  /\ UNCHANGED <<phase, call, requests, register, answer, historyVars>>

LoseRequest ==
  /\ "lost" \in Faults /\ requests # <<>>
  /\ requests' = Tail(requests)
  /\ UNCHANGED <<phase, call, line, input, register, answer, historyVars>>

LosePiece ==
  /\ "lost" \in Faults /\ line # <<>>
  /\ line' = Tail(line)
  /\ UNCHANGED <<phase, call, requests, input, register, answer, historyVars>>

\* What the hand measures changes.
Move ==
  /\ \E r \in Feedback, v \in Values : register' = [register EXCEPT ![r] = v]
  /\ UNCHANGED <<phase, call, lineVars, answer, historyVars>>

Next ==
  \/ \E c \in Calls \cup OutOfRangeCalls : Flush(c) \/ Refuse(c)
  \/ Send \/ Receive \/ Timeout
  \/ Serve \/ Deliver \/ LoseRequest \/ LosePiece \/ Move

Spec == Init /\ [][Next]_vars

\* A call that is begun goes on, and what is on its way arrives or gets lost.
Fairness ==
  /\ WF_vars(Send) /\ WF_vars(Receive) /\ WF_vars(Timeout)
  /\ WF_vars(Serve) /\ WF_vars(Deliver)

FairSpec == Spec /\ Fairness

-----------------------------------------------------------------------------
(***************************************************************************)
(* Properties.                                                             *)
(***************************************************************************)

\* Whatever is lost or late, an answer that is accepted comes from the
\* register that was asked, and it is the answer to this call unless answers to
\* earlier ones were still on their way when the call flushed the input: they
\* carry no number that would tell them apart (131, 143-148).
AnswerIsOwn ==
  accepted # NoAnswer =>
    accepted.register = call.register /\ (accepted.own \/ behind)

\* The line loses something, or the caller does not wait for it: a call begins
\* while an answer is on its way, or ends while one is or before it has read it.
Disturbance ==
  \/ LoseRequest \/ LosePiece
  \/ Send /\ phase' = "idle"
  \/ /\ requests # <<>> \/ line # <<>>
     /\ Timeout \/ \E c \in Calls : Flush(c)
  \/ Timeout /\ Len(input) >= Length(call)

\* When disturbances end, soon no call fails any more: a torn or late answer
\* does not put the line out of step for good (131).
Resynchronises ==
  <>[][~Disturbance]_vars
    => <>[][phase = "receive" /\ phase' = "idle" => answer' # Failed]_vars

\* The Transport a HandController expects.
Line == INSTANCE RegisterLine WITH
  Unseen <- None,
  open <- phase # "idle",
  seen <- served

LineSpec == Line!Spec
=============================================================================
