-------------------------- MODULE MCSerialTransport --------------------------
(***************************************************************************)
(* SerialTransport for TLC: answers to writes, to reads of bytes and of    *)
(* words have different lengths, as the 9, 14 and 20 bytes have.           *)
(***************************************************************************)
EXTENDS SerialTransport

Lengths == [write |-> 1, bytes |-> 2, words |-> 2]
=============================================================================
