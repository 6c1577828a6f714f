------------------------------ MODULE CELLBuffer ------------------------------
(***************************************************************************)
(* CELLBuffer (CELLBuffer.hpp) as operators on the bytes it holds: data is *)
(* _pBuff[0 .. _nLast-1].  A byte knows the message it belongs to and its  *)
(* index in it; the first HeaderSize bytes of a message are its            *)
(* netmsg_DataHeader, which gives dataLength.                              *)
(*                                                                         *)
(* Messages are records with a kind; Length gives the size of a kind.      *)
(***************************************************************************)
EXTENDS Integers, Sequences

CONSTANTS Kinds, Length, HeaderSize

ASSUME MessageConstants ==
    /\ HeaderSize \in Nat \ {0}
    /\ \A k \in Kinds : Length[k] \in Nat /\ Length[k] >= HeaderSize

Bytes(m) == [i \in 1 .. Length[m.kind] |-> [msg |-> m, at |-> i]]

\* push: all of the message or nothing.
Fits(data, m, size) == Len(data) + Length[m.kind] <= size
Push(data, m) == data \o Bytes(m)

\* front_msg: what the bytes at the front are taken for.
FrontMsg(data) == data[1].msg

\* Mutants of HasMsg: a header is enough; and > for >=.
HasHeader(data) == Len(data) >= HeaderSize

HasMore(data) ==
    /\ Len(data) >= HeaderSize
    /\ Len(data) > Length[FrontMsg(data).kind]

\* hasMsg: a header, and as many bytes as it says.
HasMsg(data) ==
    /\ Len(data) >= HeaderSize
    /\ Len(data) >= Length[FrontMsg(data).kind]

Pop(data, n) == SubSeq(data, n + 1, Len(data))
===============================================================================
