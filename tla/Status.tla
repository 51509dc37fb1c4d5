------------------------------- MODULE Status -------------------------------
(***************************************************************************)
(* common/status.h and common/status.cc: the result object the I/O calls   *)
(* of the library return.  A status is a pointer: null for success, and    *)
(* otherwise the address of a heap block                                   *)
(*     bytes 0..7  a 64-bit value                                          *)
(*     byte  8     the code                                                *)
(*     bytes 9..   the message, then a 0 byte                              *)
(* A block is a function from 0..n to bytes, a value is the function of    *)
(* its 8 bytes, and a message is a sequence of non-zero bytes.             *)
(***************************************************************************)
EXTENDS Integers, Sequences

StatusSuccess     == 0
StatusError       == 1
StatusFault       == 2
StatusFailure     == 3
StatusUnsupported == 4

NullState == <<>>                       \* state_ == nullptr

\* The default argument val=0 of error(), fault(), failure(), unsupported().
ZeroValue == [i \in 0..7 |-> 0]

\* status(Code, msg, value): the block the constructor fills in.
NewState(code, msg, value) ==
    [i \in 0..(9 + Len(msg)) |->
        CASE i < 8                  -> value[i]
          [] i = 8                  -> code
          [] i \in 9..(8 + Len(msg)) -> msg[i - 8]
          [] i = 9 + Len(msg)       -> 0]

\* status::code(): the byte of the block it looks at.
Code(s) == IF s = NullState THEN StatusSuccess ELSE s[4]

\* A mutation of IsSuccess: like its sisters, it asks the code.
IsSuccessByCode(s) == Code(s) = StatusSuccess

IsSuccess(s) == s = NullState
IsError(s)   == Code(s) = StatusError
IsFault(s)   == Code(s) = StatusFault
IsFailure(s) == Code(s) = StatusFailure
=============================================================================
