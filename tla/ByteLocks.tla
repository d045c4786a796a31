----------------------------- MODULE ByteLocks -----------------------------
(***************************************************************************)
(* What record locks promise, byte by byte (fcntl F_SETLK/F_OFD_SETLK):    *)
(* every owner holds each byte of a file for reading, for writing or not   *)
(* at all, and a request changes exactly the bytes it names, of its owner, *)
(* and only when no other owner holds one of them in a conflicting way.    *)
(***************************************************************************)
CONSTANTS Holder, Byte      \* the owners of locks and the bytes of the file

VARIABLE held       \* owner -> byte -> how it is held

Hold == {"none", "read", "write"}

Compatible(a, b) == a = "none" \/ b = "none" \/ (a = "read" /\ b = "read")

ByteInit == held = [o \in Holder |-> [b \in Byte |-> "none"]]

\* A granted request, also one that unlocks.
Set(o, bytes, how) ==
    /\ \A q \in Holder \ {o}, b \in bytes : Compatible(held[q][b], how)
    /\ held' = [held EXCEPT ![o] =
                    [b \in Byte |-> IF b \in bytes THEN how ELSE @[b]]]

\* Descriptors are closed: their owners hold nothing any more.
Drop(owners) ==
    held' = [o \in Holder |-> IF o \in owners THEN [b \in Byte |-> "none"] ELSE held[o]]

ByteNext ==
    \/ \E o \in Holder, bytes \in SUBSET Byte, how \in Hold : Set(o, bytes, how)
    \/ \E owners \in SUBSET Holder : Drop(owners)

ByteSpec == ByteInit /\ [][ByteNext]_held

\* No byte is held by two owners in conflicting ways.
Exclusive ==
    \A o, q \in Holder, b \in Byte : o # q => Compatible(held[o][b], held[q][b])
=============================================================================
