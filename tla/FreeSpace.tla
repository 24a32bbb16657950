----------------------------- MODULE FreeSpace -----------------------------
(***************************************************************************)
(* How much deniable data a regular message carries: q times the size of   *)
(* its serialized content, rounded up, less what an empty vector of chunks *)
(* takes.  q is the environment variable Q_VALUE of the server, 0.6 unless *)
(* set, and reaches the client in a header.  Sizes are in bytes and the    *)
(* subtraction is on usize, which wraps.  The rounding of f32 products is  *)
(* left out.                                                               *)
(***************************************************************************)
EXTENDS Integers

CONSTANTS
    Sizes,         \* serialized sizes of regular content
    QNum, QDen,    \* q_value is QNum / QDen
    EmptyVecSize,  \* EMPTY_VEC_SIZE
    UsizeBits      \* bound: the width of usize, 64 in the build

ASSUME FreeSpaceAssumption ==
    /\ Sizes \subseteq Nat
    /\ QNum \in Nat
    /\ QDen \in Nat \ {0}
    /\ EmptyVecSize \in Nat
    /\ UsizeBits \in Nat

TotalFreeSpace(size) == (size * QNum + QDen - 1) \div QDen

FreeSpaceInBytes(size) == (TotalFreeSpace(size) - EmptyVecSize) % 2^UsizeBits
=============================================================================
