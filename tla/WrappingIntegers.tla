-------------------------- MODULE WrappingIntegers --------------------------
(***************************************************************************)
(* Sequence-number arithmetic (libsponge/wrapping_integers).               *)
(*                                                                         *)
(* A WrappingInt32 is a number in 0..M32-1 (uint32_t); an absolute         *)
(* sequence number is a number in 0..M64-1 (uint64_t).  The widths are     *)
(* parameters so that the wrap-around happens within TLC's reach: the      *)
(* program has HALF = 2^31 and M64 = 2^64.                                 *)
(***************************************************************************)
EXTENDS Integers

CONSTANTS
    HALF,  \* 1 << 31 of the program
    M64    \* 1 << 64 of the program

\* 1 << 32 of the program.
M32 == 2 * HALF

\* The 64-bit modulus is a multiple of the 32-bit one.
ASSUME WidthAssumption ==
    /\ HALF \in Nat \ {0}
    /\ M64 \in Nat
    /\ \E k \in 1..M64 : M64 = k * M32

U32 == 0..(M32 - 1)
U64 == 0..(M64 - 1)

-----------------------------------------------------------------------------
\* Mutant: the sum does not wrap around.
Plus32_wide(a, b) == a + b

\* operator+(WrappingInt32 a, uint32_t b): uint32_t addition.
Plus32(a, b) == (a + b) % M32

\* wrap(n, isn): the sum of two 64-bit values truncated by the uint32_t
\* constructor of WrappingInt32.
wrap(n, isn) == ((n % M32) + isn) % M32

\* Mutant: never a number below the checkpoint.
unwrap_forward(n, isn, checkpoint) ==
    (((n - wrap(checkpoint, isn)) % M32) + checkpoint) % M64

\* Mutant: a turn is subtracted even when there is none.
unwrap_below(n, isn, checkpoint) ==
    LET diff == (n - wrap(checkpoint, isn)) % M32
        res  == (diff + checkpoint) % M64
    IN  IF diff >= HALF THEN (res - M32) % M64 ELSE res

\* unwrap(n, isn, checkpoint): the difference is taken in 32 bits, then
\* widened; the sum with the checkpoint is taken in 64 bits.
unwrap(n, isn, checkpoint) ==
    LET diff == (n - wrap(checkpoint, isn)) % M32
        res  == (diff + checkpoint) % M64
    IN  IF diff >= HALF /\ res >= M32 THEN res - M32 ELSE res

=============================================================================
