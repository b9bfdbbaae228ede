-------------------------------- MODULE Ids --------------------------------
(***************************************************************************)
(* fallbackUUIDv7: the ids the SDK makes up when the system has no         *)
(* randomness to give.  A counter of the process takes the place of the    *)
(* random bits, and the version and the variant of a UUID overwrite some   *)
(* of it.                                                                  *)
(***************************************************************************)
EXTENDS Integers, TLAPS

Byte          == 256
SevenBytes    == 72057594037927936     \* 2^56
Distinguished == 4611686018427387904   \* 2^62
Times         == 281474976710656       \* 2^48: milliseconds that fit into six bytes

\* The bytes 0 to 5, 6, 7, 8, and 9 to 15 of an id.
FallbackUUIDv7(milliseconds, sequence) ==
    [time    |-> milliseconds % Times,
     version |-> 7 * 16 + ((sequence \div Byte) % 16),
     low     |-> sequence % Byte,
     variant |-> 8 * 16 + ((sequence \div SevenBytes) % 64),
     rest    |-> sequence % SevenBytes]

\* conversationIDPattern: the version is 7 and the variant one of 8, 9, a, b.
IsConversationID(id) ==
    /\ id.version \div 16 = 7
    /\ id.variant \div 16 \in {8, 9, 10, 11}

-----------------------------------------------------------------------------
\* A fallback id is a UUIDv7 whatever the counter is, so a client that returns one as
\* its conversation id is believed.
THEOREM FallbackIsConversationID ==
    ASSUME NEW milliseconds \in Nat, NEW sequence \in Nat
    PROVE  IsConversationID(FallbackUUIDv7(milliseconds, sequence))
<1> DEFINE a == (sequence \div Byte) % 16
           b == (sequence \div SevenBytes) % 64
<1>1. sequence \div Byte \in Nat /\ sequence \div SevenBytes \in Nat
  BY DEF Byte, SevenBytes
<1>2. a \in 0..15 /\ b \in 0..63
  BY <1>1
<1>3. /\ FallbackUUIDv7(milliseconds, sequence).version = 112 + a
      /\ FallbackUUIDv7(milliseconds, sequence).variant = 128 + b
  BY DEF FallbackUUIDv7
<1> HIDE DEF a, b
<1>4. (112 + a) \div 16 = 7 /\ (128 + b) \div 16 \in {8, 9, 10, 11}
  BY <1>2
<1> QED BY <1>3, <1>4 DEF IsConversationID

\* Two fallback ids of one process differ as long as their counters do not differ by a
\* multiple of 2^62, whatever the clock says: the variant hides the two highest bits,
\* the version none.
THEOREM FallbackIdsDistinct ==
    ASSUME NEW s \in 0..(Distinguished - 1), NEW t \in 0..(Distinguished - 1),
           s # t, NEW m, NEW n
    PROVE  FallbackUUIDv7(m, s) # FallbackUUIDv7(n, t)
<1> SUFFICES ASSUME FallbackUUIDv7(m, s) = FallbackUUIDv7(n, t) PROVE FALSE
  OBVIOUS
<1> DEFINE a == (s \div SevenBytes) % 64
           b == (t \div SevenBytes) % 64
<1>1. a = b /\ s % SevenBytes = t % SevenBytes
  <2>1. /\ FallbackUUIDv7(m, s).variant = 8 * 16 + a
        /\ FallbackUUIDv7(n, t).variant = 8 * 16 + b
        /\ FallbackUUIDv7(m, s).rest = s % SevenBytes
        /\ FallbackUUIDv7(n, t).rest = t % SevenBytes
    BY DEF FallbackUUIDv7
  <2>2. a \in Int /\ b \in Int
    BY DEF SevenBytes
  <2> HIDE DEF a, b
  <2> QED BY <2>1, <2>2
<1>2. s \div SevenBytes \in 0..63 /\ t \div SevenBytes \in 0..63
  BY DEF SevenBytes, Distinguished
<1>3. s \div SevenBytes = t \div SevenBytes
  BY <1>1, <1>2
<1>4. /\ s = SevenBytes * (s \div SevenBytes) + (s % SevenBytes)
      /\ t = SevenBytes * (t \div SevenBytes) + (t % SevenBytes)
  BY DEF SevenBytes, Distinguished
<1> QED BY <1>1, <1>3, <1>4
=============================================================================
