------------------------------ MODULE SessionId ------------------------------
(***************************************************************************)
(* randStringBytesMask (src/dsync/session.go), the session id generator.  *)
(*                                                                         *)
(* A rand.Int63() value is held as its base-64 digits, lowest first: ten   *)
(* 6-bit digits for bits 0..59 and an eleventh for bits 60..62.  On that   *)
(* form cache & letterIdxMask is the lowest digit and cache >>= 6 drops    *)
(* it (the empty sequence is 0).  A letter is its index into letterBytes. *)
(* The generator's draws are an input sequence; the loop reports whether  *)
(* it ran out of them.                                                    *)
(***************************************************************************)
EXTENDS Naturals, Sequences

\* len(letterBytes): a-z then A-Z.
LetterBytes == 52

LetterIdxBits == 6

\* 1<<letterIdxBits - 1
LetterIdxMask == 2^LetterIdxBits - 1

\* Mutant of LetterIdxMax: rounded up, so the top bits are used as a letter.
LetterIdxMaxUp == 63 \div LetterIdxBits + 1

\* # of letter indices fitting in 63 bits
LetterIdxMax == 63 \div LetterIdxBits

\* cache & letterIdxMask, and cache >>= letterIdxBits, on base-64 digits.
Low(cache) == IF cache = << >> THEN 0 ELSE Head(cache)
Shifted(cache) == IF cache = << >> THEN << >> ELSE Tail(cache)

(***************************************************************************)
(* for i, cache, remain := n-1, rand.Int63(), letterIdxMax; i >= 0; { ... }*)
(* draws[k] is the next rand.Int63(); b is 1-based (b[i+1] is Go's b[i]).  *)
(***************************************************************************)
RECURSIVE RandLoop(_, _, _, _, _, _)
RandLoop(draws, k, i, cache, remain, b) ==
  IF i < 0 THEN [ok |-> TRUE, b |-> b]
  ELSE IF remain = 0 /\ k > Len(draws) THEN [ok |-> FALSE, b |-> b]
  ELSE LET refill == remain = 0
           c == IF refill THEN draws[k] ELSE cache
           r == IF refill THEN LetterIdxMax ELSE remain
           idx == Low(c)
           take == idx < LetterBytes
       IN RandLoop(draws, IF refill THEN k + 1 ELSE k,
                   IF take THEN i - 1 ELSE i,
                   Shifted(c), r - 1,
                   IF take THEN [b EXCEPT ![i + 1] = idx] ELSE b)

\* b := make([]byte, n); the loop; return string(b)
RandStringBytesMask(n, draws) ==
  RandLoop(draws, 2, n - 1, draws[1], LetterIdxMax, [j \in 1 .. n |-> 0])

=============================================================================
