---------------------------- MODULE MCOperators ----------------------------
(***************************************************************************)
(* Checks the pure operators against reference definitions over bounded   *)
(* inputs.  The inputs never change: each state is one input, either a    *)
(* Completion input (mfst, missing) or a session id input (idLen, draws), *)
(* with the other held at a fixed valid value.                            *)
(*                                                                         *)
(* Completion: every manifest of four distinct ids and every ordered      *)
(* subsequence of it as the missing list (NewCompletion's precondition).  *)
(* Session id: lengths 1, 2, 10 and 11, and two rand.Int63() draws whose  *)
(* 6-bit fields are 63 (rejected) but for one field of 0, 51 (accepted    *)
(* edges) or 52 (rejected edge) at the first, second or last position, or *)
(* are all 0 or all 51; the top three bits are 0 or 7.                    *)
(***************************************************************************)
EXTENDS Completion, SessionId, SequencesExt

CONSTANTS a, b, c, d

VARIABLES mfst, missing, idLen, draws

vars == << mfst, missing, idLen, draws >>

\* The subsequence of s at the positions in D, in order.
Pick(s, D) ==
  LET idx == SelectSeq([k \in DOMAIN s |-> k], LAMBDA k : k \in D)
  IN [j \in DOMAIN idx |-> s[idx[j]]]

\* An Int63 as base-64 digits: field p holds v, the other nine hold 63,
\* and the top three bits are t.
OneField(p, v, t) == [j \in 1 .. 11 |-> IF j = 11 THEN t ELSE IF j = p THEN v ELSE 63]
AllFields(v, t) == [j \in 1 .. 11 |-> IF j = 11 THEN t ELSE v]

Int63s ==
  {OneField(p, v, t) : p \in {1, 2, 10}, v \in {0, 51, 52}, t \in {0, 7}}
  \cup {AllFields(v, t) : v \in {0, 51}, t \in {0, 7}}

CompletionInputs ==
  /\ mfst \in SetToAllKPermutations({a, b, c, d})
  /\ missing \in {Pick(mfst, D) : D \in SUBSET DOMAIN mfst}

IdInputs ==
  /\ idLen \in {1, 2, 10, 11}
  /\ draws \in Int63s \X Int63s

Init ==
  \/ CompletionInputs /\ idLen = 1 /\ draws = << AllFields(0, 0) >>
  \/ IdInputs /\ mfst = << a >> /\ missing = << a >>

Next == UNCHANGED vars

Spec == Init /\ [][Next]_vars

Prog == NewCompletion(mfst, missing)

(* The single forward scan marks exactly the missing blocks 0 and every    *)
(* other block 100, when missing is an ordered subsequence of the manifest.*)
NewCompletionMarksMissing ==
  \A k \in DOMAIN mfst : Prog[k] = 0 <=> mfst[k] \in ToSet(missing)

(* Percentage, CompletedBlocks and Complete agree on the same progress:   *)
(* Percentage is CompletedBlocks / len, and Complete holds exactly when   *)
(* every block is completed.                                               *)
SummariesAgree ==
  /\ Complete(Prog) <=> CompletedBlocks(Prog) = Len(Prog)
  /\ Len(Prog) > 0 => Percentage(Prog)[1] = 100 * CompletedBlocks(Prog)

(* Percentage is a fraction in [0, 1] (spec 4.3: guard the empty case).   *)
PercentageInRange ==
  Percentage(Prog) # NaN /\ Percentage(Prog)[1] <= Percentage(Prog)[2]

\* Reference: the letters are the 6-bit fields of bits 0..59 of each draw,
\* in order, that index letterBytes; the first n of them fill b from the end.
RefFields(x) == [j \in 1 .. 10 |-> x[j]]
RefLetters == SelectSeq(FlattenSeq([k \in DOMAIN draws |-> RefFields(draws[k])]),
                        LAMBDA v : v < 52)

(* randStringBytesMask draws a fresh Int63 after every ten fields, never  *)
(* uses bits 60..62, rejects indices past letterBytes and fills b from    *)
(* its last byte: the id is the first n accepted fields, reversed, and it *)
(* needs a further draw exactly when the fields drawn so far run out.     *)
RandStringMatchesReference ==
  LET r == RandStringBytesMask(idLen, draws)
  IN /\ r.ok <=> Len(RefLetters) >= idLen
     /\ r.ok => r.b = Reverse(SubSeq(RefLetters, 1, idLen))

=============================================================================
