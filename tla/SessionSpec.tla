---------------------------- MODULE SessionSpec ----------------------------
(***************************************************************************)
(* What a receive session promises, with every operation atomic: the block *)
(* store only grows; an entry of the progress vector goes to 100 only when *)
(* the block the manifest names there is stored, and never goes back; and *)
(* Complete() answers true only at an instant when every entry is 100.    *)
(* The session of session.go writes and reads s.prog one element at a time *)
(* with no lock; Session is checked to implement this specification.      *)
(***************************************************************************)
EXTENDS Naturals, Sequences, Completion

CONSTANTS Data, MfstNodes

VARIABLES prog, store, completeSeen

avars == << prog, store, completeSeen >>

Init ==
  /\ prog = NewCompletion(MfstNodes, MfstNodes)
  /\ store \in SUBSET Data
  /\ completeSeen = FALSE

\* A block is written to the store.
StoreBlock(d) ==
  /\ store' = store \cup {d}
  /\ UNCHANGED << prog, completeSeen >>

\* Entry k is marked received: its block is in the store.
MarkEntry(k) ==
  /\ MfstNodes[k] \in store
  /\ prog' = [prog EXCEPT ![k] = 100]
  /\ UNCHANGED << store, completeSeen >>

\* Complete() returns true.
ObserveComplete ==
  /\ \A k \in DOMAIN prog : prog[k] = 100
  /\ completeSeen' = TRUE
  /\ UNCHANGED << prog, store >>

Next ==
  \/ \E d \in Data : StoreBlock(d)
  \/ \E k \in DOMAIN MfstNodes : MarkEntry(k)
  \/ ObserveComplete

Spec == Init /\ [][Next]_avars

=============================================================================
