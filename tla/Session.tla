------------------------------ MODULE Session ------------------------------
(***************************************************************************)
(* The receive-side session of dsync (src/dsync/session.go).               *)
(*                                                                         *)
(* Several transport goroutines (Callers) call ReceiveBlock on one session *)
(* concurrently.  Each call writes the payload through the block API, then *)
(* compares the derived id with the claimed hash, then walks s.mfst.Nodes  *)
(* setting s.prog[i] = 100 for every matching index, with no lock, then    *)
(* starts a goroutine that sends s.prog on the unbuffered channel progCh.  *)
(* Every loop iteration is its own step, so the calls interleave at the    *)
(* granularity of single slice elements (a racy uint16 read in Go observes *)
(* one of the values written, so one step per element is exact).          *)
(*                                                                         *)
(* Two readers of s.prog run beside the callers:                           *)
(*  - a poller of s.Complete(), whose loop is Completion.Complete (dag.go) *)
(*    and is interleaved element by element with the writers;              *)
(*  - the consumer of progCh, which is not in this source: it is modelled  *)
(*    from the spec as a listener that receives a notification and then    *)
(*    reads the slice it got, element by element, and that may go away.    *)
(***************************************************************************)
EXTENDS Naturals, Sequences, FiniteSets, Completion

CONSTANTS
  Callers,     \* goroutines of the transport calling ReceiveBlock
  Hashes,      \* block ids a sender may claim
  Junk,        \* the id of bytes that match no claimable hash
  MfstNodes,   \* s.mfst.Nodes, a sequence over Hashes
  MaxCalls     \* bound on ReceiveBlock calls in one behaviour

ASSUME MfstNodes \in Seq(Hashes) /\ Junk \notin Hashes /\ MaxCalls \in Nat

\* The id the block API derives from a payload: a claimable hash or Junk.
Data == Hashes \cup {Junk}

Idx == 1 .. Len(MfstNodes)

VARIABLES
  prog,       \* s.prog, the live Completion shared by everyone
  store,      \* ids of the blocks the block API holds
  pc,         \* per caller: "idle", "put", "mark"
  hash,       \* per caller: the hash argument of ReceiveBlock
  data,       \* per caller: the id of the payload bytes
  i,          \* per caller: index of the loop over s.mfst.Nodes
  resp,       \* per caller: the last ReceiveResponse, [hash, status]
  calls,      \* ReceiveBlock calls started so far
  pending,    \* completionChanged goroutines blocked sending on progCh
  cpc,        \* s.Complete() poller: "idle" or "loop"
  ci,         \* index of the poller's loop
  completeSeen, \* s.Complete() has returned true
  opc,        \* progCh listener: "idle", "read", "gone"
  oview       \* the entries the listener has read from the slice it got

callerVars == << pc, hash, data, i, resp >>
checkVars == << cpc, ci, completeSeen >>
obsVars == << opc, oview >>
vars == << prog, store, callerVars, calls, pending, checkVars, obsVars >>

Statuses == {"none", "Ok", "Retry", "Errored"}

\* The arguments an idle caller holds (none: they are locals of the call).
NoHash == CHOOSE h \in Hashes : TRUE
NoData == Junk

\* Caller c returns the response of status st for its hash and drops its locals.
Return(c, st) ==
  /\ pc' = [pc EXCEPT ![c] = "idle"]
  /\ resp' = [resp EXCEPT ![c] = [hash |-> hash[c], status |-> st]]
  /\ hash' = [hash EXCEPT ![c] = NoHash]
  /\ data' = [data EXCEPT ![c] = NoData]
  /\ i' = [i EXCEPT ![c] = 1]

TypeOK ==
  /\ prog \in [Idx -> Progress]
  /\ store \subseteq Data
  /\ pc \in [Callers -> {"idle", "put", "mark"}]
  /\ hash \in [Callers -> Hashes]
  /\ data \in [Callers -> Data]
  /\ i \in [Callers -> 1 .. Len(MfstNodes) + 1]
  /\ resp \in [Callers -> [hash : Hashes, status : Statuses]]
  /\ calls \in 0 .. MaxCalls
  /\ pending \in 0 .. MaxCalls + 1
  /\ cpc \in {"idle", "loop"} /\ ci \in 1 .. Len(MfstNodes) + 1
  /\ completeSeen \in BOOLEAN
  /\ opc \in {"idle", "read", "gone"} /\ oview \in Seq(Progress)

(***************************************************************************)
(* newSession: diff := mfst, prog := NewCompletion(mfst, diff), and one    *)
(* completionChanged goroutine started before the session is returned.    *)
(* The block store may already hold any blocks.                            *)
(***************************************************************************)
Init ==
  /\ prog = NewCompletion(MfstNodes, MfstNodes)
  /\ store \in SUBSET Data
  /\ pc = [c \in Callers |-> "idle"]
  /\ hash = [c \in Callers |-> NoHash]
  /\ data = [c \in Callers |-> NoData]
  /\ i = [c \in Callers |-> 1]
  /\ resp = [c \in Callers |-> [hash |-> NoHash, status |-> "none"]]
  /\ calls = 0
  /\ pending = 1
  /\ cpc = "idle" /\ ci = 1 /\ completeSeen = FALSE
  /\ opc = "idle" /\ oview = << >>

(***************************************************************************)
(* ReceiveBlock(h, d) is entered by caller c with claimed hash h and a     *)
(* payload whose content id is d.                                          *)
(***************************************************************************)
ReceiveBlock(c, h, d) ==
  /\ pc[c] = "idle"
  /\ calls < MaxCalls
  /\ pc' = [pc EXCEPT ![c] = "put"]
  /\ hash' = [hash EXCEPT ![c] = h]
  /\ data' = [data EXCEPT ![c] = d]
  /\ calls' = calls + 1
  /\ UNCHANGED << prog, store, i, resp, pending, checkVars, obsVars >>

\* bapi.Put fails: StatusRetry, nothing stored.
PutRetry(c) ==
  /\ pc[c] = "put"
  /\ Return(c, "Retry")
  /\ UNCHANGED << prog, store, calls, pending, checkVars, obsVars >>

\* bapi.Put stores the bytes, but their id is not the claimed hash.
PutMismatch(c) ==
  /\ pc[c] = "put"
  /\ data[c] # hash[c]
  /\ store' = store \cup {data[c]}
  /\ Return(c, "Errored")
  /\ UNCHANGED << prog, calls, pending, checkVars, obsVars >>

\* Mutant of PutMatch: the id is not compared with the claimed hash.
PutMatchUnchecked(c) ==
  /\ pc[c] = "put"
  /\ store' = store \cup {data[c]}
  /\ pc' = [pc EXCEPT ![c] = "mark"]
  /\ i' = [i EXCEPT ![c] = 1]
  /\ UNCHANGED << prog, hash, data, resp, calls, pending, checkVars, obsVars >>

\* Mutant of PutMatch: the comparison of line 68 inverted.
PutMatchInverted(c) ==
  /\ pc[c] = "put"
  /\ data[c] # hash[c]
  /\ store' = store \cup {data[c]}
  /\ pc' = [pc EXCEPT ![c] = "mark"]
  /\ i' = [i EXCEPT ![c] = 1]
  /\ UNCHANGED << prog, hash, data, resp, calls, pending, checkVars, obsVars >>

\* bapi.Put stores the bytes and their id is the claimed hash.
PutMatch(c) ==
  /\ pc[c] = "put"
  /\ data[c] = hash[c]
  /\ store' = store \cup {data[c]}
  /\ pc' = [pc EXCEPT ![c] = "mark"]
  /\ i' = [i EXCEPT ![c] = 1]
  /\ UNCHANGED << prog, hash, data, resp, calls, pending, checkVars, obsVars >>

\* Mutant of MarkNode: s.prog[i] += 100 instead of = 100.
MarkNodeAccumulate(c) ==
  /\ pc[c] = "mark"
  /\ i[c] <= Len(MfstNodes)
  /\ prog' = IF MfstNodes[i[c]] = hash[c]
             THEN [prog EXCEPT ![i[c]] = @ + 100] ELSE prog
  /\ i' = [i EXCEPT ![c] = @ + 1]
  /\ UNCHANGED << store, pc, hash, data, resp, calls, pending, checkVars, obsVars >>

\* Mutant of MarkNode: the loop breaks after the first matching index.
MarkNodeBreak(c) ==
  /\ pc[c] = "mark"
  /\ i[c] <= Len(MfstNodes)
  /\ prog' = IF MfstNodes[i[c]] = hash[c]
             THEN [prog EXCEPT ![i[c]] = 100] ELSE prog
  /\ i' = [i EXCEPT ![c] = IF MfstNodes[@] = hash[c] THEN Len(MfstNodes) + 1
                                                     ELSE @ + 1]
  /\ UNCHANGED << store, pc, hash, data, resp, calls, pending, checkVars, obsVars >>

\* Mutant of MarkNode: s.prog[i] = 0 written for the entries that differ.
MarkNodeReset(c) ==
  /\ pc[c] = "mark"
  /\ i[c] <= Len(MfstNodes)
  /\ prog' = [prog EXCEPT ![i[c]] = IF MfstNodes[i[c]] = hash[c] THEN 100 ELSE 0]
  /\ i' = [i EXCEPT ![c] = @ + 1]
  /\ UNCHANGED << store, pc, hash, data, resp, calls, pending, checkVars, obsVars >>

\* One iteration of: for i, h := range s.mfst.Nodes { if hash == h { s.prog[i] = 100 } }
MarkNode(c) ==
  /\ pc[c] = "mark"
  /\ i[c] <= Len(MfstNodes)
  /\ prog' = IF MfstNodes[i[c]] = hash[c]
             THEN [prog EXCEPT ![i[c]] = 100] ELSE prog
  /\ i' = [i EXCEPT ![c] = @ + 1]
  /\ UNCHANGED << store, pc, hash, data, resp, calls, pending, checkVars, obsVars >>

\* Mutant of Notify: the loop stops one index early.
NotifyEarly(c) ==
  /\ pc[c] = "mark"
  /\ i[c] >= Len(MfstNodes)
  /\ pending' = pending + 1
  /\ Return(c, "Ok")
  /\ UNCHANGED << prog, store, calls, checkVars, obsVars >>

\* Mutant of Notify: s.completionChanged() called without go, so the call
\* waits until the listener receives.
NotifySync(c) ==
  /\ pc[c] = "mark"
  /\ i[c] > Len(MfstNodes)
  /\ opc = "idle"
  /\ opc' = "read" /\ oview' = << >>
  /\ Return(c, "Ok")
  /\ UNCHANGED << prog, store, calls, pending, checkVars >>

\* After the loop: go s.completionChanged(); return StatusOk.
Notify(c) ==
  /\ pc[c] = "mark"
  /\ i[c] > Len(MfstNodes)
  /\ pending' = pending + 1
  /\ Return(c, "Ok")
  /\ UNCHANGED << prog, store, calls, checkVars, obsVars >>

(***************************************************************************)
(* s.Complete() = s.prog.Complete(): a loop over the live slice that       *)
(* returns false at the first entry that is not 100.                       *)
(***************************************************************************)
CompleteCall ==
  /\ cpc = "idle"
  /\ cpc' = "loop" /\ ci' = 1
  /\ UNCHANGED << prog, store, callerVars, calls, pending, completeSeen, obsVars >>

CompleteStep ==
  /\ cpc = "loop"
  /\ ci <= Len(MfstNodes)
  /\ IF prog[ci] # 100
     THEN cpc' = "idle" /\ ci' = ci
     ELSE cpc' = cpc /\ ci' = ci + 1
  /\ UNCHANGED << prog, store, callerVars, calls, pending, completeSeen, obsVars >>

CompleteTrue ==
  /\ cpc = "loop"
  /\ ci > Len(MfstNodes)
  /\ cpc' = "idle"
  /\ completeSeen' = TRUE
  /\ UNCHANGED << prog, store, callerVars, calls, pending, ci, obsVars >>

(***************************************************************************)
(* The progCh listener (not in this source).  It receives the slice a     *)
(* completionChanged goroutine sends, reads it entry by entry, and may    *)
(* stop listening for good.                                                *)
(***************************************************************************)
ListenerReceive ==
  /\ opc = "idle" /\ pending > 0
  /\ pending' = pending - 1
  /\ opc' = "read" /\ oview' = << >>
  /\ UNCHANGED << prog, store, callerVars, calls, checkVars >>

ListenerRead ==
  /\ opc = "read" /\ Len(oview) < Len(MfstNodes)
  /\ oview' = Append(oview, prog[Len(oview) + 1])
  /\ UNCHANGED << prog, store, callerVars, calls, pending, checkVars, opc >>

ListenerDone ==
  /\ opc = "read" /\ Len(oview) = Len(MfstNodes)
  /\ opc' = "idle"
  /\ UNCHANGED << prog, store, callerVars, calls, pending, checkVars, oview >>

ListenerGone ==
  /\ opc = "idle"
  /\ opc' = "gone"
  /\ UNCHANGED << prog, store, callerVars, calls, pending, checkVars, oview >>

\* The steps of an in-flight ReceiveBlock call of caller c.
CallStep(c) ==
  \/ PutRetry(c) \/ PutMismatch(c) \/ PutMatch(c) \/ MarkNode(c) \/ Notify(c)

Next ==
  \/ \E c \in Callers, h \in Hashes, d \in Data : ReceiveBlock(c, h, d)
  \/ \E c \in Callers : CallStep(c)
  \/ CompleteCall \/ CompleteStep \/ CompleteTrue
  \/ ListenerReceive \/ ListenerRead \/ ListenerDone \/ ListenerGone

(***************************************************************************)
(* Every runnable goroutine of an in-flight call is eventually scheduled,  *)
(* and bapi.Put eventually returns (it runs under the session context).   *)
(* Nothing is assumed of the listener: it may be slow or absent.           *)
(***************************************************************************)
Fairness == \A c \in Callers : WF_vars(CallStep(c))

Spec == Init /\ [][Next]_vars /\ Fairness

-----------------------------------------------------------------------------
(***************************************************************************)
(* Properties.                                                             *)
(***************************************************************************)

\* The atomic session, seen through the state the caller does not hide.
Atomic == INSTANCE SessionSpec

(* The unlocked session implements the atomic one (SessionSpec): however  *)
(* the callers' element writes of s.prog interleave with each other and   *)
(* with the element reads of s.Complete(), an entry becomes 100 only once *)
(* its block is stored, no entry ever falls back, and Complete() returns  *)
(* true only when, at that instant, every entry is 100 (so every manifest *)
(* block is stored).                                                       *)
SessionRefinesSpec == Atomic!Spec

(* A caller whose last ReceiveBlock returned StatusOk for hash h sees      *)
(* every manifest entry equal to h at 100, whatever the other callers are  *)
(* doing to the same unlocked slice.                                       *)
OkMeansMarked ==
  \A c \in Callers :
    resp[c].status = "Ok" =>
      \A k \in Idx : MfstNodes[k] = resp[c].hash => prog[k] = 100

(* Every completionChanged goroutine eventually delivers its send: none   *)
(* is left blocked on progCh for ever (spec: no goroutine leaks waiting   *)
(* for a reader that has gone away).                                      *)
NotifiersDeliver == (pending > 0) ~> (pending = 0)

=============================================================================
