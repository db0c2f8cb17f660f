------------------------------ MODULE Transfer ------------------------------
(***************************************************************************)
(* A transfer: the sending side of dsync drives a Session until it is     *)
(* complete.  The sender is not in this source; it is modelled from the   *)
(* spec (4.4, 7): it sends every manifest block that has not been          *)
(* acknowledged with StatusOk, one call per block at a time, on any free  *)
(* caller; after Retry or Errored it sends the block again.  Faults are   *)
(* payloads whose bytes do not hash to the claimed id (corruption in      *)
(* transit), failed bapi.Put calls and Ok replies lost on the way back;  *)
(* at most MaxFaults of them happen.                                       *)
(* The transport polls s.Complete() to learn when to finish.              *)
(***************************************************************************)
EXTENDS Session

CONSTANT MaxFaults

\* The blocks the manifest names.
Blocks == {MfstNodes[k] : k \in Idx}

ASSUME MaxFaults \in Nat /\ MaxCalls >= Cardinality(Blocks) + MaxFaults

VARIABLES acked, faults

tvars == << vars, acked, faults >>

\* Some caller is already sending h.
InFlight(h) == \E c \in Callers : pc[c] # "idle" /\ hash[c] = h

\* The sender hands block h, whose payload hashes to d, to caller c.
SendBlock(c, h, d) ==
  /\ h \in Blocks \ acked
  /\ ~InFlight(h)
  /\ d = h \/ faults < MaxFaults
  /\ ReceiveBlock(c, h, d)
  /\ faults' = IF d = h THEN faults ELSE faults + 1
  /\ UNCHANGED acked

\* bapi.Put fails (StatusRetry): a fault.
TPutRetry(c) ==
  /\ faults < MaxFaults
  /\ PutRetry(c)
  /\ faults' = faults + 1
  /\ UNCHANGED acked

\* StatusOk: the sender marks the block acknowledged.
TNotify(c) ==
  /\ Notify(c)
  /\ acked' = acked \cup {hash[c]}
  /\ UNCHANGED faults

\* StatusOk is sent but the reply is lost in transit: a fault; the sender
\* will send the block again.
TNotifyLost(c) ==
  /\ faults < MaxFaults
  /\ Notify(c)
  /\ faults' = faults + 1
  /\ UNCHANGED acked

TCallStep(c) ==
  \/ TPutRetry(c)
  \/ TNotify(c)
  \/ TNotifyLost(c)
  \/ (PutMismatch(c) \/ PutMatch(c) \/ MarkNode(c)) /\ UNCHANGED << acked, faults >>

Poll == CompleteCall \/ CompleteStep \/ CompleteTrue

Listener == ListenerReceive \/ ListenerRead \/ ListenerDone \/ ListenerGone

TInit == Init /\ acked = {} /\ faults = 0

TNext ==
  \/ \E c \in Callers, h \in Hashes, d \in Data : SendBlock(c, h, d)
  \/ \E c \in Callers : TCallStep(c)
  \/ (Poll \/ Listener) /\ UNCHANGED << acked, faults >>

(***************************************************************************)
(* Caller goroutines run and Put returns (as in Session); the sender keeps *)
(* sending while a block is unacknowledged, and the transport keeps        *)
(* polling Complete().  The progCh listener is still not assumed to run.   *)
(***************************************************************************)
TSpec ==
  /\ TInit /\ [][TNext]_tvars
  /\ \A c \in Callers : WF_tvars(TCallStep(c))
  /\ WF_tvars(\E c \in Callers, h \in Hashes, d \in Data : SendBlock(c, h, d))
  /\ WF_tvars(Poll /\ UNCHANGED << acked, faults >>)

-----------------------------------------------------------------------------
(* Every transfer completes: after at most MaxFaults failed Puts and      *)
(* corrupted payloads, with concurrent callers writing the unlocked       *)
(* progress and a listener that may have gone, s.Complete() eventually   *)
(* returns true.  It needs ReceiveBlock to verify, mark and answer Ok for *)
(* every good block and Complete() to see every mark.                     *)
TransferCompletes == <>completeSeen

=============================================================================
