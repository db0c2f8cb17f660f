------------------------------- MODULE Cancel -------------------------------
(***************************************************************************)
(* Session under a block API that may hang.  bapi.Put(s.ctx, data) is not *)
(* assumed to return on its own; it is only assumed to honour s.ctx: once *)
(* the transport cancels the session context, a Put in progress returns   *)
(* the context's error, which ReceiveBlock reports as StatusRetry.  The   *)
(* cancel is the transport's (spec 5) and is not in this source.          *)
(***************************************************************************)
EXTENDS Session

VARIABLE ctxDone   \* s.ctx has been cancelled

cvars == << vars, ctxDone >>

\* The transport cancels the session context.
CancelCtx ==
  /\ ~ctxDone
  /\ ctxDone' = TRUE
  /\ UNCHANGED vars

\* context.Background().Done() is never closed.
BackgroundDone == FALSE

\* Mutant of PutCancelled: Put is called with context.Background().
PutCtxIgnored(c) == BackgroundDone /\ PutRetry(c)

\* bapi.Put(s.ctx, data) under a cancelled s.ctx fails: StatusRetry.
PutCancelled(c) == ctxDone /\ PutRetry(c)

CInit == Init /\ ctxDone = FALSE

CNext == (Next /\ UNCHANGED ctxDone) \/ CancelCtx

(***************************************************************************)
(* Goroutines run once runnable (the mark loop and the return), and a Put *)
(* returns once its context is cancelled; nothing else about Put, the     *)
(* listener or the transport is assumed.                                  *)
(***************************************************************************)
CSpec ==
  /\ CInit /\ [][CNext]_cvars
  /\ \A c \in Callers :
       /\ WF_cvars((MarkNode(c) \/ Notify(c)) /\ UNCHANGED ctxDone)
       /\ WF_cvars(PutCancelled(c) /\ UNCHANGED ctxDone)

-----------------------------------------------------------------------------
(* A Put may hang, but not past the session: once s.ctx is cancelled,     *)
(* every ReceiveBlock call in progress (and any started after) returns,   *)
(* because Put is handed s.ctx (session.go:57).                           *)
CancelReleasesCallers == ctxDone ~> \A c \in Callers : pc[c] = "idle"

=============================================================================
