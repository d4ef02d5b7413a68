------------------------------ MODULE Session -------------------------------
(***************************************************************************)
(* One client and the hub, composed: a step is a turn of one of the two.   *)
(***************************************************************************)
EXTENDS Server, Client

vars == <<up, down, reader, detached, serverVars, clientVars>>

Init == WireInit /\ ServerInit /\ ClientInit

Next ==
  \* The hub answers the sockets the client has opened.
  \/ \E s \in 1..current :
       \/ TakeHandshake(s) /\ UNCHANGED clientVars
       \/ TakeSubscribe(s) /\ UNCHANGED clientVars
       \/ TakeUnsubscribe(s) /\ UNCHANGED clientVars
       \/ TakeDispatch(s) /\ UNCHANGED clientVars
       \/ \E u \in Uris : SubscribeOne(s, u) /\ UNCHANGED clientVars
       \/ Greet(s) /\ UNCHANGED clientVars
       \/ \E u \in Uris : ResumeOne(s, u) /\ UNCHANGED clientVars
       \/ Resume(s) /\ UNCHANGED clientVars
       \/ Commit(s) /\ UNCHANGED clientVars
       \/ Publish(s) /\ UNCHANGED clientVars
       \/ Answer(s) /\ UNCHANGED clientVars
       \/ Detach(s) /\ UNCHANGED clientVars
  \* The hub's host.
  \/ \E u \in Uris : Foreign(u) /\ UNCHANGED clientVars
  \/ \E u \in Uris : Destroy(u) /\ UNCHANGED clientVars
  \/ Restart(1..current) /\ UNCHANGED clientVars
  \* Calls of the client's application.
  \/ \E us \in SUBSET Uris : Hello(us) /\ UNCHANGED serverVars
  \/ \E s \in Sockets : Reconnect(s) /\ UNCHANGED serverVars
  \/ \E u \in Uris : Subscribe(u) /\ UNCHANGED serverVars
  \/ \E u \in Uris : Unsubscribe(u) /\ UNCHANGED serverVars
  \/ \E u \in Uris : Dispatch(u) /\ UNCHANGED serverVars
  \/ Shutdown /\ UNCHANGED serverVars
  \* What happens to the client.
  \/ ReceivePush /\ UNCHANGED serverVars
  \/ ReceiveAnswer /\ UNCHANGED serverVars
  \/ ReceiveLate /\ UNCHANGED serverVars
  \/ EndOfStream /\ UNCHANGED serverVars
  \/ \E r \in waiting : Timeout(r) /\ UNCHANGED serverVars
  \/ \E ok \in BOOLEAN : SaveEnds(ok) /\ UNCHANGED serverVars
  \/ Restore /\ UNCHANGED serverVars

Spec == Init /\ [][Next]_vars
=============================================================================
