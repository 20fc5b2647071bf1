------------------------------- MODULE MCSync -------------------------------
(* What threads and processes wait for each other with: Once and its mutex,  *)
(* channels, RwLock and join, and schemes served by programs, each with an   *)
(* instance of its own.  A behaviour is one of the part that which names,    *)
(* and the others keep their first state.                                    *)
EXTENDS Once, Channel, Threads, Schemes

VARIABLE which

syncVars == <<which, onceVars, channelVars, threadVars, schemeVars>>

(* The least count that four threads cannot lift to 0.                       *)
MCMin == -5

SyncInit == /\ which \in {"once", "channel", "threads", "schemes"}
            /\ OnceInit /\ ChannelInit /\ ThreadsInit /\ SchemesInit

InOnce(A) == which = "once" /\ A /\ UNCHANGED <<which, channelVars, threadVars, schemeVars>>
InChannel(A) == which = "channel" /\ A /\ UNCHANGED <<which, onceVars, threadVars, schemeVars>>
InThreads(A) == which = "threads" /\ A /\ UNCHANGED <<which, onceVars, channelVars, schemeVars>>
InSchemes(A) == which = "schemes" /\ A /\ UNCHANGED <<which, onceVars, channelVars, threadVars>>

SyncNext == InOnce(OnceNext) \/ InChannel(ChannelNext) \/ InThreads(ThreadsNext) \/ InSchemes(SchemesNext)

(* The fairness of FairOnceSpec, FairChannelSpec and FairSchemesSpec.        *)
SyncSpec ==
  /\ SyncInit /\ [][SyncNext]_syncVars
  /\ \A t \in Thread : WF_syncVars(InOnce(Step(t)))
  /\ \A s \in Sender : WF_syncVars(InChannel(Pushing(s)))
  /\ WF_syncVars(InChannel(ReceiverStep)) /\ WF_syncVars(InChannel(Receive(TRUE)))
  /\ \A i \in Inst : WF_syncVars(InSchemes(Serving(i)))
  /\ \A c \in Client : WF_syncVars(InSchemes(Return(c)))

-----------------------------------------------------------------------------
(* Who waits for another gets on: call_once returns (CallsReturn), a message *)
(* sent is received (Received), a call of a scheme returns or the scheme is  *)
(* closed (SchemeCallsReturn).                                               *)
WaitsEnd == CallsReturn /\ Received /\ SchemeCallsReturn
=============================================================================
