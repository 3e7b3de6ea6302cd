---------------------------- MODULE Gateway_proofs ----------------------------
(***************************************************************************)
(* Proofs about the gateway.  ServerInv is an invariant of the server, and   *)
(* with it RingInv, which counts how often a frame can be overtaken on its   *)
(* way to the ring; both are proved of AnyServerSpec, which lets clients ask *)
(* for anything, and so hold of ServerSpec and of the server in Gateway.     *)
(* StreamInv is an invariant of Gateway: it follows the frames of a session  *)
(* from the ring over the wire to what the client has handled.               *)
(***************************************************************************)
EXTENDS Gateway, TLAPS, FiniteSetTheorems, WellFoundedInduction

\* No connection task is a publisher.
LEMMA Disjoint == \A c \in Conns, p \in Publishers : c # p
  BY ConnsAssumption

(***************************************************************************)
(* The server among clients that may present any position at all, and whose *)
(* serve loops may end with any code: what ServerSpec explores a part of,   *)
(* and what the server of Gateway is one case of.  Every lemma about a      *)
(* server step is about these steps.                                       *)
(***************************************************************************)
AnyConnNext(c) ==
  \/ Accept(c) \/ Identify(c) \/ Attach(c)
  \/ \E s \in Conns, n \in Nat : Resume(c, s, n)
  \/ ReplayCheck(c) \/ ReplayCollect(c) \/ Forget(c) \/ Reconnect(c) \/ Replay(c)
  \/ Heartbeat(c)
  \/ \E code \in CloseCodes : EndLoop(c, code)
  \/ Disconnect(c) \/ Drain(c)

AnyServerNext ==
  \/ \E c \in Conns : AnyConnNext(c)
  \/ \E p \in Procs : DispatchNext(p)
  \/ \E p \in Publishers, u \in Users : Publish(p, u)
  \/ \E s \in Conns : Age(s)
  \/ Sweep \/ BroadcastReconnect \/ Restart

AnyServerSpec == ServerInit /\ [][AnyServerNext]_serverVars

\* A serve loop ends with one of the protocol's codes.
LEMMA CodesType ==
  /\ VERSION_TOO_OLD \in CloseCodes
  /\ \A c : EndCodes(c) \subseteq CloseCodes
  BY DEF EndCodes, CloseCodes

\* What ServerSpec explores is a part of it.
LEMMA ServerIsAny == ServerSpec => AnyServerSpec
<1>1. ASSUME ServerNext PROVE AnyServerNext
  <2>1. ASSUME NEW c \in Conns, ConnNext(c) PROVE AnyConnNext(c)
    <3>1. ASSUME NEW code, EndLoop(c, code) PROVE code \in CloseCodes
      BY <3>1, CodesType DEF EndLoop
    <3> QED
      BY <2>1, <3>1, LimitsAssumption DEF ConnNext, AnyConnNext
  <2> QED
    BY <1>1, <2>1 DEF ServerNext, AnyServerNext
<1>2. [ServerNext]_serverVars => [AnyServerNext]_serverVars
  BY <1>1
<1> QED
  BY <1>2, PTL DEF ServerSpec, AnyServerSpec

(***************************************************************************)
(* Which steps can touch what.                                             *)
(***************************************************************************)
\* Only attach, forget, the sweep and the end of the process write the registry.
LEMMA RegistryWriters ==
  ASSUME [AnyServerNext]_serverVars
  PROVE  \/ UNCHANGED registry
         \/ \E c \in Conns : Attach(c) \/ Forget(c)
         \/ Sweep \/ Restart
<1>1. ASSUME UNCHANGED serverVars PROVE UNCHANGED registry
  BY <1>1 DEF serverVars, registry
<1>2. ASSUME NEW c \in Conns, AnyConnNext(c)
      PROVE  UNCHANGED registry \/ Attach(c) \/ Forget(c)
  BY <1>2 DEF AnyConnNext, Accept, Identify, Resume, ReplayCheck, ReplayCollect, Reconnect,
     Replay, Heartbeat, EndLoop, Disconnect, Drain
<1>3. ASSUME NEW p \in Procs, DispatchNext(p) PROVE UNCHANGED registry
  BY <1>3 DEF DispatchNext, DispatchNumber, DispatchStore, DispatchSend
<1>4. ASSUME NEW p \in Publishers, NEW u \in Users, Publish(p, u) PROVE UNCHANGED registry
  BY <1>4 DEF Publish
<1>5. ASSUME NEW s \in Conns, Age(s) PROVE UNCHANGED registry
  BY <1>5 DEF Age
<1>6. ASSUME BroadcastReconnect PROVE UNCHANGED registry
  BY <1>6 DEF BroadcastReconnect
<1> QED
  BY <1>1, <1>2, <1>3, <1>4, <1>5, <1>6 DEF AnyServerNext

\* Only IDENTIFY and the inside of dispatch number and buffer frames.
LEMMA BufferWriters ==
  ASSUME [AnyServerNext]_serverVars
  PROVE  \/ UNCHANGED <<seq, buffer, evicted_through>>
         \/ \E c \in Conns : Identify(c)
         \/ \E p \in Procs : DispatchNumber(p) \/ DispatchStore(p)
<1>1. ASSUME UNCHANGED serverVars PROVE UNCHANGED <<seq, buffer, evicted_through>>
  BY <1>1 DEF serverVars
<1>2. ASSUME NEW c \in Conns, AnyConnNext(c)
      PROVE  UNCHANGED <<seq, buffer, evicted_through>> \/ Identify(c)
  BY <1>2 DEF AnyConnNext, Accept, Attach, Forget, Resume, ReplayCheck, ReplayCollect, Reconnect,
     Replay, Heartbeat, EndLoop, Disconnect, Drain, session
<1>3. ASSUME NEW p \in Procs, DispatchNext(p)
      PROVE  UNCHANGED <<seq, buffer, evicted_through>> \/ DispatchNumber(p) \/ DispatchStore(p)
  BY <1>3 DEF DispatchNext, DispatchSend, session
<1>4. ASSUME NEW p \in Publishers, NEW u \in Users, Publish(p, u)
      PROVE  UNCHANGED <<seq, buffer, evicted_through>>
  BY <1>4 DEF Publish, session
<1>5. ASSUME (\E s \in Conns : Age(s)) \/ Sweep \/ BroadcastReconnect \/ Restart
      PROVE  UNCHANGED <<seq, buffer, evicted_through>>
  BY <1>5 DEF Age, Sweep, BroadcastReconnect, Restart, session
<1> QED
  BY <1>1, <1>2, <1>3, <1>4, <1>5 DEF AnyServerNext

\* Who decides where a session's frames go.
LEMMA OutboxWriters ==
  ASSUME [AnyServerNext]_serverVars
  PROVE  \/ UNCHANGED outbox
         \/ \E c \in Conns : Identify(c) \/ Attach(c) \/ Reconnect(c) \/ Disconnect(c)
         \/ Restart
<1>1. ASSUME UNCHANGED serverVars PROVE UNCHANGED outbox
  BY <1>1 DEF serverVars
<1>2. ASSUME NEW c \in Conns, AnyConnNext(c)
      PROVE  UNCHANGED outbox \/ Identify(c) \/ Attach(c) \/ Reconnect(c) \/ Disconnect(c)
  BY <1>2 DEF AnyConnNext, Accept, Forget, Resume, ReplayCheck, ReplayCollect,
     Replay, Heartbeat, EndLoop, Drain, session
<1>3. ASSUME NEW p \in Procs, DispatchNext(p) PROVE UNCHANGED outbox
  BY <1>3 DEF DispatchNext, DispatchNumber, DispatchStore, DispatchSend, session
<1>4. ASSUME NEW p \in Publishers, NEW u \in Users, Publish(p, u) PROVE UNCHANGED outbox
  BY <1>4 DEF Publish, session
<1>5. ASSUME (\E s \in Conns : Age(s)) \/ Sweep \/ BroadcastReconnect PROVE UNCHANGED outbox
  BY <1>5 DEF Age, Sweep, BroadcastReconnect, session
<1> QED
  BY <1>1, <1>2, <1>3, <1>4, <1>5 DEF AnyServerNext

(***************************************************************************)
(* Types.                                                                  *)
(***************************************************************************)
LEMMA RegistryTypeStep ==
  ASSUME RegistryTypeOK, TaskTypeOK, [AnyServerNext]_serverVars
  PROVE  RegistryTypeOK'
<1>1. ASSUME UNCHANGED registry PROVE RegistryTypeOK'
  BY <1>1 DEF RegistryTypeOK, registry
<1>2. ASSUME NEW c \in Conns, Attach(c) PROVE RegistryTypeOK'
  <2>1. UserOf[c] \in Users
    BY ConnsAssumption
  <2>2. sessions' \subseteq Conns /\ attached' \in Nat /\ arrival' \in [Conns -> Nat]
    BY <1>2 DEF RegistryTypeOK, Attach
  <2>3. Owned(c) \ Excess(c) \in SUBSET Conns
    BY <2>1 DEF RegistryTypeOK, Owned
  <2> QED
    BY <1>2, <2>2, <2>3 DEF RegistryTypeOK, Attach
<1>3. ASSUME NEW c \in Conns, Forget(c) PROVE RegistryTypeOK'
  BY <1>3 DEF RegistryTypeOK, Forget, Without
<1>4. ASSUME Sweep \/ Restart PROVE RegistryTypeOK'
  BY <1>4 DEF RegistryTypeOK, Sweep, Restart, Without
<1> QED
  BY <1>1, <1>2, <1>3, <1>4, RegistryWriters

\* A task goes from one of its own program counters to another.
LEMMA GotoType ==
  ASSUME PcTypeOK, NEW p \in Procs, NEW l, Goto(p, l),
         p \in Conns => l \in ConnStates,
         p \in Publishers => l \in PubStates
  PROVE  PcTypeOK'
<1>1. l \in ConnStates \cup PubStates
  BY DEF Procs
<1>2. pc' \in [Procs -> ConnStates \cup PubStates]
  BY <1>1 DEF PcTypeOK, Goto
<1>3. \A x \in Procs : pc'[x] = IF x = p THEN l ELSE pc[x]
  BY DEF PcTypeOK, Goto
<1> QED
  BY <1>2, <1>3 DEF PcTypeOK, Procs

\* A process is always at one of its stages.
LEMMA PcTypeStep ==
  ASSUME PcTypeOK, [AnyServerNext]_serverVars
  PROVE  PcTypeOK'
<1>1. ASSUME UNCHANGED pc PROVE PcTypeOK'
  BY <1>1 DEF PcTypeOK
<1>2. ASSUME NEW c \in Conns, AnyConnNext(c) PROVE PcTypeOK'
  <2>1. UNCHANGED pc \/ \E l \in ConnStates : Goto(c, l)
    BY <1>2 DEF AnyConnNext, Accept, Identify, Attach, Forget, Resume, ReplayCheck, ReplayCollect,
       Reconnect, Replay, Heartbeat, EndLoop, Disconnect, Drain, task, ConnStates, Resuming,
       Closing
  <2> QED
    BY <1>1, <2>1, GotoType, Disjoint DEF Procs
<1>3. ASSUME NEW p \in Procs, DispatchNext(p) PROVE PcTypeOK'
  <2>1. \/ Goto(p, "store") \/ Goto(p, "send")
        \/ p \in Conns /\ Goto(p, "open")
        \/ p \in Publishers /\ (Goto(p, "idle") \/ Goto(p, "number"))
    BY <1>3 DEF DispatchNext, DispatchNumber, DispatchStore, DispatchSend
  <2>2. {"store", "send", "open"} \subseteq ConnStates
    BY DEF ConnStates, Resuming
  <2>3. {"store", "send", "idle", "number"} \subseteq PubStates
    BY DEF PubStates
  <2> QED
    BY <2>1, <2>2, <2>3, GotoType, Disjoint
<1>4. ASSUME NEW p \in Publishers, NEW u \in Users, Publish(p, u) PROVE PcTypeOK'
  <2>1. Goto(p, "number") /\ "number" \in PubStates
    BY <1>4 DEF Publish, PubStates
  <2> QED
    BY <2>1, GotoType, Disjoint DEF Procs
<1>5. ASSUME (\E s \in Conns : Age(s)) \/ Sweep \/ BroadcastReconnect PROVE UNCHANGED pc
  BY <1>5 DEF Age, Sweep, BroadcastReconnect, task
<1>6. ASSUME Restart PROVE PcTypeOK'
  <2>1. \A p \in Conns : pc'[p] \in {"off", "closed"}
    BY <1>6, Disjoint DEF Restart, Procs
  <2>2. \A p \in Publishers : pc'[p] = "idle"
    BY <1>6 DEF Restart, Procs
  <2>3. {"off", "closed"} \subseteq ConnStates /\ "idle" \in PubStates
    BY DEF ConnStates, PubStates
  <2>4. pc' \in [Procs -> ConnStates \cup PubStates]
    BY <1>6, <2>3 DEF Restart
  <2> QED
    BY <2>1, <2>2, <2>3, <2>4 DEF PcTypeOK
<1>7. ASSUME UNCHANGED serverVars PROVE UNCHANGED pc
  BY <1>7 DEF serverVars
<1> QED
  BY <1>1, <1>2, <1>3, <1>4, <1>5, <1>6, <1>7 DEF AnyServerNext

\* The ring's two operators, on any buffer and frame.
LEMMA PushType ==
  ASSUME NEW b \in Seq(Frames), NEW f \in Frames, NEW e \in Nat
  PROVE  /\ Push(b, f) \in Seq(Frames)
         /\ EvictedBy(b, e) \in Nat
<1>1. CASE Len(b) = BufferCapacity
  <2>1. b # <<>>
    BY <1>1, LimitsAssumption
  <2>2. Tail(b) \in Seq(Frames) /\ Head(b) \in Frames
    BY <2>1
  <2>3. Head(b).n \in Nat
    BY <2>2 DEF Frames
  <2> QED
    BY <1>1, <2>2, <2>3 DEF Push, EvictedBy
<1>2. CASE Len(b) # BufferCapacity
  BY <1>2 DEF Push, EvictedBy
<1> QED
  BY <1>1, <1>2

\* A dispatch of a session is a frame.
LEMMA DispatchType ==
  ASSUME NEW op \in DispatchOps, NEW s \in Conns \cup {None}, NEW n \in Nat
  PROVE  Dispatch(op, s, n) \in Frames
  BY DEF Dispatch, Frames

\* What a process dispatches is a dispatch.
LEMMA EventOfType == \A p : EventOf(p) \in DispatchOps
  BY DEF EventOf, DispatchOps

\* Ring, numbers and eviction marks keep their types.
LEMMA BufferTypeStep ==
  ASSUME SessionTypeOK, TaskTypeOK, [AnyServerNext]_serverVars
  PROVE  /\ seq' \in [Conns -> Nat]
         /\ buffer' \in [Conns -> Seq(Frames)]
         /\ evicted_through' \in [Conns -> Nat]
<1>1. CASE UNCHANGED <<seq, buffer, evicted_through>>
  BY <1>1 DEF SessionTypeOK
<1>2. ASSUME NEW c \in Conns, Identify(c)
      PROVE  /\ seq' \in [Conns -> Nat]
             /\ buffer' \in [Conns -> Seq(Frames)]
             /\ evicted_through' \in [Conns -> Nat]
  <2>1. Dispatch("READY", c, 1) \in Frames
    BY DispatchType DEF DispatchOps
  <2> DEFINE b == <<Dispatch("READY", c, 1)>>
  <2>2. b \in Seq(Frames)
    BY <2>1
  <2>3. /\ seq' = [seq EXCEPT ![c] = 1]
        /\ buffer' = [buffer EXCEPT ![c] = b]
        /\ evicted_through' = [evicted_through EXCEPT ![c] = 0]
    BY <1>2 DEF Identify
  <2> HIDE DEF b
  <2> QED
    BY <2>2, <2>3 DEF SessionTypeOK
<1>3. ASSUME NEW p \in Procs, DispatchNumber(p)
      PROVE  /\ seq' \in [Conns -> Nat]
             /\ buffer' \in [Conns -> Seq(Frames)]
             /\ evicted_through' \in [Conns -> Nat]
  <2>1. seq' = [seq EXCEPT ![sess[p]] = @ + 1] /\ UNCHANGED <<buffer, evicted_through>>
    BY <1>3 DEF DispatchNumber
  <2>2. seq \in [Conns -> Nat] /\ \A x \in Conns : seq[x] + 1 \in Nat
    BY DEF SessionTypeOK
  <2>3. seq' \in [Conns -> Nat]
    BY <2>1, <2>2
  <2> QED
    BY <2>1, <2>3 DEF SessionTypeOK
<1>4. ASSUME NEW p \in Procs, DispatchStore(p)
      PROVE  /\ seq' \in [Conns -> Nat]
             /\ buffer' \in [Conns -> Seq(Frames)]
             /\ evicted_through' \in [Conns -> Nat]
  <2> DEFINE f == Dispatch(EventOf(p), sess[p], num[p])
  <2>1. f \in Frames
    BY DispatchType, EventOfType DEF TaskTypeOK
  <2>2. \A x \in Conns : /\ Push(buffer[x], f) \in Seq(Frames)
                         /\ EvictedBy(buffer[x], evicted_through[x]) \in Nat
    BY <2>1, PushType DEF SessionTypeOK
  <2>3. /\ buffer' = [buffer EXCEPT ![sess[p]] = Push(@, f)]
        /\ evicted_through' = [evicted_through EXCEPT ![sess[p]] = EvictedBy(buffer[sess[p]], @)]
        /\ seq' = seq
    BY <1>4 DEF DispatchStore
  <2> HIDE DEF f
  <2> QED
    BY <2>2, <2>3 DEF SessionTypeOK
<1> QED
  BY <1>1, <1>2, <1>3, <1>4, BufferWriters

\* So do the fields that say whether and where a session is connected.
LEMMA LivenessTypeStep ==
  ASSUME SessionTypeOK, TaskTypeOK, [AnyServerNext]_serverVars
  PROVE  /\ outbox' \in [Conns -> Conns \cup {None}]
         /\ connected' \in [Conns -> BOOLEAN]
         /\ disconnected_at' \in [Conns -> {"none", "fresh", "stale"}]
<1> DEFINE Typed == /\ outbox \in [Conns -> Conns \cup {None}]
                    /\ connected \in [Conns -> BOOLEAN]
                    /\ disconnected_at \in [Conns -> {"none", "fresh", "stale"}]
<1>1. Typed
  BY DEF SessionTypeOK
<1>2. ASSUME UNCHANGED <<outbox, connected, disconnected_at>> PROVE Typed'
  BY <1>1, <1>2
<1>3. ASSUME NEW c \in Conns, Identify(c) PROVE Typed'
  BY <1>1, <1>3 DEF Identify
<1>4. ASSUME NEW c \in Conns, Attach(c) PROVE Typed'
  BY <1>1, <1>4 DEF Attach
<1>5. ASSUME NEW c \in Conns, Reconnect(c) PROVE Typed'
  BY <1>1, <1>5 DEF Reconnect
<1>6. ASSUME NEW c \in Conns, Disconnect(c) PROVE Typed'
  BY <1>1, <1>6 DEF Disconnect
<1>7. ASSUME NEW s \in Conns, Age(s) PROVE Typed'
  BY <1>1, <1>7 DEF Age
<1>8. ASSUME Restart PROVE Typed'
  BY <1>1, <1>8 DEF Restart
<1>9. ASSUME NEW c \in Conns, AnyConnNext(c)
      PROVE  \/ UNCHANGED <<outbox, connected, disconnected_at>>
             \/ Identify(c) \/ Attach(c) \/ Reconnect(c) \/ Disconnect(c)
  BY <1>9 DEF AnyConnNext, Accept, Forget, Resume, ReplayCheck, ReplayCollect, Replay,
     Heartbeat, EndLoop, Drain, session
<1>10. ASSUME NEW p \in Procs, DispatchNext(p)
       PROVE  UNCHANGED <<outbox, connected, disconnected_at>>
  BY <1>10 DEF DispatchNext, DispatchNumber, DispatchStore, DispatchSend, session
<1>11. ASSUME \/ \E p \in Publishers, u \in Users : Publish(p, u)
              \/ Sweep \/ BroadcastReconnect \/ UNCHANGED serverVars
       PROVE  UNCHANGED <<outbox, connected, disconnected_at>>
  BY <1>11 DEF Publish, Sweep, BroadcastReconnect, session, serverVars
<1> QED
  <2>1. Typed'
    <3> HIDE DEF Typed
    <3> QED
      BY <1>2, <1>3, <1>4, <1>5, <1>6, <1>7, <1>8, <1>9, <1>10, <1>11 DEF AnyServerNext
  <2> QED
    BY <2>1

\* Whoever is inside dispatch holds a session.
LEMMA DispatchHolds ==
  ASSUME TaskInv, NEW p \in Procs, pc[p] \in {"number", "store", "send"}
  PROVE  sess[p] \in Conns
  BY DEF TaskInv, TaskOK, Procs, Holding, Resuming

\* A task past IDENTIFY, or resuming, holds a session.
LEMMA ResumeHolds ==
  ASSUME TaskInv, NEW c \in Conns,
         pc[c] \in Resuming \cup {"attach", "open", "d_flag", "d_outbox", "d_time"}
  PROVE  sess[c] \in Conns
  BY DEF TaskInv, TaskOK, Holding

\* What a task holds keeps its type.
LEMMA TaskTypeStep ==
  ASSUME ServerTypeOK, TaskInv, [AnyServerNext]_serverVars
  PROVE  TaskTypeOK'
<1>0. RegistryTypeOK /\ SessionTypeOK /\ PcTypeOK /\ TaskTypeOK
  BY DEF ServerTypeOK
<1>1. ASSUME UNCHANGED <<sess, num, todo, last, missed, close_reason>> PROVE TaskTypeOK'
  BY <1>0, <1>1 DEF TaskTypeOK
<1>2. ASSUME NEW c \in Conns, Accept(c) PROVE TaskTypeOK'
  BY <1>0, <1>2, CodesType DEF TaskTypeOK, Accept
<1>3. ASSUME NEW c \in Conns, Identify(c) PROVE TaskTypeOK'
  BY <1>0, <1>3 DEF TaskTypeOK, Identify, Procs
<1>4. ASSUME NEW c \in Conns, NEW s \in Conns, NEW n \in Nat, Resume(c, s, n)
      PROVE  TaskTypeOK'
  <2>1. n \in Nat
    BY LimitsAssumption
  <2>2. UNCHANGED <<num, todo, missed, close_reason>>
    BY <1>4 DEF Resume
  <2>3. \/ UNCHANGED <<sess, last>>
        \/ sess' = [sess EXCEPT ![c] = s] /\ last' = [last EXCEPT ![c] = n]
    BY <1>4 DEF Resume
  <2>4. sess' \in [Procs -> Conns \cup {None}]
    BY <1>0, <2>3 DEF TaskTypeOK, Procs
  <2>5. last' \in [Conns -> Nat]
    BY <1>0, <2>1, <2>3 DEF TaskTypeOK
  <2> QED
    BY <1>0, <2>2, <2>4, <2>5 DEF TaskTypeOK
<1>5. ASSUME NEW c \in Conns, ReplayCollect(c) PROVE TaskTypeOK'
  <2>1. buffer[sess[c]] \in Seq(Frames)
    BY <1>0, <1>5, ResumeHolds DEF ReplayCollect, SessionTypeOK, Resuming
  <2> QED
    BY <1>0, <1>5, <2>1 DEF TaskTypeOK, ReplayCollect
<1>6. ASSUME NEW c \in Conns, Forget(c) PROVE TaskTypeOK'
  BY <1>0, <1>6 DEF TaskTypeOK, Forget, Procs
<1>7. ASSUME NEW c \in Conns, Replay(c) PROVE TaskTypeOK'
  <2>1. UNCHANGED <<sess, num, todo, last, close_reason>>
    BY <1>7 DEF Replay
  <2>2. UNCHANGED missed \/ (missed[c] # <<>> /\ missed' = [missed EXCEPT ![c] = Tail(@)])
    BY <1>7 DEF Replay
  <2>3. missed[c] # <<>> => Tail(missed[c]) \in Seq(Frames)
    BY <1>0 DEF TaskTypeOK
  <2> QED
    BY <1>0, <2>1, <2>2, <2>3 DEF TaskTypeOK
<1>8. ASSUME NEW c \in Conns, NEW code, EndLoop(c, code) PROVE TaskTypeOK'
  <2>1. code \in CloseCodes
    BY <1>8, CodesType DEF EndLoop
  <2> QED
    BY <1>0, <1>8, <2>1 DEF TaskTypeOK, EndLoop
<1>9. ASSUME NEW p \in Procs, DispatchNumber(p) PROVE TaskTypeOK'
  <2>1. seq[sess[p]] + 1 \in Nat
    BY <1>0, <1>9, DispatchHolds DEF DispatchNumber, SessionTypeOK
  <2> QED
    BY <1>0, <1>9, <2>1 DEF TaskTypeOK, DispatchNumber
<1>10. ASSUME NEW p \in Procs, DispatchSend(p) PROVE TaskTypeOK'
  <2>1. num' = [num EXCEPT ![p] = 0] /\ UNCHANGED <<last, missed, close_reason>>
    BY <1>10 DEF DispatchSend
  <2>2. \/ UNCHANGED <<sess, todo>>
        \/ UNCHANGED todo /\ sess' = [sess EXCEPT ![p] = None]
        \/ /\ p \in Publishers
           /\ \E s \in todo[p] : /\ sess' = [sess EXCEPT ![p] = s]
                                 /\ todo' = [todo EXCEPT ![p] = @ \ {s}]
    BY <1>10 DEF DispatchSend
  <2>3. p \in Publishers => todo[p] \subseteq Conns
    BY <1>0 DEF TaskTypeOK
  <2> QED
    BY <1>0, <2>1, <2>2, <2>3 DEF TaskTypeOK
<1>11. ASSUME NEW p \in Publishers, NEW u \in Users, Publish(p, u) PROVE TaskTypeOK'
  <2>1. PICK s \in by_user[u] \cap sessions :
          /\ sess' = [sess EXCEPT ![p] = s]
          /\ todo' = [todo EXCEPT ![p] = (by_user[u] \cap sessions) \ {s}]
    BY <1>11 DEF Publish
  <2>2. UNCHANGED <<num, last, missed, close_reason>>
    BY <1>11 DEF Publish
  <2>3. s \in Conns /\ (by_user[u] \cap sessions) \ {s} \subseteq Conns
    BY <1>0 DEF RegistryTypeOK
  <2> QED
    BY <1>0, <2>1, <2>2, <2>3 DEF TaskTypeOK, Procs
<1>12. ASSUME Restart PROVE TaskTypeOK'
  BY <1>0, <1>12 DEF TaskTypeOK, Restart
<1>13. ASSUME NEW c \in Conns,
              \/ Attach(c) \/ ReplayCheck(c) \/ Reconnect(c) \/ Heartbeat(c)
              \/ Disconnect(c) \/ Drain(c)
       PROVE  UNCHANGED <<sess, num, todo, last, missed, close_reason>>
  BY <1>13 DEF Attach, ReplayCheck, Reconnect, Heartbeat, Disconnect, Drain, task
<1>14. ASSUME NEW p \in Procs, DispatchStore(p)
       PROVE  UNCHANGED <<sess, num, todo, last, missed, close_reason>>
  BY <1>14 DEF DispatchStore
<1>15. ASSUME (\E s \in Conns : Age(s)) \/ Sweep \/ BroadcastReconnect \/ UNCHANGED serverVars
       PROVE  UNCHANGED <<sess, num, todo, last, missed, close_reason>>
  BY <1>15 DEF Age, Sweep, BroadcastReconnect, task, serverVars
<1> QED
  BY <1>1, <1>2, <1>3, <1>4, <1>5, <1>6, <1>7, <1>8, <1>9, <1>10, <1>11, <1>12, <1>13,
     <1>14, <1>15 DEF AnyServerNext, AnyConnNext, DispatchNext

\* Frames are queued for connections.
LEMMA SentTypeStep ==
  ASSUME ServerTypeOK, TaskInv, [AnyServerNext]_serverVars
  PROVE  sent' \subseteq Conns \X Frames
<1>0. SessionTypeOK /\ PcTypeOK /\ TaskTypeOK
  BY DEF ServerTypeOK
<1>1. ASSUME NEW op \in ControlOps PROVE Control(op) \in Frames
  BY <1>1 DEF Control, Frames
<1>2. {"HELLO", "HEARTBEAT_ACK", "INVALID_SESSION", "RECONNECT"} \subseteq ControlOps
  BY DEF ControlOps
<1>3. Close(0) \in Frames /\ Close(VERSION_TOO_OLD) \in Frames
  BY DEF Close, Frames, ControlOps, VERSION_TOO_OLD
<1>4. ASSUME NEW c \in Conns, NEW f \in Frames, Send(c, f)
      PROVE  sent' \subseteq Conns \X Frames
  BY <1>4 DEF Send
<1>5. ASSUME NEW s \in Conns, NEW f \in Frames, SendText(s, f)
      PROVE  sent' \subseteq Conns \X Frames
  <2>1. outbox[s] \in Conns \cup {None}
    BY <1>0 DEF SessionTypeOK
  <2> QED
    BY <1>5, <2>1 DEF SendText
<1>6. ASSUME Silent PROVE sent' \subseteq Conns \X Frames
  BY <1>6 DEF Silent
<1>7. ASSUME NEW S \in SUBSET Conns, NEW f \in Frames, sent' = S \X {f}
      PROVE  sent' \subseteq Conns \X Frames
  BY <1>7
<1>8. ASSUME NEW c \in Conns, Attach(c) PROVE sent' \subseteq Conns \X Frames
  <2> DEFINE told == {outbox[s] : s \in Excess(c) \cap sessions} \ {None}
  <2>1. told \subseteq Conns
    BY <1>0 DEF SessionTypeOK, ServerTypeOK, RegistryTypeOK
  <2>2. sent' = told \X {Control("RECONNECT")}
    BY <1>8 DEF Attach
  <2> HIDE DEF told
  <2> QED
    BY <1>1, <1>2, <1>7, <2>1, <2>2
<1>9. ASSUME NEW c \in Conns, Replay(c) PROVE sent' \subseteq Conns \X Frames
  <2>1. Silent \/ (missed[c] # <<>> /\ SendText(sess[c], Head(missed[c])))
    BY <1>9 DEF Replay
  <2>2. missed[c] # <<>> => Head(missed[c]) \in Frames
    BY <1>0 DEF TaskTypeOK
  <2>3. sess[c] \in Conns
    BY <1>9, ResumeHolds DEF Replay, Resuming
  <2> QED
    BY <1>5, <1>6, <2>1, <2>2, <2>3
<1>10. ASSUME NEW p \in Procs, DispatchSend(p) PROVE sent' \subseteq Conns \X Frames
  <2>1. SendText(sess[p], Dispatch(EventOf(p), sess[p], num[p]))
    BY <1>10 DEF DispatchSend
  <2>2. sess[p] \in Conns
    BY <1>10, DispatchHolds DEF DispatchSend
  <2>3. Dispatch(EventOf(p), sess[p], num[p]) \in Frames
    BY <1>0, <2>2, DispatchType, EventOfType DEF TaskTypeOK
  <2> QED
    BY <1>5, <2>1, <2>2, <2>3
<1>11. ASSUME NEW c \in Conns, Identify(c) PROVE sent' \subseteq Conns \X Frames
  <2>1. Dispatch("READY", c, 1) \in Frames
    BY DispatchType DEF DispatchOps
  <2> QED
    BY <1>4, <1>11, <2>1 DEF Identify
<1>12. ASSUME BroadcastReconnect PROVE sent' \subseteq Conns \X Frames
  <2> DEFINE told == {outbox[s] : s \in sessions} \ {None}
  <2>1. told \subseteq Conns
    BY <1>0 DEF SessionTypeOK, ServerTypeOK, RegistryTypeOK
  <2>2. sent' = told \X {Control("RECONNECT")}
    BY <1>12 DEF BroadcastReconnect
  <2> HIDE DEF told
  <2> QED
    BY <1>1, <1>2, <1>7, <2>1, <2>2
<1>13. ASSUME Restart PROVE sent' \subseteq Conns \X Frames
  <2> DEFINE told == {c \in Conns : pc[c] \notin {"off", "closed"}}
  <2>1. sent' = told \X {Close(0)} /\ told \subseteq Conns
    BY <1>13 DEF Restart
  <2> HIDE DEF told
  <2> QED
    BY <1>3, <1>7, <2>1
<1>14. ASSUME NEW c \in Conns,
              Accept(c) \/ Forget(c) \/ Heartbeat(c) \/ Drain(c)
       PROVE  sent' \subseteq Conns \X Frames
  <2>1. \/ Send(c, Control("HELLO")) \/ Send(c, Control("INVALID_SESSION"))
        \/ Send(c, Control("HEARTBEAT_ACK")) \/ Send(c, Close(0))
        \/ Send(c, Close(VERSION_TOO_OLD))
    BY <1>14 DEF Accept, Forget, Heartbeat, Drain
  <2> QED
    BY <1>1, <1>2, <1>3, <1>4, <2>1
<1>15. ASSUME NEW c \in Conns, NEW s \in Conns, NEW n \in Nat, Resume(c, s, n)
       PROVE  sent' \subseteq Conns \X Frames
  <2>1. Silent \/ Send(c, Control("INVALID_SESSION"))
    BY <1>15 DEF Resume
  <2> QED
    BY <1>1, <1>2, <1>4, <1>6, <2>1
<1>16. ASSUME NEW c \in Conns,
              \/ ReplayCheck(c) \/ ReplayCollect(c) \/ Reconnect(c) \/ Disconnect(c)
              \/ \E code \in CloseCodes : EndLoop(c, code)
       PROVE  Silent
  BY <1>16 DEF ReplayCheck, ReplayCollect, Reconnect, Disconnect, EndLoop
<1>17. ASSUME NEW p \in Procs, DispatchNumber(p) \/ DispatchStore(p) PROVE Silent
  BY <1>17 DEF DispatchNumber, DispatchStore
<1>18. ASSUME \/ \E p \in Publishers, u \in Users : Publish(p, u)
              \/ (\E s \in Conns : Age(s)) \/ Sweep
       PROVE  Silent
  BY <1>18 DEF Publish, Age, Sweep
<1>19. ASSUME UNCHANGED serverVars PROVE sent' \subseteq Conns \X Frames
  BY <1>19 DEF serverVars, ServerTypeOK
<1> QED
  BY <1>6, <1>8, <1>9, <1>10, <1>11, <1>12, <1>13, <1>14, <1>15, <1>16, <1>17, <1>18,
     <1>19 DEF AnyServerNext, AnyConnNext, DispatchNext

\* Every step keeps every variable in its type.
LEMMA TypeStep ==
  ASSUME ServerTypeOK, TaskInv, [AnyServerNext]_serverVars
  PROVE  ServerTypeOK'
<1>1. RegistryTypeOK /\ SessionTypeOK /\ PcTypeOK /\ TaskTypeOK
  BY DEF ServerTypeOK
<1>2. stopping' \in BOOLEAN /\ restarts' \in Nat
  <2>1. stopping \in BOOLEAN /\ restarts \in Nat
    BY DEF ServerTypeOK
  <2>2. \/ UNCHANGED <<stopping, restarts>>
        \/ stopping' = TRUE /\ UNCHANGED restarts
        \/ stopping' = FALSE /\ restarts' = restarts + 1
    <3>1. ASSUME NEW c \in Conns, AnyConnNext(c) PROVE UNCHANGED <<stopping, restarts>>
      BY <3>1 DEF AnyConnNext, Accept, Identify, Attach, Resume, ReplayCheck, ReplayCollect,
         Forget, Reconnect, Replay, Heartbeat, EndLoop, Disconnect, Drain, process
    <3>2. ASSUME NEW p \in Procs, DispatchNext(p) PROVE UNCHANGED <<stopping, restarts>>
      BY <3>2 DEF DispatchNext, DispatchNumber, DispatchStore, DispatchSend, process
    <3>3. ASSUME \/ \E p \in Publishers, u \in Users : Publish(p, u)
                 \/ (\E s \in Conns : Age(s)) \/ Sweep \/ UNCHANGED serverVars
          PROVE  UNCHANGED <<stopping, restarts>>
      BY <3>3 DEF Publish, Age, Sweep, process, serverVars
    <3> QED
      BY <3>1, <3>2, <3>3 DEF AnyServerNext, BroadcastReconnect, Restart
  <2>3. stopping' \in BOOLEAN
    BY <2>1, <2>2, Zenon
  <2>4. restarts' \in Nat
    BY <2>1, <2>2
  <2> QED
    BY <2>3, <2>4
<1> QED
  BY <1>1, <1>2, RegistryTypeStep, BufferTypeStep, LivenessTypeStep, PcTypeStep,
     TaskTypeStep, SentTypeStep DEF ServerTypeOK, SessionTypeOK

(***************************************************************************)
(* Tasks.                                                                  *)
(***************************************************************************)
TaskStep(p) == \/ p \in Conns /\ AnyConnNext(p)
               \/ DispatchNext(p)
               \/ p \in Publishers /\ \E u \in Users : Publish(p, u)

\* A task's step leaves every other task where it is.
LEMMA Local ==
  ASSUME ServerTypeOK, NEW p \in Procs, TaskStep(p), NEW x \in Procs, x # p
  PROVE  /\ pc'[x] = pc[x] /\ sess'[x] = sess[x] /\ num'[x] = num[x]
         /\ x \in Conns => missed'[x] = missed[x] /\ arrival'[x] = arrival[x]
         /\ x \in Publishers => todo'[x] = todo[x]
<1>0. PcTypeOK /\ TaskTypeOK /\ RegistryTypeOK
  BY DEF ServerTypeOK
<1> DEFINE Put(f, g) == \E v : g = [f EXCEPT ![p] = v]
<1>1. UNCHANGED pc \/ Put(pc, pc')
  BY DEF TaskStep, AnyConnNext, DispatchNext, Accept, Identify, Attach, Resume, ReplayCheck,
     ReplayCollect, Forget, Reconnect, Replay, DispatchNumber, DispatchStore, DispatchSend,
     Publish, Heartbeat, EndLoop, Disconnect, Drain, Goto, task
<1>2. UNCHANGED sess \/ Put(sess, sess')
  BY DEF TaskStep, AnyConnNext, DispatchNext, Accept, Identify, Attach, Resume, ReplayCheck,
     ReplayCollect, Forget, Reconnect, Replay, DispatchNumber, DispatchStore, DispatchSend,
     Publish, Heartbeat, EndLoop, Disconnect, Drain, task
<1>3. UNCHANGED num \/ Put(num, num')
  BY DEF TaskStep, AnyConnNext, DispatchNext, Accept, Identify, Attach, Resume, ReplayCheck,
     ReplayCollect, Forget, Reconnect, Replay, DispatchNumber, DispatchStore, DispatchSend,
     Publish, Heartbeat, EndLoop, Disconnect, Drain, task
<1>4. UNCHANGED missed \/ Put(missed, missed')
  BY DEF TaskStep, AnyConnNext, DispatchNext, Accept, Identify, Attach, Resume, ReplayCheck,
     ReplayCollect, Forget, Reconnect, Replay, DispatchNumber, DispatchStore, DispatchSend,
     Publish, Heartbeat, EndLoop, Disconnect, Drain, task
<1>5. UNCHANGED arrival \/ Put(arrival, arrival')
  BY DEF TaskStep, AnyConnNext, DispatchNext, Accept, Identify, Attach, Resume, ReplayCheck,
     ReplayCollect, Forget, Reconnect, Replay, DispatchNumber, DispatchStore, DispatchSend,
     Publish, Heartbeat, EndLoop, Disconnect, Drain, registry
<1>6. UNCHANGED todo \/ Put(todo, todo')
  BY DEF TaskStep, AnyConnNext, DispatchNext, Accept, Identify, Attach, Resume, ReplayCheck,
     ReplayCollect, Forget, Reconnect, Replay, DispatchNumber, DispatchStore, DispatchSend,
     Publish, Heartbeat, EndLoop, Disconnect, Drain, task
<1> QED
  BY <1>0, <1>1, <1>2, <1>3, <1>4, <1>5, <1>6 DEF PcTypeOK, TaskTypeOK, RegistryTypeOK

\* The steps of no task leave all tasks where they are, but for the process's end.
LEMMA StepOfWhom ==
  ASSUME [AnyServerNext]_serverVars
  PROVE  \/ \E p \in Procs : TaskStep(p)
         \/ UNCHANGED <<task, arrival>>
         \/ Restart
<1>1. ASSUME (\E s \in Conns : Age(s)) \/ Sweep \/ BroadcastReconnect \/ UNCHANGED serverVars
      PROVE  UNCHANGED <<task, arrival>>
  BY <1>1 DEF Age, Sweep, BroadcastReconnect, registry, task, serverVars
<1> QED
  BY <1>1 DEF AnyServerNext, TaskStep, Procs

\* What a connection's own step makes of TaskOK.
LEMMA ConnTaskStep ==
  ASSUME ServerTypeOK, TaskInv, ArrivalInv, SessionInv, NEW c \in Conns, TaskStep(c)
  PROVE  TaskOK(c)'
<1>0. /\ PcTypeOK /\ TaskTypeOK /\ RegistryTypeOK /\ SessionTypeOK
      /\ TaskOK(c) /\ c \in Procs /\ c # None /\ c \notin Publishers
  BY ConnsAssumption, Disjoint DEF ServerTypeOK, TaskInv, Procs
<1>1. CASE Accept(c)
  BY <1>0, <1>1 DEF Accept, TaskOK, Goto, PcTypeOK, Holding, Resuming, registry
<1>2. CASE Identify(c)
  <2>1. arrival[c] = 0
    BY <1>0, <1>2 DEF Identify, SessionInv, Fresh, Untouched
  <2> QED
    BY <1>0, <1>2, <2>1 DEF Identify, TaskOK, Goto, PcTypeOK, TaskTypeOK, Holding, Resuming, registry
<1>3. CASE Attach(c)
  BY <1>0, <1>3 DEF Attach, TaskOK, Goto, PcTypeOK, Holding, Resuming
<1>4. ASSUME NEW s \in Conns, NEW n \in Nat, Resume(c, s, n) PROVE TaskOK(c)'
  BY <1>0, <1>4 DEF Resume, Resumable, TaskOK, Goto, PcTypeOK, TaskTypeOK, Holding, Resuming, registry
<1>5. CASE ReplayCheck(c)
  BY <1>0, <1>5 DEF ReplayCheck, TaskOK, Goto, PcTypeOK, Holding, Resuming, registry
<1>6. CASE ReplayCollect(c)
  BY <1>0, <1>6 DEF ReplayCollect, TaskOK, Goto, PcTypeOK, Holding, Resuming, registry
<1>7. CASE Forget(c)
  BY <1>0, <1>7 DEF Forget, TaskOK, Goto, PcTypeOK, TaskTypeOK, Holding, Resuming
<1>8. CASE Reconnect(c)
  BY <1>0, <1>8 DEF Reconnect, TaskOK, Goto, PcTypeOK, Holding, Resuming, registry
<1>9. CASE Replay(c)
  BY <1>0, <1>9 DEF Replay, TaskOK, Goto, PcTypeOK, Holding, Resuming, registry
<1>10. CASE Heartbeat(c)
  BY <1>0, <1>10 DEF Heartbeat, TaskOK, registry, task
<1>11. ASSUME NEW code, EndLoop(c, code) PROVE TaskOK(c)'
  BY <1>0, <1>11 DEF EndLoop, TaskOK, Goto, PcTypeOK, TaskTypeOK, Holding, Resuming, registry
<1>12. CASE Disconnect(c)
  BY <1>0, <1>12 DEF Disconnect, TaskOK, Goto, PcTypeOK, Holding, Resuming, registry
<1>13. CASE Drain(c)
  BY <1>0, <1>13 DEF Drain, TaskOK, Goto, PcTypeOK, Holding, Resuming, registry
<1>14. CASE DispatchNumber(c) \/ DispatchStore(c)
  BY <1>0, <1>14 DEF DispatchNumber, DispatchStore, TaskOK, Goto, PcTypeOK, Holding, Resuming, registry
<1>15. CASE DispatchSend(c)
  BY <1>0, <1>15 DEF DispatchSend, TaskOK, Goto, PcTypeOK, Holding, Resuming, registry
<1> QED
  BY <1>0, <1>1, <1>2, <1>3, <1>4, <1>5, <1>6, <1>7, <1>8, <1>9, <1>10, <1>11, <1>12, <1>13,
     <1>14, <1>15 DEF TaskStep, AnyConnNext, DispatchNext

\* Who may hold which session at which stage.
LEMMA TaskInvStep ==
  ASSUME ServerTypeOK, TaskInv, ArrivalInv, SessionInv, [AnyServerNext]_serverVars
  PROVE  TaskInv'
<1>0. /\ PcTypeOK /\ TaskTypeOK /\ RegistryTypeOK /\ SessionTypeOK
      /\ Conns \subseteq Procs /\ Publishers \subseteq Procs
  BY DEF ServerTypeOK, Procs
<1>1. ASSUME NEW p \in Procs, TaskStep(p) PROVE TaskInv'
  <2>1. ASSUME NEW c \in Conns, c # p PROVE TaskOK(c)'
    <3>1. TaskOK(c)
      BY DEF TaskInv
    <3>2. pc'[c] = pc[c] /\ sess'[c] = sess[c] /\ missed'[c] = missed[c] /\ arrival'[c] = arrival[c]
      BY <1>0, <1>1, <2>1, Local
    <3> QED
      BY <3>1, <3>2 DEF TaskOK
  <2>2. p \in Conns => TaskOK(p)'
    BY <1>1, ConnTaskStep
  <2>3. ASSUME NEW q \in Publishers, q # p, pc'[q] # "idle" PROVE sess'[q] \in Conns
    BY <1>0, <1>1, <2>3, Local DEF TaskInv
  <2>4. ASSUME p \in Publishers, pc'[p] # "idle" PROVE sess'[p] \in Conns
    <3>0. p \notin Conns /\ (pc[p] # "idle" => sess[p] \in Conns)
      BY <2>4, Disjoint DEF TaskInv
    <3>1. CASE \E u \in Users : Publish(p, u)
      <4>1. PICK u \in Users : Publish(p, u)
        BY <3>1
      <4>2. PICK s \in by_user[u] \cap sessions : sess' = [sess EXCEPT ![p] = s]
        BY <4>1 DEF Publish
      <4> QED
        BY <1>0, <4>2 DEF RegistryTypeOK, TaskTypeOK
    <3>2. CASE DispatchNumber(p) \/ DispatchStore(p)
      BY <3>0, <3>2 DEF DispatchNumber, DispatchStore
    <3>3. CASE DispatchSend(p)
      <4>1. CASE Goto(p, "idle")
        BY <1>0, <2>4, <4>1 DEF Goto, PcTypeOK
      <4>2. ASSUME NEW s \in todo[p], sess' = [sess EXCEPT ![p] = s] PROVE sess'[p] \in Conns
        <5>1. sess'[p] = s
          BY <1>0, <4>2 DEF TaskTypeOK
        <5>2. todo[p] \subseteq Conns
          BY <1>0, <2>4 DEF TaskTypeOK
        <5> QED
          BY <5>1, <5>2
      <4>3. Goto(p, "idle") \/ \E s \in todo[p] : sess' = [sess EXCEPT ![p] = s]
        BY <3>0, <3>3, <2>4 DEF DispatchSend
      <4> QED
        BY <4>1, <4>2, <4>3
    <3> QED
      BY <1>1, <3>0, <3>1, <3>2, <3>3 DEF TaskStep, DispatchNext
  <2> QED
    BY <2>1, <2>2, <2>3, <2>4 DEF TaskInv
<1>2. CASE UNCHANGED <<task, arrival>>
  BY <1>2 DEF TaskInv, TaskOK, task
<1>3. CASE Restart
  <2>1. ASSUME NEW c \in Conns PROVE TaskOK(c)'
    <3>1. pc'[c] \in {"off", "closed"} /\ sess'[c] = None /\ missed'[c] = <<>>
      BY <1>0, <1>3, Disjoint DEF Restart
    <3> QED
      BY <3>1 DEF TaskOK, Holding, Resuming
  <2>2. \A p \in Publishers : pc'[p] = "idle"
    BY <1>0, <1>3 DEF Restart
  <2> QED
    BY <2>1, <2>2 DEF TaskInv
<1> QED
  BY <1>1, <1>2, <1>3, StepOfWhom

(***************************************************************************)
(* Sessions.                                                               *)
(***************************************************************************)
\* A connection that has left the handshake does not come back to it.
LEMMA FreshBack ==
  ASSUME ServerTypeOK, [AnyServerNext]_serverVars, NEW c \in Conns, pc'[c] \in Fresh
  PROVE  pc[c] \in Fresh
<1>0. PcTypeOK /\ c \in Procs /\ c \notin Publishers
  BY Disjoint DEF ServerTypeOK, Procs
<1>1. ASSUME NEW p \in Procs, TaskStep(p), p # c PROVE pc'[c] = pc[c]
  BY <1>0, <1>1, Local
<1>2. CASE TaskStep(c)
  <2>1. \/ pc[c] \in Fresh
        \/ UNCHANGED pc
        \/ \E l \in {"open", "closed", "d_flag", "d_outbox", "d_time", "drain"} : Goto(c, l)
    <3>1. CASE AnyConnNext(c)
      <4>1. CASE Accept(c) \/ Identify(c) \/ \E s \in Conns, n \in Nat : Resume(c, s, n)
        BY <4>1 DEF Accept, Identify, Resume, Fresh
      <4>2. CASE \/ ReplayCheck(c) \/ ReplayCollect(c) \/ Forget(c) \/ Reconnect(c) \/ Replay(c)
        BY <4>2 DEF ReplayCheck, ReplayCollect, Forget, Reconnect, Replay, Fresh, Resuming
      <4>3. CASE Attach(c) \/ Heartbeat(c) \/ Disconnect(c) \/ Drain(c)
        BY <4>3 DEF Attach, Heartbeat, Disconnect, Drain, task
      <4>4. ASSUME NEW code, EndLoop(c, code)
            PROVE  Goto(c, "drain") \/ Goto(c, "d_flag")
        BY <4>4 DEF EndLoop
      <4> QED
        BY <3>1, <4>1, <4>2, <4>3, <4>4 DEF AnyConnNext
    <3>2. CASE DispatchNext(c)
      BY <3>2 DEF DispatchNext, DispatchNumber, DispatchStore, DispatchSend, Fresh, Resuming
    <3> QED
      BY <1>0, <1>2, <3>1, <3>2 DEF TaskStep
  <2>2. ASSUME NEW l \in {"open", "closed", "d_flag", "d_outbox", "d_time", "drain"}, Goto(c, l)
        PROVE  FALSE
    BY <1>0, <2>2 DEF Goto, PcTypeOK, Fresh, Resuming
  <2> QED
    BY <2>1, <2>2
<1>3. CASE UNCHANGED <<task, arrival>>
  BY <1>3 DEF task
<1>4. CASE Restart
  BY <1>0, <1>4 DEF Restart, Fresh, Resuming
<1> QED
  BY <1>1, <1>2, <1>3, <1>4, StepOfWhom

\* Sequence numbers only grow, and IDENTIFY alone starts them.
LEMMA SeqGrows ==
  ASSUME ServerTypeOK, TaskInv, SessionInv, [AnyServerNext]_serverVars, NEW s \in Conns
  PROVE  /\ seq'[s] >= seq[s]
         /\ seq[s] = 0 /\ seq'[s] # 0 => Identify(s)
<1>0. seq \in [Conns -> Nat]
  BY DEF ServerTypeOK, SessionTypeOK
<1>1. CASE UNCHANGED <<seq, buffer, evicted_through>>
  BY <1>0, <1>1
<1>2. ASSUME NEW c \in Conns, Identify(c)
      PROVE  seq'[s] >= seq[s] /\ (seq[s] = 0 /\ seq'[s] # 0 => Identify(s))
  <2>1. seq[c] = 0
    BY <1>2 DEF Identify, SessionInv, Fresh
  <2>2. seq' = [seq EXCEPT ![c] = 1]
    BY <1>2 DEF Identify
  <2> QED
    BY <1>0, <1>2, <2>1, <2>2
<1>3. ASSUME NEW p \in Procs, DispatchNumber(p)
      PROVE  seq'[s] >= seq[s] /\ (seq[s] = 0 => seq'[s] = 0)
  <2>1. seq' = [seq EXCEPT ![sess[p]] = @ + 1]
    BY <1>3 DEF DispatchNumber
  <2>2. seq[s] = 0 => sess[p] # s
    BY DEF SessionInv, Untouched
  <2> QED
    BY <1>0, <2>1, <2>2
<1>4. ASSUME NEW p \in Procs, DispatchStore(p) PROVE seq' = seq
  BY <1>4 DEF DispatchStore
<1> QED
  BY <1>0, <1>1, <1>2, <1>3, <1>4, BufferWriters

\* A session that does not exist after a step was nowhere before it, and is not
\* anywhere now.
LEMMA UntouchedStep ==
  ASSUME ServerTypeOK, TaskInv, SessionInv, [AnyServerNext]_serverVars,
         NEW s \in Conns, Untouched(s), seq'[s] = 0
  PROVE  Untouched(s)'
<1>0. /\ RegistryTypeOK /\ SessionTypeOK /\ PcTypeOK /\ TaskTypeOK
      /\ Conns \subseteq Procs /\ Publishers \subseteq Procs /\ s # None
  BY ConnsAssumption DEF ServerTypeOK, Procs
<1>1. \A c \in Conns : Identify(c) => c # s
  BY <1>0 DEF Identify, SessionTypeOK
<1>2. \A c \in Conns : Attach(c) => c # s
  BY <1>0 DEF Attach, TaskInv, TaskOK, Untouched
<1>3. arrival'[s] = 0 /\ s \notin sessions'
  <2>1. CASE UNCHANGED registry
    BY <2>1 DEF registry, Untouched
  <2>2. ASSUME NEW c \in Conns, Attach(c) PROVE arrival'[s] = 0 /\ s \notin sessions'
    BY <1>0, <1>2, <2>2 DEF Attach, Untouched, RegistryTypeOK
  <2>3. CASE (\E c \in Conns : Forget(c)) \/ Sweep \/ Restart
    BY <2>3 DEF Forget, Sweep, Restart, Untouched
  <2> QED
    BY <2>1, <2>2, <2>3, RegistryWriters
<1>4. buffer'[s] = <<>>
  <2>1. CASE UNCHANGED <<seq, buffer, evicted_through>>
    BY <2>1 DEF Untouched
  <2>2. ASSUME NEW c \in Conns, Identify(c) PROVE buffer'[s] = buffer[s]
    BY <1>0, <1>1, <2>2 DEF Identify, SessionTypeOK
  <2>3. ASSUME NEW p \in Procs, DispatchNumber(p) PROVE buffer'[s] = buffer[s]
    BY <2>3 DEF DispatchNumber
  <2>4. ASSUME NEW p \in Procs, DispatchStore(p) PROVE buffer'[s] = buffer[s]
    BY <1>0, <2>4 DEF DispatchStore, Untouched, SessionTypeOK
  <2> QED
    BY <2>1, <2>2, <2>3, <2>4, BufferWriters DEF Untouched
<1>5. outbox'[s] = None
  <2>1. CASE UNCHANGED outbox
    BY <2>1 DEF Untouched
  <2>2. ASSUME NEW c \in Conns, Identify(c) PROVE outbox'[s] = outbox[s]
    BY <1>0, <1>1, <2>2 DEF Identify, SessionTypeOK
  <2>3. ASSUME NEW c \in Conns, Attach(c) PROVE outbox'[s] \in {outbox[s], None}
    BY <1>0, <2>3 DEF Attach
  <2>4. ASSUME NEW c \in Conns, Reconnect(c) PROVE outbox'[s] = outbox[s]
    BY <1>0, <2>4 DEF Reconnect, SessionTypeOK, Untouched
  <2>5. ASSUME NEW c \in Conns, Disconnect(c) PROVE outbox'[s] \in {outbox[s], None}
    BY <1>0, <2>5 DEF Disconnect, SessionTypeOK
  <2>6. CASE Restart
    BY <2>6 DEF Restart
  <2> QED
    BY <2>1, <2>2, <2>3, <2>4, <2>5, <2>6, OutboxWriters DEF Untouched
<1>6. /\ \A p \in Procs : sess'[p] # s
      /\ \A p \in Publishers : s \notin todo'[p]
  <2>1. ASSUME NEW p \in Procs, TaskStep(p)
        PROVE  sess'[p] # s /\ (p \in Publishers => s \notin todo'[p])
    <3>0. /\ sess[p] # s /\ (p \in Publishers => s \notin todo[p])
          /\ s \notin sessions
      BY DEF Untouched
    <3>1. ASSUME NEW c \in Conns, NEW x \in Conns, NEW n \in Nat, Resume(c, x, n), p = c
          PROVE  sess'[p] # s
      BY <1>0, <3>0, <3>1 DEF Resume, Resumable, TaskTypeOK
    <3>2. ASSUME p \in Conns, Identify(p) \/ Forget(p) PROVE sess'[p] # s
      BY <1>0, <1>1, <3>2 DEF Identify, Forget, TaskTypeOK
    <3>3. ASSUME p \in Conns, AnyConnNext(p),
                 ~Identify(p), ~Forget(p), ~ \E x \in Conns, n \in Nat : Resume(p, x, n)
          PROVE  UNCHANGED sess
      BY <3>3 DEF AnyConnNext, Accept, Attach, ReplayCheck, ReplayCollect, Reconnect, Replay,
         Heartbeat, EndLoop, Disconnect, Drain, task
    <3>4. ASSUME p \in Conns, AnyConnNext(p) PROVE UNCHANGED todo
      BY <3>4 DEF AnyConnNext, Accept, Identify, Attach, Resume, ReplayCheck, ReplayCollect,
         Forget, Reconnect, Replay, Heartbeat, EndLoop, Disconnect, Drain, task
    <3>5. ASSUME DispatchNumber(p) \/ DispatchStore(p) PROVE UNCHANGED <<sess, todo>>
      BY <3>5 DEF DispatchNumber, DispatchStore
    <3>6. ASSUME DispatchSend(p)
          PROVE  sess'[p] # s /\ (p \in Publishers => s \notin todo'[p])
      <4>1. \/ UNCHANGED <<sess, todo>>
            \/ UNCHANGED todo /\ sess' = [sess EXCEPT ![p] = None]
            \/ /\ p \in Publishers
               /\ \E x \in todo[p] : /\ sess' = [sess EXCEPT ![p] = x]
                                     /\ todo' = [todo EXCEPT ![p] = @ \ {x}]
        BY <3>6 DEF DispatchSend
      <4> QED
        BY <1>0, <3>0, <4>1 DEF TaskTypeOK
    <3>7. ASSUME p \in Publishers, NEW u \in Users, Publish(p, u)
          PROVE  sess'[p] # s /\ s \notin todo'[p]
      <4>1. PICK x \in by_user[u] \cap sessions :
              /\ sess' = [sess EXCEPT ![p] = x]
              /\ todo' = [todo EXCEPT ![p] = (by_user[u] \cap sessions) \ {x}]
        BY <3>7 DEF Publish
      <4> QED
        BY <1>0, <3>0, <3>7, <4>1 DEF TaskTypeOK
    <3> QED
      BY <2>1, <3>0, <3>1, <3>2, <3>3, <3>4, <3>5, <3>6, <3>7 DEF TaskStep, DispatchNext
  <2>2. ASSUME NEW p \in Procs, TaskStep(p), NEW q \in Procs, q # p
        PROVE  sess'[q] # s /\ (q \in Publishers => s \notin todo'[q])
    BY <2>2, Local DEF Untouched
  <2>3. CASE UNCHANGED <<task, arrival>>
    BY <2>3 DEF task, Untouched
  <2>4. CASE Restart
    BY <1>0, <2>4 DEF Restart
  <2> QED
    BY <1>0, <2>1, <2>2, <2>3, <2>4, StepOfWhom
<1> QED
  BY <1>3, <1>4, <1>5, <1>6 DEF Untouched

\* A session is nowhere before its IDENTIFY.
LEMMA SessionInvStep ==
  ASSUME ServerTypeOK, TaskInv, SessionInv, [AnyServerNext]_serverVars
  PROVE  SessionInv'
<1>1. ASSUME NEW s \in Conns, pc'[s] \in Fresh PROVE seq'[s] = 0
  <2>1. seq[s] = 0
    BY <1>1, FreshBack DEF SessionInv
  <2>2. ~Identify(s)
    BY <1>1 DEF Identify, Goto, ServerTypeOK, PcTypeOK, Procs, Fresh, Resuming
  <2> QED
    BY <2>1, <2>2, SeqGrows
<1>2. ASSUME NEW s \in Conns, seq'[s] = 0 PROVE Untouched(s)'
  <2>1. seq[s] = 0
    BY <1>2, SeqGrows DEF ServerTypeOK, SessionTypeOK
  <2> QED
    BY <1>2, <2>1, UntouchedStep DEF SessionInv
<1> QED
  BY <1>1, <1>2 DEF SessionInv

(***************************************************************************)
(* Frames.                                                                 *)
(***************************************************************************)
\* Where the frames of a buffer are after a push: moved down by one when the
\* buffer was full, with the new frame at the end.
LEMMA PushElements ==
  ASSUME NEW b \in Seq(Frames), Len(b) <= BufferCapacity, NEW f \in Frames
  PROVE  \E k \in {0, 1} :
           /\ Len(Push(b, f)) = Len(b) + 1 - k
           /\ Len(Push(b, f)) <= BufferCapacity
           /\ k <= Len(b) /\ (k = 1 => Len(b) = BufferCapacity)
           /\ \A i \in 1..(Len(b) - k) : Push(b, f)[i] = b[i + k]
           /\ Push(b, f)[Len(b) + 1 - k] = f
<1>0. BufferCapacity \in Nat /\ BufferCapacity # 0 /\ Len(b) \in Nat
  BY LimitsAssumption
<1>1. CASE Len(b) = BufferCapacity
  <2> DEFINE t == Tail(b)
  <2>1. b # <<>>
    BY <1>0, <1>1
  <2>2. /\ t \in Seq(Frames) /\ Len(t) = Len(b) - 1
        /\ \A i \in 1..(Len(b) - 1) : t[i] = b[i + 1]
    BY <2>1
  <2>3. Push(b, f) = Append(t, f)
    BY <1>1 DEF Push
  <2> HIDE DEF t
  <2>4. /\ Len(Append(t, f)) = Len(t) + 1
        /\ \A i \in 1..Len(t) : Append(t, f)[i] = t[i]
        /\ Append(t, f)[Len(t) + 1] = f
    BY <2>2
  <2>5. WITNESS 1 \in {0, 1}
  <2> QED
    BY <1>0, <1>1, <2>2, <2>3, <2>4
<1>2. CASE Len(b) # BufferCapacity
  <2>1. Push(b, f) = Append(b, f)
    BY <1>2 DEF Push
  <2>2. /\ Len(Append(b, f)) = Len(b) + 1
        /\ \A i \in 1..Len(b) : Append(b, f)[i] = b[i]
        /\ Append(b, f)[Len(b) + 1] = f
    OBVIOUS
  <2>3. WITNESS 0 \in {0, 1}
  <2> QED
    BY <1>0, <1>2, <2>1, <2>2
<1> QED
  BY <1>1, <1>2

\* The frame a dispatch stores.
LEMMA StoreStep ==
  ASSUME ServerTypeOK, TaskInv, NEW p \in Procs, DispatchStore(p)
  PROVE  \E f \in Frames :
           /\ f.op = EventOf(p) /\ f.sess = sess[p] /\ f.n = num[p]
           /\ sess[p] \in Conns
           /\ \A s \in Conns : buffer'[s] = IF s = sess[p] THEN Push(buffer[s], f) ELSE buffer[s]
           /\ UNCHANGED <<seq, sess, num>>
<1> DEFINE f == Dispatch(EventOf(p), sess[p], num[p])
<1>1. sess[p] \in Conns
  BY DispatchHolds DEF DispatchStore
<1>2. f \in Frames
  BY <1>1, DispatchType, EventOfType DEF ServerTypeOK, TaskTypeOK
<1>3. f.op = EventOf(p) /\ f.sess = sess[p] /\ f.n = num[p]
  BY DEF Dispatch
<1>4. buffer' = [buffer EXCEPT ![sess[p]] = Push(@, f)] /\ UNCHANGED <<seq, sess, num>>
  BY DEF DispatchStore
<1>5. buffer \in [Conns -> Seq(Frames)]
  BY DEF ServerTypeOK, SessionTypeOK
<1> HIDE DEF f
<1> QED
  BY <1>1, <1>2, <1>3, <1>4, <1>5

\* Frames carry the session they were numbered for.
LEMMA FrameInvStep ==
  ASSUME ServerTypeOK, TaskInv, FrameInv, BufferBounded, [AnyServerNext]_serverVars
  PROVE  FrameInv'
<1>0. SessionTypeOK /\ PcTypeOK /\ TaskTypeOK /\ Conns \subseteq Procs
  BY DEF ServerTypeOK, Procs
<1>1. ASSUME NEW s \in Conns, NEW i \in DOMAIN buffer'[s] PROVE buffer'[s][i].sess = s
  <2>1. CASE UNCHANGED <<seq, buffer, evicted_through>>
    BY <1>1, <2>1 DEF FrameInv
  <2>2. ASSUME NEW c \in Conns, Identify(c) PROVE buffer'[s][i].sess = s
    <3>1. CASE c = s
      <4>1. buffer'[s] = <<Dispatch("READY", s, 1)>>
        BY <1>0, <2>2, <3>1 DEF Identify, SessionTypeOK
      <4>2. i = 1
        BY <1>1, <4>1
      <4> QED
        BY <4>1, <4>2 DEF Dispatch
    <3>2. CASE c # s
      BY <1>0, <1>1, <2>2, <3>2 DEF Identify, SessionTypeOK, FrameInv
    <3> QED
      BY <3>1, <3>2
  <2>3. ASSUME NEW p \in Procs, DispatchNumber(p) PROVE buffer'[s][i].sess = s
    BY <1>1, <2>3 DEF DispatchNumber, FrameInv
  <2>4. ASSUME NEW p \in Procs, DispatchStore(p) PROVE buffer'[s][i].sess = s
    <3>1. PICK f \in Frames :
            /\ f.sess = sess[p]
            /\ buffer'[s] = IF s = sess[p] THEN Push(buffer[s], f) ELSE buffer[s]
      BY <2>4, StoreStep
    <3>2. CASE s # sess[p]
      BY <1>1, <3>1, <3>2 DEF FrameInv
    <3>3. CASE s = sess[p]
      <4>1. buffer[s] \in Seq(Frames) /\ Len(buffer[s]) <= BufferCapacity
        BY <1>0 DEF SessionTypeOK, BufferBounded
      <4>2. PICK k \in {0, 1} :
              /\ Len(Push(buffer[s], f)) = Len(buffer[s]) + 1 - k
              /\ k <= Len(buffer[s])
              /\ \A j \in 1..(Len(buffer[s]) - k) : Push(buffer[s], f)[j] = buffer[s][j + k]
              /\ Push(buffer[s], f)[Len(buffer[s]) + 1 - k] = f
        BY <4>1, PushElements
      <4>3. i \in 1..(Len(buffer[s]) + 1 - k) /\ Len(buffer[s]) \in Nat
        <5>1. 0 \in Nat
          OBVIOUS
        <5>2. Push(buffer[s], f) \in Seq(Frames)
          BY <4>1, <5>1, PushType
        <5>3. i \in DOMAIN Push(buffer[s], f)
          BY <1>1, <3>1, <3>3
        <5>4. i \in 1..Len(Push(buffer[s], f))
          BY <5>2, <5>3
        <5> QED
          BY <4>1, <4>2, <5>4
      <4>4. CASE i = Len(buffer[s]) + 1 - k
        BY <3>1, <3>3, <4>2, <4>4
      <4>5. CASE i # Len(buffer[s]) + 1 - k
        <5>1. i \in 1..(Len(buffer[s]) - k) /\ i + k \in DOMAIN buffer[s]
          BY <4>1, <4>2, <4>3, <4>5
        <5> QED
          BY <3>1, <3>3, <4>2, <5>1 DEF FrameInv
      <4> QED
        BY <4>4, <4>5
    <3> QED
      BY <3>2, <3>3
  <2> QED
    BY <2>1, <2>2, <2>3, <2>4, BufferWriters
<1>2. ASSUME NEW c \in Conns, NEW i \in DOMAIN missed'[c]
      PROVE  missed'[c][i].sess = sess'[c]
  <2>1. ASSUME NEW p \in Procs, TaskStep(p), p # c PROVE missed'[c][i].sess = sess'[c]
    BY <1>0, <1>2, <2>1, Local DEF FrameInv
  <2>2. ASSUME TaskStep(c), missed'[c] = missed[c] PROVE missed'[c][i].sess = sess'[c]
    <3>1. TaskOK(c) /\ c \notin Publishers
      BY Disjoint DEF TaskInv
    <3>2. CASE sess' = sess
      BY <1>2, <2>2, <3>2 DEF FrameInv
    <3>3. CASE sess' # sess
      <4>1. pc[c] \in {"hello", "forget", "send"}
        BY <2>2, <3>1, <3>3 DEF TaskStep, AnyConnNext, DispatchNext, Accept, Identify, Attach, Resume,
           ReplayCheck, ReplayCollect, Forget, Reconnect, Replay, DispatchNumber,
           DispatchStore, DispatchSend, Heartbeat, EndLoop, Disconnect, Drain, task
      <4>2. missed[c] = <<>>
        BY <3>1, <4>1 DEF TaskOK
      <4> QED
        BY <1>2, <2>2, <4>2
    <3> QED
      BY <3>2, <3>3
  <2>3. ASSUME TaskStep(c), missed'[c] # missed[c] PROVE missed'[c][i].sess = sess'[c]
    <3>1. ReplayCollect(c) \/ Replay(c)
      BY <2>3, Disjoint DEF TaskStep, AnyConnNext, DispatchNext, Accept, Identify, Attach, Resume,
         ReplayCheck, Forget, Reconnect, DispatchNumber, DispatchStore, DispatchSend,
         Heartbeat, EndLoop, Disconnect, Drain, task
    <3>2. CASE ReplayCollect(c)
      <4>1. sess[c] \in Conns
        BY <3>2, ResumeHolds DEF ReplayCollect, Resuming
      <4>2. missed'[c] = buffer[sess[c]] /\ sess' = sess
        BY <1>0, <3>2 DEF ReplayCollect, TaskTypeOK
      <4> QED
        BY <1>2, <4>1, <4>2 DEF FrameInv
    <3>3. CASE Replay(c)
      <4>1. missed[c] # <<>> /\ missed'[c] = Tail(missed[c]) /\ sess' = sess
        BY <1>0, <2>3, <3>3 DEF Replay, TaskTypeOK
      <4>2. missed[c] \in Seq(Frames)
        BY <1>0 DEF TaskTypeOK
      <4>3. i + 1 \in DOMAIN missed[c] /\ Tail(missed[c])[i] = missed[c][i + 1]
        BY <1>2, <4>1, <4>2
      <4> QED
        BY <4>1, <4>3 DEF FrameInv
    <3> QED
      BY <3>1, <3>2, <3>3
  <2>4. CASE UNCHANGED <<task, arrival>>
    BY <1>2, <2>4 DEF task, FrameInv
  <2>5. CASE Restart
    BY <1>2, <2>5 DEF Restart
  <2> QED
    BY <2>1, <2>2, <2>3, <2>4, <2>5, StepOfWhom
<1> QED
  BY <1>1, <1>2 DEF FrameInv

\* The bound on the buffer.
LEMMA BufferBoundedStep ==
  ASSUME ServerTypeOK, TaskInv, BufferBounded, [AnyServerNext]_serverVars
  PROVE  BufferBounded'
<1>0. SessionTypeOK
  BY DEF ServerTypeOK
<1>1. CASE UNCHANGED <<seq, buffer, evicted_through>>
  BY <1>1 DEF BufferBounded
<1>2. ASSUME NEW c \in Conns, Identify(c), NEW s \in Conns
      PROVE  Len(buffer'[s]) <= BufferCapacity
  <2>1. buffer'[s] = buffer[s] \/ buffer'[s] = <<Dispatch("READY", c, 1)>>
    BY <1>0, <1>2 DEF Identify, SessionTypeOK
  <2>2. 1 <= BufferCapacity
    BY LimitsAssumption
  <2> QED
    BY <2>1, <2>2 DEF BufferBounded
<1>3. ASSUME NEW p \in Procs, DispatchNumber(p) PROVE UNCHANGED buffer
  BY <1>3 DEF DispatchNumber
<1>4. ASSUME NEW p \in Procs, DispatchStore(p), NEW s \in Conns
      PROVE  Len(buffer'[s]) <= BufferCapacity
  <2>1. buffer[s] \in Seq(Frames) /\ Len(buffer[s]) <= BufferCapacity
    BY <1>0 DEF SessionTypeOK, BufferBounded
  <2>2. PICK f \in Frames : buffer'[s] = IF s = sess[p] THEN Push(buffer[s], f) ELSE buffer[s]
    BY <1>4, StoreStep
  <2>3. Len(Push(buffer[s], f)) <= BufferCapacity
    BY <2>1, PushElements
  <2> QED
    BY <2>1, <2>2, <2>3
<1> QED
  BY <1>1, <1>2, <1>3, <1>4, BufferWriters DEF BufferBounded

(***************************************************************************)
(* Sequence numbers.                                                       *)
(***************************************************************************)
\* Only DispatchNumber makes a task one that is about to store a frame.
LEMMA StoreBack ==
  ASSUME ServerTypeOK, [AnyServerNext]_serverVars, NEW q \in Procs,
         pc'[q] = "store", ~DispatchNumber(q)
  PROVE  pc[q] = "store" /\ sess'[q] = sess[q] /\ num'[q] = num[q]
<1>0. PcTypeOK
  BY DEF ServerTypeOK
<1>1. ASSUME NEW p \in Procs, TaskStep(p), p # q
      PROVE  pc[q] = "store" /\ sess'[q] = sess[q] /\ num'[q] = num[q]
  BY <1>1, Local
<1>2. CASE TaskStep(q)
  <2>1. \/ UNCHANGED <<pc, sess, num>>
        \/ \E l \in (ConnStates \cup PubStates) \ {"store"} : Goto(q, l)
    <3>1. CASE AnyConnNext(q)
      <4>1. CASE Accept(q) \/ Identify(q) \/ Attach(q) \/ \E s \in Conns, n \in Nat : Resume(q, s, n)
        BY <4>1 DEF Accept, Identify, Attach, Resume, ConnStates, Resuming
      <4>2. CASE ReplayCheck(q) \/ ReplayCollect(q) \/ Forget(q) \/ Reconnect(q) \/ Replay(q)
        BY <4>2 DEF ReplayCheck, ReplayCollect, Forget, Reconnect, Replay, ConnStates, Resuming
      <4>3. CASE Heartbeat(q)
        BY <4>3 DEF Heartbeat, task
      <4>4. ASSUME NEW code, EndLoop(q, code) PROVE Goto(q, "drain") \/ Goto(q, "d_flag")
        BY <4>4 DEF EndLoop
      <4>5. CASE Disconnect(q) \/ Drain(q)
        BY <4>5 DEF Disconnect, Drain, ConnStates, Closing
      <4>6. {"drain", "d_flag"} \subseteq ConnStates \ {"store"}
        BY DEF ConnStates, Closing
      <4> QED
        BY <3>1, <4>1, <4>2, <4>3, <4>4, <4>5, <4>6 DEF AnyConnNext
    <3>2. CASE DispatchNext(q)
      BY <3>2 DEF DispatchNext, DispatchStore, DispatchSend, ConnStates, PubStates, Resuming
    <3>3. ASSUME NEW u \in Users, Publish(q, u) PROVE Goto(q, "number")
      BY <3>3 DEF Publish
    <3>4. "number" \in PubStates \ {"store"}
      BY DEF PubStates
    <3> QED
      BY <1>2, <3>1, <3>2, <3>3, <3>4 DEF TaskStep
  <2>2. ASSUME NEW l \in (ConnStates \cup PubStates) \ {"store"}, Goto(q, l) PROVE FALSE
    BY <1>0, <2>2 DEF Goto, PcTypeOK
  <2> QED
    BY <2>1, <2>2
<1>3. CASE UNCHANGED <<task, arrival>>
  BY <1>3 DEF task
<1>4. CASE Restart
  BY <1>4 DEF Restart, Procs
<1> QED
  BY <1>1, <1>2, <1>3, <1>4, StepOfWhom

\* No number is given twice.
LEMMA SequenceStep ==
  ASSUME ServerTypeOK, TaskInv, SessionInv, BufferBounded, SequenceNeverRepeats,
         [AnyServerNext]_serverVars
  PROVE  SequenceNeverRepeats'
<1> DEFINE
     Distinct(s) == \A i, j \in DOMAIN buffer[s] : buffer[s][i].n = buffer[s][j].n => i = j
     Known(s)    == \A i \in DOMAIN buffer[s] :
                      /\ buffer[s][i].n \in 1..seq[s]
                      /\ \A p \in Procs :
                           pc[p] = "store" /\ sess[p] = s => num[p] # buffer[s][i].n
     Apart(s)    == \A p, q \in Procs :
                      /\ pc[p] = "store" /\ pc[q] = "store"
                      /\ sess[p] = s /\ sess[q] = s /\ num[p] = num[q]
                      => p = q
     Taken(s)    == \A p \in Procs : pc[p] = "store" /\ sess[p] = s => num[p] \in 1..seq[s]
     Good(s)     == Distinct(s) /\ Known(s) /\ Apart(s) /\ Taken(s)
<1>0. SessionTypeOK /\ PcTypeOK /\ TaskTypeOK /\ Conns \subseteq Procs
  BY DEF ServerTypeOK, Procs
<1>1. SequenceNeverRepeats <=> \A s \in Conns : Good(s)
  BY DEF SequenceNeverRepeats, Numbers, Storing
<1>2. SequenceNeverRepeats' <=> \A s \in Conns : Good(s)'
  BY DEF SequenceNeverRepeats, Numbers, Storing
<1>3. SUFFICES ASSUME NEW s \in Conns PROVE Good(s)'
  BY <1>2
<1>4. Good(s) /\ seq[s] \in Nat /\ buffer[s] \in Seq(Frames) /\ Len(buffer[s]) <= BufferCapacity
  BY <1>0, <1>1 DEF SessionTypeOK, BufferBounded
<1>5. ASSUME UNCHANGED <<seq, buffer>>, \A p \in Procs : ~DispatchNumber(p) PROVE Good(s)'
  <2>1. \A q \in Procs : pc'[q] = "store" => /\ pc[q] = "store"
                                             /\ sess'[q] = sess[q] /\ num'[q] = num[q]
    BY <1>5, StoreBack
  <2> QED
    BY <1>4, <1>5, <2>1
<1>6. ASSUME NEW c \in Conns, Identify(c) PROVE Good(s)'
  <2>1. \A q \in Procs : ~DispatchNumber(q) \/ pc'[q] # "store"
    <3>1. ASSUME NEW q \in Procs, DispatchNumber(q) PROVE pc'[q] # "store"
      <4>1. pc[c] = "hello" /\ pc[q] = "number" /\ pc' = [pc EXCEPT ![c] = "attach"]
        BY <1>6, <3>1 DEF Identify, DispatchNumber, Goto
      <4> QED
        BY <1>0, <4>1 DEF PcTypeOK
    <3> QED
      BY <3>1
  <2>2. \A q \in Procs : pc'[q] = "store" => /\ pc[q] = "store"
                                             /\ sess'[q] = sess[q] /\ num'[q] = num[q]
    BY <2>1, StoreBack
  <2>3. CASE s = c
    <3>1. \A q \in Procs : sess[q] # s
      BY <1>6, <2>3 DEF Identify, SessionInv, Fresh, Untouched
    <3>2. buffer'[s] = <<Dispatch("READY", s, 1)>> /\ seq'[s] = 1
      BY <1>0, <1>6, <2>3 DEF Identify, SessionTypeOK
    <3>3. \A i \in DOMAIN buffer'[s] : i = 1 /\ buffer'[s][i].n = 1
      BY <3>2 DEF Dispatch
    <3> QED
      BY <2>2, <3>1, <3>2, <3>3
  <2>4. CASE s # c
    <3>1. buffer'[s] = buffer[s] /\ seq'[s] = seq[s]
      BY <1>0, <1>6, <2>4 DEF Identify, SessionTypeOK
    <3> QED
      BY <1>4, <2>2, <3>1
  <2> QED
    BY <2>3, <2>4
<1>7. ASSUME NEW p \in Procs, DispatchNumber(p) PROVE Good(s)'
  <2>1. /\ \A q \in Procs : q # p => pc'[q] = pc[q] /\ sess'[q] = sess[q] /\ num'[q] = num[q]
        /\ sess'[p] = sess[p] /\ num'[p] = seq[sess[p]] + 1
        /\ \A t \in Conns : seq'[t] = IF t = sess[p] THEN seq[t] + 1 ELSE seq[t]
        /\ buffer' = buffer
    BY <1>0, <1>7 DEF DispatchNumber, Goto, PcTypeOK, TaskTypeOK, SessionTypeOK
  <2>2. CASE s = sess[p]
    <3>1. seq'[s] = seq[s] + 1 /\ num'[p] = seq[s] + 1
      BY <2>1, <2>2
    <3>2. Distinct(s)'
      BY <1>4, <2>1
    <3>3. Taken(s)'
      BY <1>4, <2>1, <3>1
    <3>4. Apart(s)'
      <4>1. \A q \in Procs : q # p /\ pc[q] = "store" /\ sess[q] = s => num[q] # seq[s] + 1
        BY <1>4
      <4> QED
        BY <1>4, <2>1, <3>1, <4>1
    <3>5. Known(s)'
      <4>1. \A i \in DOMAIN buffer[s] : /\ buffer[s][i].n \in 1..(seq[s] + 1)
                                        /\ buffer[s][i].n # seq[s] + 1
        BY <1>4
      <4> QED
        BY <1>4, <2>1, <3>1, <4>1
    <3> QED
      BY <3>2, <3>3, <3>4, <3>5
  <2>3. CASE s # sess[p]
    BY <1>4, <2>1, <2>3
  <2> QED
    BY <2>2, <2>3
<1>8. ASSUME NEW p \in Procs, DispatchStore(p) PROVE Good(s)'
  <2>1. PICK f \in Frames :
          /\ f.n = num[p]
          /\ buffer'[s] = IF s = sess[p] THEN Push(buffer[s], f) ELSE buffer[s]
          /\ UNCHANGED <<seq, sess, num>>
    BY <1>8, StoreStep
  <2>2. /\ pc[p] = "store" /\ pc'[p] = "send"
        /\ \A q \in Procs : q # p => pc'[q] = pc[q]
    BY <1>0, <1>8 DEF DispatchStore, Goto, PcTypeOK
  <2>3. Apart(s)' /\ Taken(s)'
    BY <1>4, <2>1, <2>2
  <2>4. CASE s # sess[p]
    BY <1>4, <2>1, <2>2, <2>3, <2>4
  <2>5. CASE s = sess[p]
    <3> DEFINE b == buffer[s]
               new == Push(buffer[s], f)
    <3>1. PICK k \in {0, 1} :
            /\ Len(new) = Len(b) + 1 - k
            /\ k <= Len(b)
            /\ \A j \in 1..(Len(b) - k) : new[j] = b[j + k]
            /\ new[Len(b) + 1 - k] = f
      BY <1>4, PushElements
    <3>2. new \in Seq(Frames) /\ Len(b) \in Nat
      <4>1. 0 \in Nat
        OBVIOUS
      <4>2. new \in Seq(Frames)
        BY <1>4, <4>1, PushType
      <4> QED
        BY <1>4, <4>2
    <3>3. DOMAIN new = 1..(Len(b) + 1 - k) /\ DOMAIN b = 1..Len(b)
      BY <1>4, <3>1, <3>2
    <3>4. buffer'[s] = new
      BY <2>1, <2>5
    <3>5. \A i \in DOMAIN b : b[i].n # num[p]
      BY <1>4, <2>2, <2>5
    <3>6. \A i \in DOMAIN new : \/ i = Len(b) + 1 - k /\ new[i].n = num[p]
                                \/ /\ i \in 1..(Len(b) - k) /\ i + k \in DOMAIN b
                                   /\ new[i].n = b[i + k].n /\ new[i].n # num[p]
      <4>1. ASSUME NEW i \in DOMAIN new, i = Len(b) + 1 - k PROVE new[i].n = num[p]
        BY <2>1, <3>1, <4>1
      <4>2. ASSUME NEW i \in DOMAIN new, i # Len(b) + 1 - k
            PROVE  /\ i \in 1..(Len(b) - k) /\ i + k \in DOMAIN b
                   /\ new[i].n = b[i + k].n /\ new[i].n # num[p]
        <5>1. i \in 1..(Len(b) - k) /\ i + k \in DOMAIN b
          BY <3>1, <3>2, <3>3, <4>2
        <5> QED
          BY <3>1, <3>5, <5>1
      <4> QED
        BY <4>1, <4>2
    <3>7. Distinct(s)'
      <4>1. ASSUME NEW i \in DOMAIN new, NEW j \in DOMAIN new, new[i].n = new[j].n PROVE i = j
        <5>1. CASE new[i].n = num[p]
          BY <3>6, <4>1, <5>1
        <5>2. CASE new[i].n # num[p]
          <6>1. /\ i \in 1..(Len(b) - k) /\ i + k \in DOMAIN b /\ new[i].n = b[i + k].n
                /\ j \in 1..(Len(b) - k) /\ j + k \in DOMAIN b /\ new[j].n = b[j + k].n
            BY <3>6, <4>1, <5>2
          <6>2. b[i + k].n = b[j + k].n
            BY <4>1, <6>1
          <6>3. i + k = j + k
            BY <1>4, <6>1, <6>2
          <6> QED
            BY <3>1, <3>2, <6>1, <6>3
        <5> QED
          BY <5>1, <5>2
      <4> QED
        BY <3>4, <4>1
    <3>8. Known(s)'
      <4>1. ASSUME NEW i \in DOMAIN new
            PROVE  /\ new[i].n \in 1..seq[s]
                   /\ \A q \in Procs : pc'[q] = "store" /\ sess[q] = s => num[q] # new[i].n
        <5>1. CASE new[i].n = num[p]
          BY <1>4, <2>2, <2>5, <5>1
        <5>2. CASE new[i].n # num[p]
          <6>1. i + k \in DOMAIN b /\ new[i].n = b[i + k].n
            BY <3>6, <4>1, <5>2
          <6> QED
            BY <1>4, <2>2, <6>1
        <5> QED
          BY <5>1, <5>2
      <4> QED
        BY <2>1, <3>4, <4>1
    <3> QED
      BY <2>3, <3>7, <3>8
  <2> QED
    BY <2>4, <2>5
<1> QED
  BY <1>5, <1>6, <1>7, <1>8, BufferWriters

(***************************************************************************)
(* Whom a session feeds.                                                   *)
(***************************************************************************)
\* A connection that may be fed goes on holding its session, until it has emptied
\* the session's outbox.
LEMMA FeedStep ==
  ASSUME ServerTypeOK, TaskInv, NEW c \in Conns, TaskStep(c), pc[c] \in Feedable
  PROVE  \/ sess'[c] = sess[c] /\ pc'[c] \in Feedable
         \/ Disconnect(c) /\ pc[c] = "d_outbox"
<1>0. PcTypeOK /\ TaskTypeOK /\ TaskOK(c) /\ c \in Procs /\ c \notin Publishers
  BY Disjoint DEF ServerTypeOK, TaskInv, Procs
<1>1. CASE Attach(c) \/ Reconnect(c) \/ Replay(c) \/ Heartbeat(c) \/ Disconnect(c)
  BY <1>0, <1>1 DEF Attach, Reconnect, Replay, Heartbeat, Disconnect, Goto, PcTypeOK, Feedable, task
<1>2. ASSUME NEW code, EndLoop(c, code) PROVE sess'[c] = sess[c] /\ pc'[c] \in Feedable
  <2>1. pc[c] = "open" /\ sess[c] \in Conns
    BY <1>0, <1>2, ResumeHolds DEF EndLoop, Feedable
  <2>2. pc' = [pc EXCEPT ![c] = "d_flag"] /\ sess' = sess
    BY <1>2, <2>1, ConnsAssumption DEF EndLoop, Goto
  <2> QED
    BY <1>0, <2>2 DEF PcTypeOK, Feedable
<1>3. CASE DispatchNext(c)
  BY <1>0, <1>3 DEF DispatchNext, DispatchNumber, DispatchStore, DispatchSend, Goto, PcTypeOK, Feedable
<1>4. CASE \/ Accept(c) \/ Identify(c) \/ (\E s \in Conns, n \in Nat : Resume(c, s, n))
           \/ ReplayCheck(c) \/ ReplayCollect(c) \/ Forget(c) \/ Drain(c)
  BY <1>4 DEF Accept, Identify, Resume, ReplayCheck, ReplayCollect, Forget, Drain, Feedable
<1> QED
  BY <1>0, <1>1, <1>2, <1>3, <1>4 DEF TaskStep, AnyConnNext

\* An outbox is the queue of a task that holds the session.
LEMMA OutboxStep ==
  ASSUME ServerTypeOK, TaskInv, OutboxIsLive, [AnyServerNext]_serverVars
  PROVE  OutboxIsLive'
<1>0. /\ SessionTypeOK /\ PcTypeOK /\ TaskTypeOK /\ None \notin Conns
      /\ Conns \subseteq Procs
  BY ConnsAssumption DEF ServerTypeOK, Procs
<1> DEFINE Fed(s) == /\ outbox[s] \in Conns /\ sess[outbox[s]] = s
                     /\ pc[outbox[s]] \in Feedable
<1>1. SUFFICES ASSUME NEW s \in Conns, outbox'[s] # None PROVE Fed(s)'
  BY DEF OutboxIsLive
\* A session whose outbox stays as it is.
<1>2. ASSUME outbox'[s] = outbox[s],
             \A c \in Conns : Disconnect(c) /\ pc[c] = "d_outbox" => sess[c] # s,
             ~Restart
      PROVE  Fed(s)'
  <2> DEFINE o == outbox[s]
  <2>1. Fed(s)
    BY <1>1, <1>2 DEF OutboxIsLive
  <2>2. o \in Conns /\ o \in Procs
    BY <1>0, <2>1
  <2>3. sess'[o] = sess[o] /\ pc'[o] \in Feedable
    <3>1. ASSUME NEW p \in Procs, TaskStep(p), p # o PROVE sess'[o] = sess[o] /\ pc'[o] = pc[o]
      BY <2>2, <3>1, Local
    <3>2. CASE TaskStep(o)
      BY <1>2, <2>1, <2>2, <3>2, FeedStep
    <3>3. CASE UNCHANGED <<task, arrival>>
      BY <2>1, <3>3 DEF task
    <3> QED
      BY <1>2, <2>1, <3>1, <3>2, <3>3, StepOfWhom
  <2> QED
    BY <1>2, <2>1, <2>2, <2>3
<1>3. ASSUME NEW c \in Conns, Identify(c) PROVE Fed(s)'
  <2>1. pc[c] = "hello" /\ pc'[c] = "attach" /\ sess'[c] = c
    BY <1>0, <1>3 DEF Identify, Goto, PcTypeOK, TaskTypeOK
  <2>2. outbox' = [outbox EXCEPT ![c] = c]
    BY <1>3 DEF Identify
  <2>3. CASE s = c
    BY <1>0, <2>1, <2>2, <2>3 DEF SessionTypeOK, Feedable
  <2>4. CASE s # c
    <3>1. outbox'[s] = outbox[s] /\ Fed(s)
      BY <1>0, <1>1, <2>2, <2>4 DEF SessionTypeOK, OutboxIsLive
    <3>2. outbox[s] # c
      BY <2>1, <3>1 DEF Feedable
    <3>3. sess'[outbox[s]] = sess[outbox[s]] /\ pc'[outbox[s]] = pc[outbox[s]]
      BY <1>0, <1>3, <3>1, <3>2, Local DEF TaskStep, AnyConnNext
    <3> QED
      BY <3>1, <3>3
  <2> QED
    BY <2>3, <2>4
<1>4. ASSUME NEW c \in Conns, Attach(c) PROVE Fed(s)'
  <2>1. outbox'[s] = outbox[s]
    BY <1>0, <1>1, <1>4 DEF Attach
  <2>2. Fed(s)
    BY <1>1, <2>1 DEF OutboxIsLive
  <2>3. pc[c] = "attach" /\ pc'[c] = "open" /\ sess' = sess
    BY <1>0, <1>4 DEF Attach, Goto, PcTypeOK
  <2>4. pc'[outbox[s]] \in Feedable
    <3>1. CASE outbox[s] = c
      BY <2>3, <3>1 DEF Feedable
    <3>2. CASE outbox[s] # c
      BY <1>0, <1>4, <2>2, <3>2, Local DEF TaskStep, AnyConnNext
    <3> QED
      BY <3>1, <3>2
  <2> QED
    BY <2>1, <2>2, <2>3, <2>4
<1>5. ASSUME NEW c \in Conns, Reconnect(c) PROVE Fed(s)'
  <2>1. sess' = sess /\ pc[c] \in {"rc_outbox", "rc_time", "rc_flag"}
    BY <1>5 DEF Reconnect
  <2>2. CASE pc[c] = "rc_outbox" /\ s = sess[c]
    <3>1. outbox'[s] = c /\ pc'[c] = "rc_time"
      BY <1>0, <1>5, <2>2 DEF Reconnect, Goto, PcTypeOK, SessionTypeOK
    <3> QED
      BY <2>1, <2>2, <3>1 DEF Feedable
  <2>3. CASE ~(pc[c] = "rc_outbox" /\ s = sess[c])
    <3>1. outbox'[s] = outbox[s]
      BY <1>0, <1>5, <2>3 DEF Reconnect, SessionTypeOK
    <3>2. Fed(s)
      BY <1>1, <3>1 DEF OutboxIsLive
    <3>3. pc'[outbox[s]] \in Feedable
      <4>1. CASE outbox[s] = c
        <5>1. pc'[c] \in {"rc_time", "rc_flag", "replay"}
          BY <1>0, <1>5 DEF Reconnect, Goto, PcTypeOK
        <5> QED
          BY <4>1, <5>1 DEF Feedable
      <4>2. CASE outbox[s] # c
        BY <1>0, <1>5, <3>2, <4>2, Local DEF TaskStep, AnyConnNext
      <4> QED
        BY <4>1, <4>2
    <3> QED
      BY <2>1, <3>1, <3>2, <3>3
  <2> QED
    BY <2>2, <2>3
<1>6. ASSUME NEW c \in Conns, Disconnect(c) PROVE Fed(s)'
  <2>1. sess' = sess
    BY <1>6 DEF Disconnect
  <2>2. outbox'[s] = outbox[s] /\ ~(pc[c] = "d_outbox" /\ s = sess[c])
    BY <1>0, <1>1, <1>6 DEF Disconnect, SessionTypeOK
  <2>3. Fed(s)
    BY <1>1, <2>2 DEF OutboxIsLive
  <2>4. pc'[outbox[s]] \in Feedable
    <3>1. CASE outbox[s] = c
      <4>1. pc[c] = "d_flag" /\ pc'[c] = "d_outbox"
        BY <1>0, <1>6, <2>2, <2>3, <3>1 DEF Disconnect, Goto, PcTypeOK, Feedable
      <4> QED
        BY <3>1, <4>1 DEF Feedable
    <3>2. CASE outbox[s] # c
      BY <1>0, <1>6, <2>3, <3>2, Local DEF TaskStep, AnyConnNext
    <3> QED
      BY <3>1, <3>2
  <2> QED
    BY <2>1, <2>2, <2>3, <2>4
<1>7. ~Restart
  BY <1>1 DEF Restart
<1>8. CASE UNCHANGED outbox /\ \A c \in Conns : ~Disconnect(c)
  BY <1>2, <1>7, <1>8
<1> QED
  BY <1>3, <1>4, <1>5, <1>6, <1>7, <1>8, OutboxWriters

\* A frame of a session goes to connections of its own user only.
LEMMA OwnFramesStep ==
  ASSUME ServerTypeOK, TaskInv, FrameInv, OutboxIsLive, OnlyOwnFrames,
         [AnyServerNext]_serverVars
  PROVE  OnlyOwnFrames'
<1>0. SessionTypeOK /\ PcTypeOK /\ TaskTypeOK /\ None \notin Conns
  BY ConnsAssumption DEF ServerTypeOK
<1>1. ASSUME \A x \in sent' : x[2].op \notin DispatchOps PROVE OnlyOwnFrames'
  BY <1>1 DEF OnlyOwnFrames
<1>2. ASSUME NEW s \in Conns, NEW f, f.sess = s, SendText(s, f) PROVE OnlyOwnFrames'
  <2>1. outbox[s] # None => UserOf[outbox[s]] = UserOf[s]
    BY <1>0 DEF OutboxIsLive, TaskInv, TaskOK
  <2>2. ASSUME NEW x \in sent' PROVE x = <<outbox[s], f>> /\ outbox[s] # None
    BY <1>2, <2>2 DEF SendText
  <2>3. ASSUME NEW x \in sent' PROVE UserOf[x[2].sess] = UserOf[x[1]]
    BY <1>2, <2>1, <2>2
  <2> QED
    BY <2>3 DEF OnlyOwnFrames
<1>3. ASSUME NEW S, NEW f, f.op \notin DispatchOps, sent' \subseteq S \X {f} PROVE OnlyOwnFrames'
  BY <1>1, <1>3
<1>4. \A op \in ControlOps : Control(op).op \notin DispatchOps
  BY DEF Control, ControlOps, DispatchOps
<1>5. \A n : Close(n).op \notin DispatchOps
  BY DEF Close, DispatchOps
<1>6. {"HELLO", "HEARTBEAT_ACK", "INVALID_SESSION", "RECONNECT"} \subseteq ControlOps
  BY DEF ControlOps
<1>7. ASSUME Silent PROVE OnlyOwnFrames'
  BY <1>1, <1>7 DEF Silent
<1>8. ASSUME NEW c \in Conns, NEW f, f.op \notin DispatchOps, Send(c, f) PROVE OnlyOwnFrames'
  <2>1. sent' \subseteq {c} \X {f}
    BY <1>8 DEF Send
  <2> QED
    BY <1>3, <1>8, <2>1
<1>9. ASSUME NEW c \in Conns, Identify(c) PROVE OnlyOwnFrames'
  BY <1>9 DEF Identify, Send, Dispatch, OnlyOwnFrames
<1>10. ASSUME NEW c \in Conns, Replay(c) PROVE OnlyOwnFrames'
  <2>1. Silent \/ (missed[c] # <<>> /\ SendText(sess[c], Head(missed[c])))
    BY <1>10 DEF Replay
  <2>2. missed[c] # <<>> => Head(missed[c]).sess = sess[c]
    BY <1>0 DEF TaskTypeOK, FrameInv
  <2>3. sess[c] \in Conns
    BY <1>10, ResumeHolds DEF Replay, Resuming
  <2> QED
    BY <1>2, <1>7, <2>1, <2>2, <2>3
<1>11. ASSUME NEW p \in Procs, DispatchSend(p) PROVE OnlyOwnFrames'
  <2>1. SendText(sess[p], Dispatch(EventOf(p), sess[p], num[p]))
    BY <1>11 DEF DispatchSend
  <2>2. sess[p] \in Conns
    BY <1>11, DispatchHolds DEF DispatchSend
  <2>3. Dispatch(EventOf(p), sess[p], num[p]).sess = sess[p]
    BY DEF Dispatch
  <2> QED
    BY <1>2, <2>1, <2>2, <2>3
<1>12. ASSUME \/ \E c \in Conns : Attach(c)
              \/ BroadcastReconnect \/ Restart
       PROVE  OnlyOwnFrames'
  <2>1. \E S : sent' = S \X {Control("RECONNECT")} \/ sent' = S \X {Close(0)}
    BY <1>12 DEF Attach, BroadcastReconnect, Restart
  <2>2. PICK S : sent' = S \X {Control("RECONNECT")} \/ sent' = S \X {Close(0)}
    BY <2>1
  <2> QED
    BY <1>3, <1>4, <1>5, <1>6, <2>2
<1>13. ASSUME NEW c \in Conns, Accept(c) \/ Forget(c) \/ Heartbeat(c) \/ Drain(c)
       PROVE  OnlyOwnFrames'
  <2>1. \/ Send(c, Control("HELLO")) \/ Send(c, Control("INVALID_SESSION"))
        \/ Send(c, Control("HEARTBEAT_ACK")) \/ Send(c, Close(0))
        \/ Send(c, Close(VERSION_TOO_OLD))
    BY <1>13 DEF Accept, Forget, Heartbeat, Drain
  <2> QED
    BY <1>4, <1>5, <1>6, <1>8, <2>1
<1>14. ASSUME NEW c \in Conns, NEW s \in Conns, NEW n \in Nat, Resume(c, s, n)
       PROVE  OnlyOwnFrames'
  <2>1. Silent \/ Send(c, Control("INVALID_SESSION"))
    BY <1>14 DEF Resume
  <2> QED
    BY <1>4, <1>6, <1>7, <1>8, <2>1
<1>15. ASSUME NEW c \in Conns,
              \/ ReplayCheck(c) \/ ReplayCollect(c) \/ Reconnect(c) \/ Disconnect(c)
              \/ \E code \in CloseCodes : EndLoop(c, code)
       PROVE  Silent
  BY <1>15 DEF ReplayCheck, ReplayCollect, Reconnect, Disconnect, EndLoop
<1>16. ASSUME NEW p \in Procs, DispatchNumber(p) \/ DispatchStore(p) PROVE Silent
  BY <1>16 DEF DispatchNumber, DispatchStore
<1>17. ASSUME \/ \E p \in Publishers, u \in Users : Publish(p, u)
              \/ (\E s \in Conns : Age(s)) \/ Sweep
       PROVE  Silent
  BY <1>17 DEF Publish, Age, Sweep
<1>18. CASE UNCHANGED serverVars
  BY <1>18 DEF serverVars, OnlyOwnFrames
<1> QED
  BY <1>7, <1>9, <1>10, <1>11, <1>12, <1>13, <1>14, <1>15, <1>16, <1>17, <1>18
     DEF AnyServerNext, AnyConnNext, DispatchNext

(***************************************************************************)
(* The registry.                                                           *)
(***************************************************************************)
\* Of some subsets of a finite set, one has no other strictly inside it.
LEMMA SmallestSubset ==
  ASSUME NEW S, IsFiniteSet(S), NEW X, X # {}, NEW g \in [X -> SUBSET S]
  PROVE  \E m \in X : \A y \in X : g[y] \subseteq g[m] => g[y] = g[m]
<1> DEFINE T == {g[x] : x \in X}
<1>1. T \subseteq FiniteSubsetsOf(S) /\ T # {}
  BY FS_Subset DEF FiniteSubsetsOf
<1>2. IsWellFoundedOn(StrictSubsetOrdering(S), FiniteSubsetsOf(S))
  BY FS_StrictSubsetOrderingWellFounded
<1> HIDE DEF T
<1>3. PICK n \in T : \A k \in T : ~(<<k, n>> \in StrictSubsetOrdering(S))
  BY <1>1, <1>2, WFMin
<1>4. \A k \in T : k \subseteq n => k = n
  BY <1>1, <1>3 DEF StrictSubsetOrdering, FiniteSubsetsOf
<1> QED
  BY <1>3, <1>4 DEF T

\* Keeping those with fewer than L others above them keeps L, or everything.
LEMMA KeepNewest ==
  ASSUME NEW S, IsFiniteSet(S), NEW r \in [S -> Nat], NEW L \in Nat \ {0},
         \A s, t \in S : r[s] = r[t] => s = t
  PROVE  LET above(s) == {x \in S : r[x] > r[s]}
             kept     == {s \in S : Cardinality(above(s)) < L}
         IN  /\ Cardinality(kept) <= L
             /\ kept # S => Cardinality(kept) = L
<1> DEFINE above(s) == {x \in S : r[x] > r[s]}
           below(s) == {x \in S : r[x] < r[s]}
           kept     == {s \in S : Cardinality(above(s)) < L}
<1>1. \A s \in S : above(s) \subseteq S /\ \A x \in S : x \in above(s) <=> r[x] > r[s]
  OBVIOUS
<1>2. \A s \in S : below(s) \subseteq S /\ \A x \in S : x \in below(s) <=> r[x] < r[s]
  OBVIOUS
<1>3. kept \subseteq S /\ \A s \in S : s \in kept <=> Cardinality(above(s)) < L
  OBVIOUS
<1> HIDE DEF above, below, kept
<1>4. \A s, t \in S : s # t => r[s] < r[t] \/ r[t] < r[s]
  OBVIOUS
<1>5. IsFiniteSet(kept) /\ Cardinality(kept) \in Nat
  BY <1>3, FS_Subset, FS_CardinalityType
<1>6. \A s \in S : IsFiniteSet(above(s)) /\ Cardinality(above(s)) \in Nat
  BY <1>1, FS_Subset, FS_CardinalityType
<1>7. Cardinality(kept) <= L
  <2>1. SUFFICES ASSUME Cardinality(kept) > L PROVE FALSE
    BY <1>5
  <2>2. kept # {}
    BY <2>1, FS_EmptySet
  <2>3. PICK m \in kept : \A y \in kept : below(y) \subseteq below(m) => below(y) = below(m)
    <3> DEFINE g == [s \in kept |-> below(s)]
    <3>1. g \in [kept -> SUBSET S]
      BY <1>2, <1>3
    <3> HIDE DEF g
    <3>2. \E m \in kept : \A y \in kept : g[y] \subseteq g[m] => g[y] = g[m]
      BY <2>2, <3>1, SmallestSubset
    <3> QED
      BY <3>2 DEF g
  <2>4. m \in S
    BY <1>3
  <2>5. ASSUME NEW y \in kept, y # m PROVE r[y] > r[m]
    <3>1. SUFFICES ASSUME r[y] < r[m] PROVE FALSE
      BY <1>3, <1>4, <2>4, <2>5
    <3>2. y \in S /\ below(y) \subseteq below(m)
      BY <1>2, <1>3, <2>4, <3>1
    <3>3. y \in below(m) /\ y \notin below(y)
      BY <1>2, <2>4, <3>1, <3>2
    <3> QED
      BY <2>3, <3>2, <3>3
  <2>6. kept \ {m} \subseteq above(m)
    BY <1>1, <1>3, <2>4, <2>5
  <2>7. Cardinality(kept \ {m}) = Cardinality(kept) - 1
    BY <1>5, <2>3, FS_RemoveElement
  <2>8. Cardinality(kept \ {m}) <= Cardinality(above(m))
    BY <1>6, <2>4, <2>6, FS_Subset
  <2>9. Cardinality(above(m)) < L /\ Cardinality(above(m)) \in Nat
    BY <1>3, <1>6, <2>3, <2>4
  <2> QED
    BY <1>5, <2>1, <2>7, <2>8, <2>9
<1>8. ASSUME kept # S PROVE Cardinality(kept) >= L
  <2> DEFINE gone == S \ kept
  <2>1. gone # {} /\ gone \subseteq S
    BY <1>3, <1>8
  <2>2. PICK m \in gone : \A y \in gone : above(y) \subseteq above(m) => above(y) = above(m)
    <3> DEFINE g == [s \in gone |-> above(s)]
    <3>1. g \in [gone -> SUBSET S]
      BY <1>1
    <3> HIDE DEF g, gone
    <3>2. \E m \in gone : \A y \in gone : g[y] \subseteq g[m] => g[y] = g[m]
      BY <2>1, <3>1, SmallestSubset
    <3> QED
      BY <3>2 DEF g
  <2>3. ASSUME NEW y \in gone, r[y] > r[m] PROVE FALSE
    <3>1. above(y) \subseteq above(m)
      BY <1>1, <2>3
    <3>2. y \in above(m) /\ y \notin above(y)
      BY <1>1, <2>3
    <3> QED
      BY <2>2, <3>1, <3>2
  <2>4. above(m) \subseteq kept
    BY <1>1, <2>3
  <2>5. Cardinality(above(m)) <= Cardinality(kept)
    BY <1>5, <2>4, FS_Subset
  <2>6. ~(Cardinality(above(m)) < L) /\ Cardinality(above(m)) \in Nat
    BY <1>3, <1>6, <2>2
  <2> QED
    BY <1>5, <2>5, <2>6
<1>9. Cardinality(kept) <= L /\ (kept # S => Cardinality(kept) = L)
  BY <1>5, <1>7, <1>8
<1> QED
  BY <1>9 DEF above, kept

\* What attach keeps of a user's sessions.
LEMMA AttachKeeps ==
  ASSUME RegistryTypeOK, ArrivalInv, RegistryAgrees, NEW c \in Conns, arrival[c] = 0
  PROVE  LET kept == Owned(c) \ Excess(c)
         IN  /\ c \in kept
             /\ Excess(c) \subseteq sessions
             /\ Cardinality(kept) <= MaxConnections
             /\ Excess(c) # {} => Cardinality(kept) = MaxConnections
<1> DEFINE S     == Owned(c)
           r     == [s \in S |-> IF s = c THEN attached + 1 ELSE arrival[s]]
           above(s) == {x \in S : r[x] > r[s]}
           kept  == {s \in S : Cardinality(above(s)) < MaxConnections}
           old   == by_user[UserOf[c]]
<1>1. old = {s \in sessions : UserOf[s] = UserOf[c]}
  BY ConnsAssumption DEF RegistryAgrees
<1>2. S = old \cup {c} /\ old \subseteq sessions /\ sessions \subseteq Conns
  BY <1>1 DEF Owned, RegistryTypeOK
<1>3. IsFiniteSet(S)
  BY <1>2, FS_Subset, FS_AddElement DEF ArrivalInv
<1>4. \A s \in old : arrival[s] \in 1..attached
  BY <1>2 DEF ArrivalInv
<1>5. c \notin old /\ attached \in Nat
  BY <1>4 DEF RegistryTypeOK
<1>6. r \in [S -> Nat] /\ \A s, t \in S : r[s] = r[t] => s = t
  <2>1. \A s \in S : s # c => arrival[s] \in 1..attached
    BY <1>2, <1>4
  <2>2. \A s, t \in S : s # c /\ t # c /\ arrival[s] = arrival[t] => s = t
    BY <1>2 DEF ArrivalInv
  <2> QED
    BY <1>5, <2>1, <2>2
<1>7. \A s \in S : s # c => above(s) = Newer(c, s)
  <2>1. ASSUME NEW s \in S, s # c, NEW x \in S
        PROVE  r[x] > r[s] <=> x # s /\ (x = c \/ arrival[x] > arrival[s])
    <3>1. arrival[s] \in 1..attached
      BY <1>2, <1>4, <2>1
    <3> QED
      BY <1>5, <2>1, <3>1
  <2> QED
    BY <2>1 DEF Newer
<1>8. above(c) = {}
  <2>1. ASSUME NEW x \in S PROVE ~(r[x] > r[c])
    <3>1. x # c => arrival[x] \in 1..attached
      BY <1>2, <1>4, <2>1
    <3>2. r[c] = attached + 1 /\ r[x] = IF x = c THEN attached + 1 ELSE arrival[x]
      BY <1>2, <2>1
    <3> QED
      BY <1>5, <3>1, <3>2
  <2> HIDE DEF r, S
  <2> QED
    BY <2>1
<1>9. Cardinality(above(c)) < MaxConnections
  <2> HIDE DEF above
  <2>1. Cardinality(above(c)) = 0
    BY <1>8, FS_EmptySet
  <2> QED
    BY <2>1, LimitsAssumption
<1>10. MaxConnections \in Nat \ {0}
  BY LimitsAssumption
<1>11. \A s \in S : Cardinality(above(s)) \in Nat
  BY <1>3, FS_Subset, FS_CardinalityType
<1>12. Cardinality(kept) <= MaxConnections /\ (kept # S => Cardinality(kept) = MaxConnections)
  <2> HIDE DEF S, r
  <2> QED
    BY <1>3, <1>6, <1>10, KeepNewest
<1>13. S \ Excess(c) = kept
  <2>1. ASSUME NEW s \in S PROVE s \in Excess(c) <=> s \notin kept
    <3>1. CASE s = c
      <4>1. c \in kept
        BY <1>2, <1>9
      <4> QED
        BY <3>1, <4>1 DEF Excess
    <3>2. CASE s # c
      <4> DEFINE k == Cardinality(above(s))
      <4>1. k = Cardinality(Newer(c, s)) /\ k \in Nat
        BY <1>7, <1>11, <3>2
      <4>2. s \in Excess(c) <=> k >= MaxConnections
        BY <3>2, <4>1 DEF Excess
      <4>3. s \in kept <=> k < MaxConnections
        OBVIOUS
      <4> HIDE DEF k
      <4> QED
        BY <1>10, <4>1, <4>2, <4>3
    <3> QED
      BY <3>1, <3>2
  <2> QED
    BY <2>1 DEF Excess
<1>14. Excess(c) \subseteq S /\ c \notin Excess(c)
  BY DEF Excess
<1> HIDE DEF kept
<1> QED
  BY <1>2, <1>12, <1>13, <1>14

\* The registry keeps the order of attach.
LEMMA ArrivalInvStep ==
  ASSUME RegistryTypeOK, ArrivalInv, TaskInv, [AnyServerNext]_serverVars
  PROVE  ArrivalInv'
<1>1. CASE UNCHANGED registry
  BY <1>1 DEF registry, ArrivalInv
<1>2. ASSUME NEW c \in Conns, Attach(c) PROVE ArrivalInv'
  <2>1. /\ arrival' = [arrival EXCEPT ![c] = attached + 1]
        /\ attached' = attached + 1
        /\ sessions' \subseteq sessions \cup {c}
    BY <1>2 DEF Attach
  <2>2. IsFiniteSet(sessions')
    <3>1. IsFiniteSet(sessions \cup {c})
      BY FS_AddElement DEF ArrivalInv
    <3> QED
      BY <2>1, <3>1, FS_Subset
  <2>3. /\ sessions \subseteq Conns /\ attached \in Nat
        /\ arrival' \in [Conns -> Nat] /\ arrival'[c] = attached + 1
        /\ \A s \in Conns : s # c => arrival'[s] = arrival[s]
    BY <2>1 DEF RegistryTypeOK
  <2>4. \A s \in Conns : arrival[s] \in Nat /\ arrival[s] <= attached
    BY DEF ArrivalInv, RegistryTypeOK
  <2>5. \A s \in sessions' : arrival'[s] \in 1..attached'
    BY <2>1, <2>3 DEF ArrivalInv
  <2>6. \A s, t \in sessions' : arrival'[s] = arrival'[t] => s = t
    BY <2>1, <2>3, <2>4 DEF ArrivalInv
  <2>7. \A s \in Conns : arrival'[s] <= attached'
    BY <2>1, <2>3, <2>4
  <2> QED
    BY <2>2, <2>5, <2>6, <2>7 DEF ArrivalInv
<1>3. ASSUME sessions' \subseteq sessions, UNCHANGED <<arrival, attached>> PROVE ArrivalInv'
  <2>1. IsFiniteSet(sessions')
    BY <1>3, FS_Subset DEF ArrivalInv
  <2> QED
    BY <1>3, <2>1 DEF ArrivalInv
<1>4. ASSUME (\E c \in Conns : Forget(c)) \/ Sweep \/ Restart
      PROVE  sessions' \subseteq sessions /\ UNCHANGED <<arrival, attached>>
  BY <1>4 DEF Forget, Sweep, Restart
<1> QED
  BY <1>1, <1>2, <1>3, <1>4, RegistryWriters

\* The two maps of the registry agree.
LEMMA RegistryStep ==
  ASSUME RegistryTypeOK, TaskInv, ArrivalInv, RegistryAgrees, [AnyServerNext]_serverVars
  PROVE  RegistryAgrees'
<1>1. CASE UNCHANGED registry
  BY <1>1 DEF registry, RegistryAgrees
<1>2. ASSUME NEW c \in Conns, Attach(c), NEW u \in Users
      PROVE  /\ by_user'[u] = {s \in sessions' : UserOf[s] = u}
             /\ Cardinality(by_user'[u]) <= MaxConnections
  <2> DEFINE kept == Owned(c) \ Excess(c)
  <2>0. arrival[c] = 0
    BY <1>2 DEF Attach, TaskInv, TaskOK
  <2>1. /\ c \in kept /\ Excess(c) \subseteq sessions
        /\ Cardinality(kept) <= MaxConnections
    BY <2>0, AttachKeeps
  <2>2. /\ by_user' = [by_user EXCEPT ![UserOf[c]] = kept]
        /\ sessions' = (sessions \ (Excess(c) \cap sessions)) \cup {c}
    BY <1>2 DEF Attach
  <2>3. Excess(c) \subseteq Owned(c) /\ Owned(c) = by_user[UserOf[c]] \cup {c}
    BY DEF Excess, Owned
  <2>4. \A v \in Users : by_user[v] = {s \in sessions : UserOf[s] = v}
    BY DEF RegistryAgrees
  <2>5. UserOf[c] \in Users /\ by_user \in [Users -> SUBSET Conns] /\ sessions \subseteq Conns
    BY ConnsAssumption DEF RegistryTypeOK
  <2>6. by_user'[u] = IF u = UserOf[c] THEN kept ELSE by_user[u]
    BY <2>2, <2>5
  <2>7. c \notin Excess(c)
    BY DEF Excess
  <2>8. by_user'[u] = {s \in sessions' : UserOf[s] = u}
    BY <2>1, <2>2, <2>3, <2>4, <2>5, <2>6, <2>7
  <2>9. Cardinality(by_user'[u]) <= MaxConnections
    BY <2>1, <2>6 DEF RegistryAgrees
  <2> QED
    BY <2>8, <2>9
<1>3. ASSUME NEW gone, sessions' = sessions \ gone, by_user' = Without(gone), NEW u \in Users
      PROVE  /\ by_user'[u] = {s \in sessions' : UserOf[s] = u}
             /\ Cardinality(by_user'[u]) <= MaxConnections
  <2>1. by_user'[u] = by_user[u] \ gone
    BY <1>3 DEF Without
  <2>2. by_user[u] = {s \in sessions : UserOf[s] = u} /\ Cardinality(by_user[u]) <= MaxConnections
    BY DEF RegistryAgrees
  <2>3. IsFiniteSet(by_user[u])
    BY <2>2, FS_Subset DEF ArrivalInv
  <2>4. Cardinality(by_user'[u]) <= Cardinality(by_user[u])
    BY <2>1, <2>3, FS_Subset
  <2>5. Cardinality(by_user[u]) \in Nat /\ Cardinality(by_user'[u]) \in Nat
    BY <2>1, <2>3, FS_Subset, FS_CardinalityType
  <2>6. MaxConnections \in Nat
    BY LimitsAssumption
  <2> QED
    BY <1>3, <2>1, <2>2, <2>4, <2>5, <2>6
<1>4. ASSUME NEW c \in Conns, Forget(c)
      PROVE  \/ sessions' = sessions \ {sess[c]} /\ by_user' = Without({sess[c]})
             \/ sessions' = sessions /\ by_user' = by_user
  BY <1>4 DEF Forget
<1>5. ASSUME Sweep PROVE sessions' = sessions \ Expired /\ by_user' = Without(Expired)
  BY <1>5 DEF Sweep
<1>6. ASSUME Restart, NEW u \in Users
      PROVE  /\ by_user'[u] = {s \in sessions' : UserOf[s] = u}
             /\ Cardinality(by_user'[u]) <= MaxConnections
  <2>1. by_user'[u] = {} /\ sessions' = {}
    BY <1>6 DEF Restart
  <2> QED
    BY <2>1, FS_EmptySet, LimitsAssumption
<1>7. ASSUME sessions' = sessions, by_user' = by_user PROVE RegistryAgrees'
  BY <1>7 DEF RegistryAgrees
<1> QED
  <2>1. ASSUME NEW gone, sessions' = sessions \ gone, by_user' = Without(gone)
        PROVE  RegistryAgrees'
    BY <1>3, <2>1 DEF RegistryAgrees
  <2>2. ASSUME NEW c \in Conns, Attach(c) PROVE RegistryAgrees'
    BY <1>2, <2>2 DEF RegistryAgrees
  <2>3. ASSUME Restart PROVE RegistryAgrees'
    BY <1>6, <2>3 DEF RegistryAgrees
  <2> QED
    BY <1>1, <1>4, <1>5, <1>7, <2>1, <2>2, <2>3, RegistryWriters

(***************************************************************************)
(* The theorems.                                                           *)
(***************************************************************************)
LEMMA InitOK == ServerInit => ServerTypeOK /\ ServerInv
<1> SUFFICES ASSUME ServerInit PROVE ServerTypeOK /\ ServerInv
  OBVIOUS
<1>0. Conns \cap Publishers = {} /\ None \notin Conns
  BY ConnsAssumption
<1>1. \A c \in Conns : pc[c] = "off" /\ sess[c] = None
  BY DEF ServerInit, Procs
<1>2. \A p \in Publishers : pc[p] = "idle" /\ p \in Procs /\ todo[p] = {}
  BY <1>0 DEF ServerInit, Procs
<1>3. RegistryTypeOK /\ TaskTypeOK
  BY DEF ServerInit, RegistryTypeOK, TaskTypeOK, CloseCodes
<1>4. SessionTypeOK
  BY DEF ServerInit, SessionTypeOK
<1>5. PcTypeOK
  <2>1. pc \in [Procs -> {"off", "idle"}]
    BY DEF ServerInit
  <2>2. "off" \in ConnStates /\ "idle" \in PubStates
    BY DEF ConnStates, PubStates
  <2> QED
    BY <1>1, <1>2, <2>1, <2>2 DEF PcTypeOK
<1>6. ServerTypeOK
  BY <1>3, <1>4, <1>5 DEF ServerInit, ServerTypeOK
<1>7. TaskInv
  <2>1. ASSUME NEW c \in Conns PROVE TaskOK(c)
    <3>1. missed[c] = <<>>
      BY DEF ServerInit
    <3> QED
      BY <1>1, <3>1 DEF TaskOK, Holding, Resuming
  <2> QED
    BY <1>2, <2>1 DEF TaskInv
<1>8. \A p \in Procs : sess[p] = None
  BY DEF ServerInit
<1>9. SessionInv
  <2>1. ASSUME NEW s \in Conns PROVE Untouched(s) /\ seq[s] = 0
    BY <1>0, <1>2, <1>8 DEF ServerInit, Untouched
  <2> QED
    BY <2>1 DEF SessionInv
<1>10. FrameInv /\ BufferBounded /\ OutboxIsLive /\ OnlyOwnFrames
  BY LimitsAssumption DEF ServerInit, FrameInv, BufferBounded, OutboxIsLive, OnlyOwnFrames
<1>11. ArrivalInv
  BY FS_EmptySet DEF ServerInit, ArrivalInv
<1>12. RegistryAgrees
  BY FS_EmptySet, LimitsAssumption DEF ServerInit, RegistryAgrees
<1>13. SequenceNeverRepeats
  <2>1. \A p \in Procs : pc[p] # "store"
    BY DEF ServerInit
  <2>2. \A s \in Conns : buffer[s] = <<>>
    BY DEF ServerInit
  <2> QED
    BY <2>1, <2>2 DEF SequenceNeverRepeats, Numbers, Storing
<1> QED
  BY <1>6, <1>7, <1>9, <1>10, <1>11, <1>12, <1>13 DEF ServerInv

\* ServerInv, step by step.
LEMMA InvStep ==
  ASSUME ServerTypeOK, ServerInv, [AnyServerNext]_serverVars
  PROVE  ServerTypeOK' /\ ServerInv'
<1>1. /\ TaskInv /\ SessionInv /\ FrameInv /\ ArrivalInv
      /\ SequenceNeverRepeats /\ BufferBounded /\ OutboxIsLive /\ OnlyOwnFrames
      /\ RegistryAgrees /\ RegistryTypeOK
  BY DEF ServerInv, ServerTypeOK
<1>2. ServerTypeOK'
  BY <1>1, TypeStep
<1>3. TaskInv' /\ SessionInv' /\ FrameInv' /\ ArrivalInv'
  BY <1>1, TaskInvStep, SessionInvStep, FrameInvStep, ArrivalInvStep
<1>4. SequenceNeverRepeats' /\ BufferBounded'
  BY <1>1, SequenceStep, BufferBoundedStep
<1>5. OutboxIsLive' /\ OnlyOwnFrames' /\ RegistryAgrees'
  BY <1>1, OutboxStep, OwnFramesStep, RegistryStep
<1> QED
  BY <1>2, <1>3, <1>4, <1>5 DEF ServerInv

\* Whatever the number of connections, users, publishers and restarts, every
\* variable keeps its type and the tasks may rely on ServerInv in every state
\* (session.rs, hub.rs, mod.rs).
LEMMA AnyServerInvariant == AnyServerSpec => [](ServerTypeOK /\ ServerInv)
<1>1. ServerInit => ServerTypeOK /\ ServerInv
  BY InitOK
<1>2. (ServerTypeOK /\ ServerInv) /\ [AnyServerNext]_serverVars => (ServerTypeOK /\ ServerInv)'
  BY InvStep
<1> QED
  BY <1>1, <1>2, PTL DEF AnyServerSpec

\* The same of ServerSpec, the specification the runs of the server check.
THEOREM ServerInvariant == ServerSpec => [](ServerTypeOK /\ ServerInv)
  BY AnyServerInvariant, ServerIsAny, PTL

\* Every variable of the server keeps its type.
THEOREM ServerTypeCorrect == ServerSpec => []ServerTypeOK
  BY ServerInvariant, PTL

\* No two frames of a session ever carry one sequence number, however its
\* dispatches interleave (Session::dispatch).
THEOREM NumbersAreUnique == ServerSpec => []SequenceNeverRepeats
<1>1. ServerTypeOK /\ ServerInv => SequenceNeverRepeats
  BY DEF ServerInv
<1> QED
  BY <1>1, ServerInvariant, PTL

\* A session's ring never outgrows resume_buffer_size (Session::dispatch).
THEOREM RingIsBounded == ServerSpec => []BufferBounded
<1>1. ServerTypeOK /\ ServerInv => BufferBounded
  BY DEF ServerInv
<1> QED
  BY <1>1, ServerInvariant, PTL

\* A session feeds only a connection whose task still holds it, so that task can
\* empty the outbox before it waits for its writer (serve).
THEOREM NoSenderOutlivesItsTask == ServerSpec => []OutboxIsLive
<1>1. ServerTypeOK /\ ServerInv => OutboxIsLive
  BY DEF ServerInv
<1> QED
  BY <1>1, ServerInvariant, PTL

\* No dispatch reaches a connection of another user (Hub::resumable).
THEOREM FramesStayWithTheirUser == ServerSpec => []OnlyOwnFrames
<1>1. ServerTypeOK /\ ServerInv => OnlyOwnFrames
  BY DEF ServerInv
<1> QED
  BY <1>1, ServerInvariant, PTL

\* The two halves of the registry agree and no user is over the limit
\* (Hub::attach, forget, sweep_expired).
THEOREM RegistryIsConsistent == ServerSpec => []RegistryAgrees
<1>1. ServerTypeOK /\ ServerInv => RegistryAgrees
  BY DEF ServerInv
<1> QED
  BY <1>1, ServerInvariant, PTL

\* The instance counts as this module does.
LEMMA SameCardinality == \A T : Hub!Cardinality(T) = Cardinality(T)
  BY DEF Cardinality, Hub!Cardinality

\* A step of the server is a step of the abstract registry, or none of it.
LEMMA HubStep ==
  ASSUME ServerTypeOK, ServerInv, ServerInv', [AnyServerNext]_serverVars
  PROVE  [Hub!Next]_<<sessions, {s \in Conns : arrival[s] > 0}>>
<1> DEFINE used == {s \in Conns : arrival[s] > 0}
<1>0. /\ RegistryTypeOK /\ ArrivalInv /\ TaskInv /\ RegistryAgrees
  BY DEF ServerInv, ServerTypeOK
<1>1. CASE UNCHANGED registry
  BY <1>1 DEF registry
<1>2. ASSUME NEW c \in Conns, Attach(c) PROVE Hub!Admit(c)
  <2> DEFINE gone == Excess(c)
             kept == Owned(c) \ gone
  <2>1. arrival[c] = 0
    BY <1>0, <1>2 DEF Attach, TaskInv, TaskOK
  <2>2. /\ c \in kept /\ gone \subseteq sessions
        /\ Cardinality(kept) <= MaxConnections
        /\ gone # {} => Cardinality(kept) = MaxConnections
    BY <1>0, <2>1, AttachKeeps
  <2>3. /\ arrival' = [arrival EXCEPT ![c] = attached + 1]
        /\ by_user' = [by_user EXCEPT ![UserOf[c]] = kept]
        /\ sessions' = (sessions \ (gone \cap sessions)) \cup {c}
    BY <1>2 DEF Attach
  <2>4. by_user[UserOf[c]] = {s \in sessions : UserOf[s] = UserOf[c]}
    BY <1>0, ConnsAssumption DEF RegistryAgrees
  <2>5. gone \subseteq by_user[UserOf[c]] /\ c \notin gone
    BY DEF Excess, Owned
  <2>6. kept = {s \in sessions' : UserOf[s] = UserOf[c]}
    BY <2>2, <2>3, <2>4, <2>5 DEF Owned
  <2>7. c \in Conns \ used
    BY <2>1
  <2>8. used' = used \cup {c}
    <3>1. attached + 1 > 0 /\ arrival \in [Conns -> Nat]
      BY <1>0 DEF RegistryTypeOK
    <3>2. \A s \in Conns : arrival'[s] = IF s = c THEN attached + 1 ELSE arrival[s]
      BY <2>3, <3>1
    <3>3. \A s \in Conns : arrival'[s] > 0 <=> s = c \/ arrival[s] > 0
      BY <3>1, <3>2
    <3> QED
      BY <3>3
  <2>9. gone \in SUBSET {s \in sessions : UserOf[s] = UserOf[c]}
    BY <2>4, <2>5
  <2>10. sessions' = (sessions \ gone) \cup {c}
    BY <2>2, <2>3
  <2> HIDE DEF gone, kept
  <2> DEFINE mine == Hub!OwnedBy(UserOf[c], sessions)
             then == Hub!OwnedBy(UserOf[c], sessions')
  <2>11. gone \in SUBSET mine /\ then = kept
    BY <2>6, <2>9 DEF Hub!OwnedBy
  <2> HIDE DEF mine, then
  <2>12. \E dropped \in SUBSET mine :
           /\ sessions' = (sessions \ dropped) \cup {c}
           /\ dropped # {} => Hub!Cardinality(then) = MaxConnections
    BY <2>2, <2>10, <2>11, SameCardinality
  <2>13. Hub!Cardinality(then) <= MaxConnections
    BY <2>2, <2>11, SameCardinality
  <2> HIDE DEF used
  <2> QED
    BY <2>7, <2>8, <2>12, <2>13, Zenon DEF Hub!Admit, mine, then, used
<1>3. ASSUME (\E c \in Conns : Forget(c)) \/ Sweep \/ Restart PROVE Hub!Drop
  <2>1. sessions' \subseteq sessions /\ arrival' = arrival
    BY <1>3 DEF Forget, Sweep, Restart
  <2> QED
    BY <2>1 DEF Hub!Drop
<1> QED
  BY <1>1, <1>2, <1>3, RegistryWriters DEF Hub!Next

\* The hub implements SessionRegistry: a session is admitted once and does not
\* come back, whatever resume, eviction, sweep and restart race on it, and a new
\* one costs its user no more sessions than the limit asks for (hub.rs).
LEMMA AnyHub == AnyServerSpec => HubIsRegistry
<1>1. ServerInit => Hub!Init
  BY DEF ServerInit, Hub!Init
<1>2. (ServerTypeOK /\ ServerInv) /\ (ServerTypeOK /\ ServerInv)' /\ [AnyServerNext]_serverVars
      => [Hub!Next]_<<sessions, {s \in Conns : arrival[s] > 0}>>
  BY HubStep
<1> QED
  BY <1>1, <1>2, AnyServerInvariant, PTL DEF AnyServerSpec, HubIsRegistry, Hub!Spec

\* And so does the server its runs check.
THEOREM HubRefinesRegistry == ServerSpec => HubIsRegistry
  BY AnyHub, ServerIsAny, PTL


(***************************************************************************)
(* What the ring still holds.  A frame is overtaken only by dispatches that *)
(* were under way when it was stored, so few older numbers follow a frame   *)
(* in the ring; and a frame that has left the ring was overtaken as rarely. *)
(***************************************************************************)
\* The dispatches of s under way that took an older number.
Slower(s, n) == {p \in Procs : pc[p] = "store" /\ sess[p] = s /\ num[p] < n}

\* The older numbers behind the frame at i, and those of the whole ring.
Passed(s, i) == {m \in Nat : /\ m < buffer[s][i].n
                             /\ \E j \in (i + 1)..Len(buffer[s]) : buffer[s][j].n = m}
Below(s, n)  == {m \in Numbers(s) : m < n}

Gone(s, n) == n \notin Numbers(s) /\ ~Storing(s, n)

OvertakenInv(s) ==
  /\ \A i \in DOMAIN buffer[s] :
       Cardinality(Passed(s, i)) + Cardinality(Slower(s, buffer[s][i].n)) < Cardinality(Procs)
  /\ \A n \in 1..seq[s] : Gone(s, n) =>
       /\ Len(buffer[s]) = BufferCapacity
       /\ Cardinality(Below(s, n)) + Cardinality(Slower(s, n)) < Cardinality(Procs)

\* Registered, or about to be: a session that was dropped may have lost frames
\* with the process that was storing them.
Alive(s) == s \in sessions \/ pc[s] = "attach"

RingInv == \A s \in Conns : Alive(s) => OvertakenInv(s)

\* There are finitely many tasks.
LEMMA ProcsFinite == IsFiniteSet(Procs) /\ Cardinality(Procs) \in Nat
<1>1. IsFiniteSet(Procs)
  BY ConnsAssumption, FS_Union DEF Procs
<1> QED
  BY <1>1, FS_CardinalityType

\* Fewer than N in two sets together are fewer than N in subsets of them.
LEMMA FewerOfBoth ==
  ASSUME NEW A, NEW B, IsFiniteSet(A), IsFiniteSet(B), NEW a \in SUBSET A, NEW b \in SUBSET B,
         NEW N \in Nat, Cardinality(A) + Cardinality(B) < N
  PROVE  Cardinality(a) + Cardinality(b) < N
<1>1. /\ Cardinality(a) <= Cardinality(A) /\ IsFiniteSet(a)
      /\ Cardinality(b) <= Cardinality(B) /\ IsFiniteSet(b)
  BY FS_Subset
<1>2. /\ Cardinality(a) \in Nat /\ Cardinality(A) \in Nat
      /\ Cardinality(b) \in Nat /\ Cardinality(B) \in Nat
  BY <1>1, FS_CardinalityType
<1> QED
  BY <1>1, <1>2

\* One set may gain a member when the other loses one.
LEMMA OneForOne ==
  ASSUME NEW A, NEW B, IsFiniteSet(A), IsFiniteSet(B), NEW m, NEW p \in B,
         NEW a \in SUBSET (A \cup {m}), NEW b \in SUBSET (B \ {p}),
         NEW N \in Nat, Cardinality(A) + Cardinality(B) < N
  PROVE  Cardinality(a) + Cardinality(b) < N
<1>0. Cardinality(A) \in Nat /\ Cardinality(B) \in Nat
  BY FS_CardinalityType
<1>1. /\ IsFiniteSet(A \cup {m}) /\ Cardinality(A \cup {m}) <= Cardinality(A) + 1
      /\ IsFiniteSet(B \ {p}) /\ Cardinality(B \ {p}) = Cardinality(B) - 1
  <2>1. IsFiniteSet(A \cup {m}) /\ Cardinality(A \cup {m}) <= Cardinality(A) + 1
    <3>1. /\ IsFiniteSet(A \cup {m})
          /\ Cardinality(A \cup {m}) = IF m \in A THEN Cardinality(A) ELSE Cardinality(A) + 1
      BY FS_AddElement
    <3> QED
      BY <1>0, <3>1
  <2>2. IsFiniteSet(B \ {p}) /\ Cardinality(B \ {p}) = Cardinality(B) - 1
    BY <1>0, FS_RemoveElement
  <2> QED
    BY <2>1, <2>2
<1>2. Cardinality(A \cup {m}) \in Nat /\ Cardinality(B \ {p}) \in Nat
  BY <1>1, FS_CardinalityType
<1>3. Cardinality(A \cup {m}) + Cardinality(B \ {p}) < N
  BY <1>0, <1>1, <1>2
<1> QED
  BY <1>1, <1>3, FewerOfBoth

\* The sets counted are finite.
LEMMA CountedFinite ==
  ASSUME ServerTypeOK, SequenceNeverRepeats, NEW s \in Conns
  PROVE  /\ \A n : IsFiniteSet(Slower(s, n)) /\ IsFiniteSet(Below(s, n))
         /\ \A i \in DOMAIN buffer[s] : IsFiniteSet(Passed(s, i))
<1>1. seq[s] \in Nat /\ IsFiniteSet(1..seq[s])
  BY FS_Interval DEF ServerTypeOK, SessionTypeOK
<1>2. Numbers(s) \subseteq 1..seq[s]
  BY DEF SequenceNeverRepeats
<1>3. ASSUME NEW n PROVE IsFiniteSet(Slower(s, n)) /\ IsFiniteSet(Below(s, n))
  <2>1. Slower(s, n) \in SUBSET Procs /\ Below(s, n) \in SUBSET (1..seq[s])
    BY <1>2 DEF Slower, Below
  <2> QED
    BY <1>1, <2>1, ProcsFinite, FS_Subset
<1>4. ASSUME NEW i \in DOMAIN buffer[s] PROVE IsFiniteSet(Passed(s, i))
  <2>1. buffer[s] \in Seq(Frames)
    BY DEF ServerTypeOK, SessionTypeOK
  <2>2. \A j \in (i + 1)..Len(buffer[s]) : j \in DOMAIN buffer[s]
    BY <2>1
  <2>3. Passed(s, i) \in SUBSET (1..seq[s])
    BY <1>2, <2>2 DEF Passed, Numbers
  <2> QED
    BY <1>1, <2>3, FS_Subset
<1> QED
  BY <1>3, <1>4

\* Only DispatchStore, and the end of the process, ends a dispatch's store.
LEMMA StoreStays ==
  ASSUME ServerTypeOK, [AnyServerNext]_serverVars, NEW q \in Procs,
         pc[q] = "store", ~DispatchStore(q), ~Restart
  PROVE  pc'[q] = "store" /\ sess'[q] = sess[q] /\ num'[q] = num[q]
<1>1. ASSUME NEW p \in Procs, TaskStep(p), p # q
      PROVE  pc'[q] = "store" /\ sess'[q] = sess[q] /\ num'[q] = num[q]
  BY <1>1, Local
<1>2. ~TaskStep(q)
  BY DEF TaskStep, AnyConnNext, DispatchNext, Accept, Identify, Attach, Resume, ReplayCheck,
     ReplayCollect, Forget, Reconnect, Replay, DispatchNumber, DispatchSend,
     Publish, Heartbeat, EndLoop, Disconnect, Drain
<1>3. CASE UNCHANGED <<task, arrival>>
  BY <1>3 DEF task
<1> QED
  BY <1>1, <1>2, <1>3, StepOfWhom

\* A session comes to life with IDENTIFY alone.
LEMMA AliveBack ==
  ASSUME ServerTypeOK, [AnyServerNext]_serverVars, NEW s \in Conns, Alive(s)', ~Identify(s)
  PROVE  Alive(s) /\ ~Restart
<1>0. PcTypeOK /\ Conns \subseteq Procs
  BY DEF ServerTypeOK, Procs
<1>1. ~Restart
  <2>1. ASSUME Restart PROVE FALSE
    <3>1. sessions' = {} /\ pc'[s] \in {"off", "closed", "idle"}
      BY <1>0, <2>1 DEF Restart
    <3> QED
      BY <3>1 DEF Alive
  <2> QED
    BY <2>1
<1>2. CASE s \in sessions'
  <2>1. s \in sessions \/ Attach(s)
    BY <1>1, <1>2, RegistryWriters DEF Attach, Forget, Sweep, registry
  <2> QED
    BY <1>1, <2>1 DEF Alive, Attach
<1>3. CASE pc'[s] = "attach"
  <2>1. ASSUME NEW p \in Procs, TaskStep(p), p # s PROVE pc[s] = "attach"
    BY <1>0, <1>3, <2>1, Local
  <2>2. ASSUME UNCHANGED <<task, arrival>> PROVE pc[s] = "attach"
    BY <1>3, <2>2 DEF task
  <2>3. ASSUME TaskStep(s) PROVE pc[s] = "attach"
    <3>1. UNCHANGED pc \/ \E l \in (ConnStates \cup PubStates) \ {"attach"} : Goto(s, l)
      <4>1. CASE AnyConnNext(s)
        <5>1. CASE Accept(s) \/ Attach(s) \/ \E t \in Conns, n \in Nat : Resume(s, t, n)
          BY <5>1 DEF Accept, Attach, Resume, ConnStates, Resuming
        <5>2. CASE ReplayCheck(s) \/ ReplayCollect(s) \/ Forget(s) \/ Reconnect(s) \/ Replay(s)
          BY <5>2 DEF ReplayCheck, ReplayCollect, Forget, Reconnect, Replay, ConnStates, Resuming
        <5>3. CASE Heartbeat(s)
          BY <5>3 DEF Heartbeat, task
        <5>4. ASSUME NEW code, EndLoop(s, code) PROVE Goto(s, "drain") \/ Goto(s, "d_flag")
          BY <5>4 DEF EndLoop
        <5>5. CASE Disconnect(s) \/ Drain(s)
          BY <5>5 DEF Disconnect, Drain, ConnStates, Closing
        <5>6. {"drain", "d_flag"} \subseteq ConnStates \ {"attach"}
          BY DEF ConnStates, Closing
        <5> QED
          BY <4>1, <5>1, <5>2, <5>3, <5>4, <5>5, <5>6 DEF AnyConnNext
      <4>2. CASE DispatchNext(s)
        BY <4>2 DEF DispatchNext, DispatchNumber, DispatchStore, DispatchSend, ConnStates,
           PubStates, Resuming
      <4>3. CASE \E u \in Users : Publish(s, u)
        BY <4>3 DEF Publish, PubStates
      <4> QED
        BY <2>3, <4>1, <4>2, <4>3 DEF TaskStep
    <3> QED
      BY <1>0, <1>3, <3>1 DEF Goto, PcTypeOK
  <2> QED
    BY <1>1, <2>1, <2>2, <2>3, StepOfWhom DEF Alive
<1> QED
  BY <1>1, <1>2, <1>3 DEF Alive

\* A step that stores nothing: the dispatches under way are as before, or new
\* ones with newer numbers.
LEMMA RingKept ==
  ASSUME ServerTypeOK, SequenceNeverRepeats, NEW s \in Conns, OvertakenInv(s),
         buffer'[s] = buffer[s], seq'[s] \in Nat,
         \A q \in Procs : pc'[q] = "store" /\ sess'[q] = s =>
           \/ pc[q] = "store" /\ sess[q] = s /\ num'[q] = num[q]
           \/ num'[q] > seq[s] /\ num'[q] \in Nat,
         \A n \in 1..seq'[s] : Storing(s, n) \/ n \notin 1..seq[s] => Storing(s, n)'
  PROVE  OvertakenInv(s)'
<1>0. seq[s] \in Nat /\ Cardinality(Procs) \in Nat
  BY ProcsFinite DEF ServerTypeOK, SessionTypeOK
<1>1. Numbers(s)' = Numbers(s)
  BY DEF Numbers
<1>2. ASSUME NEW n \in 1..seq[s] PROVE Slower(s, n)' \in SUBSET Slower(s, n)
  BY <1>0 DEF Slower
<1>3. ASSUME NEW i \in DOMAIN buffer'[s]
      PROVE  Cardinality(Passed(s, i)') + Cardinality(Slower(s, buffer[s][i].n)')
               < Cardinality(Procs)
  <2>1. Passed(s, i)' = Passed(s, i)
    BY DEF Passed
  <2>2. buffer[s][i].n \in 1..seq[s]
    BY DEF SequenceNeverRepeats, Numbers
  <2>3. Slower(s, buffer[s][i].n)' \in SUBSET Slower(s, buffer[s][i].n)
    <3>1. PICK n \in 1..seq[s] : n = buffer[s][i].n
      BY <2>2
    <3>2. Slower(s, n)' \in SUBSET Slower(s, n)
      BY <1>2
    <3> QED
      BY <3>1, <3>2 DEF Slower
  <2>4. IsFiniteSet(Passed(s, i)) /\ IsFiniteSet(Slower(s, buffer[s][i].n))
    BY CountedFinite
  <2>5. Cardinality(Passed(s, i)) + Cardinality(Slower(s, buffer[s][i].n)) < Cardinality(Procs)
    BY DEF OvertakenInv
  <2> QED
    BY <1>0, <2>1, <2>3, <2>4, <2>5, FewerOfBoth
<1>4. ASSUME NEW n \in 1..seq'[s], Gone(s, n)'
      PROVE  /\ Len(buffer'[s]) = BufferCapacity
             /\ Cardinality(Below(s, n)') + Cardinality(Slower(s, n)') < Cardinality(Procs)
  <2>1. n \in 1..seq[s] /\ Gone(s, n)
    BY <1>1, <1>4 DEF Gone
  <2>2. Below(s, n)' = Below(s, n)
    BY <1>1 DEF Below
  <2>3. IsFiniteSet(Below(s, n)) /\ IsFiniteSet(Slower(s, n))
    BY CountedFinite
  <2>4. /\ Len(buffer[s]) = BufferCapacity
        /\ Cardinality(Below(s, n)) + Cardinality(Slower(s, n)) < Cardinality(Procs)
    BY <2>1 DEF OvertakenInv
  <2>5. Slower(s, n)' \in SUBSET Slower(s, n)
    BY <1>2, <2>1
  <2> QED
    BY <1>0, <2>2, <2>3, <2>4, <2>5, FewerOfBoth
<1> QED
  BY <1>3, <1>4 DEF OvertakenInv

\* The ring of a new session holds READY.
LEMMA RingIdentify ==
  ASSUME ServerTypeOK, SessionInv, SequenceNeverRepeats', NEW s \in Conns, Identify(s)
  PROVE  OvertakenInv(s)'
<1>1. buffer'[s] = <<Dispatch("READY", s, 1)>> /\ seq'[s] = 1
  BY DEF Identify, ServerTypeOK, SessionTypeOK
<1>2. Len(buffer'[s]) = 1 /\ DOMAIN buffer'[s] = {1} /\ buffer'[s][1].n = 1
  BY <1>1 DEF Dispatch
<1>3. Passed(s, 1)' = {}
  BY <1>2 DEF Passed
<1>4. Slower(s, 1)' = {}
  BY <1>1 DEF Slower, SequenceNeverRepeats
<1>5. Cardinality(Procs) > 0
  <2>1. s \in Procs
    BY DEF Procs
  <2> QED
    BY <2>1, ProcsFinite, FS_EmptySet
<1>6. Cardinality(Passed(s, 1)') + Cardinality(Slower(s, 1)') < Cardinality(Procs)
  <2>1. Cardinality({}) = 0 /\ Cardinality(Procs) \in Nat
    BY FS_EmptySet, ProcsFinite
  <2> QED
    BY <1>3, <1>4, <1>5, <2>1
<1>7. \A n \in 1..seq'[s] : ~Gone(s, n)'
  <2>1. 1 \in Numbers(s)'
    BY <1>2 DEF Numbers
  <2> QED
    BY <1>1, <2>1 DEF Gone
<1>8. ASSUME NEW i \in DOMAIN buffer'[s]
      PROVE  Cardinality(Passed(s, i)') + Cardinality(Slower(s, buffer[s][i].n)')
               < Cardinality(Procs)
  <2>1. i = 1 /\ buffer'[s][i].n = 1
    BY <1>2, <1>8
  <2>2. Slower(s, buffer[s][i].n)' = {} /\ Passed(s, i)' = {}
    BY <1>3, <1>4, <2>1 DEF Slower
  <2> QED
    BY <1>3, <1>4, <1>6, <2>2
<1> QED
  BY <1>7, <1>8 DEF OvertakenInv

\* A store overtakes the frames with newer numbers once, and is under way no more.
LEMMA RingStore ==
  ASSUME ServerTypeOK, TaskInv, SequenceNeverRepeats, BufferBounded,
         NEW p \in Procs, DispatchStore(p), NEW s \in Conns, sess[p] = s, OvertakenInv(s)
  PROVE  OvertakenInv(s)'
<1> DEFINE b == buffer[s]
           m == num[p]
<1>0. /\ PcTypeOK /\ TaskTypeOK /\ b \in Seq(Frames) /\ Len(b) \in Nat /\ Len(b) <= BufferCapacity
      /\ seq[s] \in Nat /\ m \in Nat /\ BufferCapacity \in Nat
  BY LimitsAssumption DEF ServerTypeOK, SessionTypeOK, TaskTypeOK, BufferBounded
<1>1. PICK f \in Frames :
        /\ f.n = m /\ buffer'[s] = Push(b, f) /\ UNCHANGED <<seq, sess, num>>
  BY StoreStep
<1>2. /\ pc[p] = "store" /\ pc'[p] = "send"
      /\ \A q \in Procs : q # p => pc'[q] = pc[q]
  BY <1>0 DEF DispatchStore, Goto, PcTypeOK
<1> DEFINE new == Push(b, f)
<1>3. PICK k \in {0, 1} :
        /\ Len(new) = Len(b) + 1 - k /\ Len(new) <= BufferCapacity
        /\ k <= Len(b) /\ (k = 1 => Len(b) = BufferCapacity)
        /\ \A j \in 1..(Len(b) - k) : new[j] = b[j + k]
        /\ new[Len(b) + 1 - k] = f
  BY <1>0, PushElements
<1>4. new \in Seq(Frames)
  <2>1. 0 \in Nat
    OBVIOUS
  <2> QED
    BY <1>0, <2>1, PushType
<1>5. buffer'[s] = new
  BY <1>1
<1> HIDE DEF new
<1>6. DOMAIN new = 1..(Len(b) + 1 - k) /\ DOMAIN b = 1..Len(b)
  BY <1>0, <1>3, <1>4
<1>7. \A i \in DOMAIN new : \/ i = Len(b) + 1 - k /\ new[i].n = m
                            \/ i \in 1..(Len(b) - k) /\ i + k \in DOMAIN b /\ new[i].n = b[i + k].n
  <2>1. ASSUME NEW i \in DOMAIN new, i = Len(b) + 1 - k PROVE new[i].n = m
    BY <1>1, <1>3, <2>1
  <2>2. ASSUME NEW i \in DOMAIN new, i # Len(b) + 1 - k
        PROVE  i \in 1..(Len(b) - k) /\ i + k \in DOMAIN b /\ new[i].n = b[i + k].n
    <3>1. i \in 1..(Len(b) - k) /\ i + k \in DOMAIN b
      BY <1>0, <1>3, <1>6, <2>2
    <3> QED
      BY <1>3, <3>1
  <2> QED
    BY <2>1, <2>2
<1>8. Cardinality(Procs) \in Nat
  BY ProcsFinite
<1>9. ASSUME NEW n \in Nat
      PROVE  /\ Slower(s, n)' \in SUBSET Slower(s, n) /\ p \notin Slower(s, n)'
             /\ m < n => p \in Slower(s, n)
  BY <1>1, <1>2 DEF Slower
\* What was counted of n before, and what is counted after.
<1>10. ASSUME NEW n \in Nat, NEW A, IsFiniteSet(A), NEW B, B \subseteq A \cup {m},
              m \in B => m < n, IsFiniteSet(Slower(s, n)),
              Cardinality(A) + Cardinality(Slower(s, n)) < Cardinality(Procs)
       PROVE  Cardinality(B) + Cardinality(Slower(s, n)') < Cardinality(Procs)
  <2>1. CASE m < n
    <3>1. p \in Slower(s, n) /\ Slower(s, n)' \in SUBSET (Slower(s, n) \ {p})
      BY <1>9, <2>1
    <3>2. B \in SUBSET (A \cup {m})
      BY <1>10
    <3> QED
      BY <1>8, <1>10, <3>1, <3>2, OneForOne
  <2>2. CASE ~(m < n)
    <3>1. B \in SUBSET A /\ Slower(s, n)' \in SUBSET Slower(s, n)
      BY <1>9, <1>10, <2>2
    <3> QED
      BY <1>8, <1>10, <3>1, FewerOfBoth
  <2> QED
    BY <2>1, <2>2
<1>11. ASSUME NEW i \in DOMAIN new
       PROVE  Cardinality(Passed(s, i)') + Cardinality(Slower(s, buffer[s][i].n)')
                < Cardinality(Procs)
  <2>1. CASE i = Len(b) + 1 - k
    <3>1. Passed(s, i)' = {}
      <4>1. (i + 1)..Len(new) = {}
        BY <1>0, <1>3, <2>1
      <4> QED
        BY <1>5, <4>1 DEF Passed
    <3>2. Slower(s, buffer[s][i].n)' \in SUBSET (Procs \ {p})
      BY <1>2 DEF Slower
    <3>3. /\ IsFiniteSet(Procs \ {p}) /\ Cardinality(Procs \ {p}) = Cardinality(Procs) - 1
      BY ProcsFinite, FS_RemoveElement
    <3>4. /\ Cardinality(Slower(s, buffer[s][i].n)') <= Cardinality(Procs) - 1
          /\ Cardinality(Slower(s, buffer[s][i].n)') \in Nat
      BY <3>2, <3>3, FS_Subset, FS_CardinalityType
    <3>5. Cardinality(Passed(s, i)') = 0
      BY <3>1, FS_EmptySet
    <3> QED
      BY <1>8, <3>4, <3>5
  <2>2. CASE i # Len(b) + 1 - k
    <3>1. i \in 1..(Len(b) - k) /\ i + k \in DOMAIN b /\ new[i].n = b[i + k].n
      BY <1>7, <2>2
    <3>2. PICK n \in Nat : n = b[i + k].n
      <4>1. b[i + k] \in Frames
        BY <1>0, <3>1
      <4> QED
        BY <4>1 DEF Frames
    <3>3. Passed(s, i)' \subseteq Passed(s, i + k) \cup {m}
      <4> SUFFICES ASSUME NEW x \in Nat, x < new[i].n, NEW j \in (i + 1)..Len(new), new[j].n = x
                   PROVE  x \in Passed(s, i + k) \cup {m}
        BY <1>5 DEF Passed
      <4>1. j \in DOMAIN new
        BY <1>0, <1>3, <1>6, <3>1
      <4>2. CASE new[j].n = b[j + k].n /\ j \in 1..(Len(b) - k)
        <5>0. i \in Nat /\ j \in Nat /\ k \in Nat /\ j >= i + 1 /\ j <= Len(b) - k
          BY <3>1, <4>2
        <5>1. j + k \in (i + k + 1)..Len(b)
          BY <1>0, <5>0
        <5>2. x < b[i + k].n /\ b[j + k].n = x
          BY <3>1, <4>2
        <5> QED
          BY <5>1, <5>2 DEF Passed
      <4>3. CASE new[j].n = m
        BY <4>3
      <4> QED
        BY <1>7, <4>1, <4>2, <4>3
    <3>4. m \in Passed(s, i)' => m < n
      BY <1>5, <3>1, <3>2 DEF Passed
    <3>5. /\ IsFiniteSet(Passed(s, i + k)) /\ IsFiniteSet(Slower(s, n))
      BY <3>1, CountedFinite
    <3>6. Cardinality(Passed(s, i + k)) + Cardinality(Slower(s, n)) < Cardinality(Procs)
      BY <3>1, <3>2 DEF OvertakenInv
    <3>7. Slower(s, buffer[s][i].n)' = Slower(s, n)'
      BY <1>5, <3>1, <3>2 DEF Slower
    <3>8. Cardinality(Passed(s, i)') + Cardinality(Slower(s, n)') < Cardinality(Procs)
      BY <1>10, <3>3, <3>4, <3>5, <3>6
    <3> QED
      BY <3>7, <3>8
  <2> QED
    BY <2>1, <2>2
<1>12. ASSUME NEW n \in 1..seq[s], Gone(s, n)'
       PROVE  /\ Len(new) = BufferCapacity
              /\ Cardinality(Below(s, n)') + Cardinality(Slower(s, n)') < Cardinality(Procs)
  <2>1. n # m /\ n \in Nat /\ \A i \in DOMAIN new : new[i].n # n
    <3>1. Len(b) + 1 - k \in DOMAIN new
      BY <1>0, <1>3, <1>6
    <3>2. \A i \in DOMAIN new : new[i].n # n
      BY <1>5, <1>12 DEF Gone, Numbers
    <3>3. new[Len(b) + 1 - k].n = m
      BY <1>1, <1>3
    <3> QED
      BY <3>1, <3>2, <3>3
  <2>2. IsFiniteSet(Slower(s, n)) /\ IsFiniteSet(Below(s, n))
    BY CountedFinite
  <2>3. m \in Below(s, n)' => m < n
    BY DEF Below
  <2>4. ASSUME NEW x \in Below(s, n)'
        PROVE  \/ x = m
               \/ x < n /\ \E j \in (1 + k)..Len(b) : j \in DOMAIN b /\ b[j].n = x
    <3>1. x < n /\ \E j \in DOMAIN new : new[j].n = x
      BY <1>5, <2>4 DEF Below, Numbers
    <3>2. PICK j \in DOMAIN new : new[j].n = x
      BY <3>1
    <3>3. CASE j \in 1..(Len(b) - k) /\ j + k \in DOMAIN b /\ new[j].n = b[j + k].n
      <4>0. j \in Nat /\ k \in Nat /\ j >= 1 /\ j <= Len(b) - k
        BY <3>3
      <4>1. j + k \in (1 + k)..Len(b) /\ b[j + k].n = x
        BY <1>0, <3>2, <3>3, <4>0
      <4> QED
        BY <3>1, <3>3, <4>1
    <3> QED
      BY <1>7, <3>2, <3>3
  <2>5. CASE n \in Numbers(s)
    <3>1. PICK i \in DOMAIN b : b[i].n = n
      BY <2>5 DEF Numbers
    <3>2. i = 1 /\ k = 1
      <4>1. ASSUME i > k PROVE FALSE
        <5>1. i - k \in 1..(Len(b) - k) /\ i - k \in DOMAIN new /\ (i - k) + k = i
          BY <1>0, <1>3, <1>6, <4>1
        <5>2. new[i - k] = b[(i - k) + k]
          BY <1>3, <5>1
        <5>3. new[i - k].n = n
          BY <3>1, <5>1, <5>2
        <5> QED
          BY <2>1, <5>1, <5>3
      <4> QED
        BY <1>0, <1>3, <1>6, <4>1
    <3>3. Len(new) = BufferCapacity
      BY <1>0, <1>3, <3>2
    <3>4. Below(s, n)' \subseteq Passed(s, 1) \cup {m}
      <4>1. ASSUME NEW x \in Below(s, n)', x # m PROVE x \in Passed(s, 1)
        <5>1. x < n /\ \E j \in (1 + 1)..Len(b) : j \in DOMAIN b /\ b[j].n = x
          BY <2>4, <3>2, <4>1
        <5>2. x \in Nat
          <6>1. PICK j \in DOMAIN b : b[j].n = x
            BY <5>1
          <6>2. b[j] \in Frames
            BY <1>0
          <6> QED
            BY <6>1, <6>2 DEF Frames
        <5> QED
          BY <3>1, <3>2, <5>1, <5>2 DEF Passed
      <4> QED
        BY <4>1
    <3>5. IsFiniteSet(Passed(s, 1))
      BY <3>1, <3>2, CountedFinite
    <3>6. Cardinality(Passed(s, 1)) + Cardinality(Slower(s, n)) < Cardinality(Procs)
      BY <3>1, <3>2 DEF OvertakenInv
    <3> QED
      BY <1>10, <2>1, <2>2, <2>3, <3>3, <3>4, <3>5, <3>6
  <2>6. CASE n \notin Numbers(s)
    <3>1. ~Storing(s, n)
      BY <1>1, <1>2, <1>12, <2>1 DEF Storing, Gone
    <3>2. /\ Len(b) = BufferCapacity
          /\ Cardinality(Below(s, n)) + Cardinality(Slower(s, n)) < Cardinality(Procs)
      BY <2>6, <3>1 DEF OvertakenInv, Gone
    <3>3. Len(new) = BufferCapacity
      BY <1>0, <1>3, <3>2
    <3>4. Below(s, n)' \subseteq Below(s, n) \cup {m}
      BY <2>4 DEF Below, Numbers
    <3> QED
      BY <1>10, <2>1, <2>2, <2>3, <3>2, <3>3, <3>4
  <2> QED
    BY <2>5, <2>6
<1> QED
  BY <1>1, <1>5, <1>11, <1>12 DEF OvertakenInv

\* RingInv, step by step.
LEMMA RingStep ==
  ASSUME ServerTypeOK, ServerInv, ServerTypeOK', ServerInv', RingInv, [AnyServerNext]_serverVars
  PROVE  RingInv'
<1>0. /\ TaskInv /\ SessionInv /\ SequenceNeverRepeats /\ BufferBounded /\ SequenceNeverRepeats'
      /\ PcTypeOK /\ TaskTypeOK /\ SessionTypeOK
  BY DEF ServerInv, ServerTypeOK
<1> SUFFICES ASSUME NEW s \in Conns, Alive(s)' PROVE OvertakenInv(s)'
  BY DEF RingInv
<1>1. CASE Identify(s)
  BY <1>0, <1>1, RingIdentify
<1>2. CASE ~Identify(s)
  <2>1. OvertakenInv(s) /\ ~Restart
    BY <1>2, AliveBack DEF RingInv
  <2>2. CASE \E p \in Procs : DispatchStore(p) /\ sess[p] = s
    BY <1>0, <2>1, <2>2, RingStore
  <2>3. ASSUME NEW p \in Procs, DispatchNumber(p), sess[p] = s PROVE OvertakenInv(s)'
    <3>1. /\ \A q \in Procs : q # p => pc'[q] = pc[q] /\ sess'[q] = sess[q] /\ num'[q] = num[q]
          /\ pc[p] = "number" /\ pc'[p] = "store" /\ sess'[p] = s /\ num'[p] = seq[s] + 1
          /\ seq'[s] = seq[s] + 1 /\ buffer' = buffer /\ seq[s] \in Nat
      BY <1>0, <2>3 DEF DispatchNumber, Goto, PcTypeOK, TaskTypeOK, SessionTypeOK
    <3>2. \A q \in Procs : pc'[q] = "store" /\ sess'[q] = s =>
            \/ pc[q] = "store" /\ sess[q] = s /\ num'[q] = num[q]
            \/ num'[q] > seq[s] /\ num'[q] \in Nat
      BY <3>1
    <3>3. ASSUME NEW n \in 1..seq'[s], Storing(s, n) \/ n \notin 1..seq[s] PROVE Storing(s, n)'
      <4>1. CASE n \notin 1..seq[s]
        BY <3>1, <4>1 DEF Storing
      <4>2. CASE Storing(s, n)
        <5>1. PICK q \in Procs : pc[q] = "store" /\ sess[q] = s /\ num[q] = n
          BY <4>2 DEF Storing
        <5> QED
          BY <3>1, <5>1 DEF Storing
      <4> QED
        BY <3>3, <4>1, <4>2
    <3> QED
      BY <1>0, <2>1, <3>1, <3>2, <3>3, RingKept
  <2>4. ASSUME \A p \in Procs : ~(DispatchStore(p) /\ sess[p] = s),
               \A p \in Procs : ~(DispatchNumber(p) /\ sess[p] = s)
        PROVE  OvertakenInv(s)'
    <3>1. buffer'[s] = buffer[s] /\ seq'[s] = seq[s] /\ seq[s] \in Nat
      <4>1. CASE UNCHANGED <<seq, buffer, evicted_through>>
        BY <1>0, <4>1 DEF SessionTypeOK
      <4>2. ASSUME NEW c \in Conns, Identify(c), c # s
            PROVE  buffer'[s] = buffer[s] /\ seq'[s] = seq[s]
        BY <1>0, <4>2 DEF Identify, SessionTypeOK
      <4>3. ASSUME NEW p \in Procs, DispatchNumber(p)
            PROVE  buffer'[s] = buffer[s] /\ seq'[s] = seq[s]
        BY <1>0, <2>4, <4>3 DEF DispatchNumber, SessionTypeOK
      <4>4. ASSUME NEW p \in Procs, DispatchStore(p)
            PROVE  buffer'[s] = buffer[s] /\ seq'[s] = seq[s]
        BY <1>0, <2>4, <4>4 DEF DispatchStore, SessionTypeOK
      <4> QED
        BY <1>0, <1>2, <4>1, <4>2, <4>3, <4>4, BufferWriters DEF SessionTypeOK
    <3>2. ASSUME NEW q \in Procs, pc'[q] = "store", sess'[q] = s
          PROVE  pc[q] = "store" /\ sess[q] = s /\ num'[q] = num[q]
      <4>1. CASE DispatchNumber(q)
        <5>1. sess' = sess
          BY <4>1 DEF DispatchNumber
        <5> QED
          BY <2>4, <3>2, <4>1, <5>1
      <4>2. CASE ~DispatchNumber(q)
        BY <3>2, <4>2, StoreBack
      <4> QED
        BY <4>1, <4>2
    <3>3. ASSUME NEW n, Storing(s, n) PROVE Storing(s, n)'
      <4>1. PICK q \in Procs : pc[q] = "store" /\ sess[q] = s /\ num[q] = n
        BY <3>3 DEF Storing
      <4>2. pc'[q] = "store" /\ sess'[q] = sess[q] /\ num'[q] = num[q]
        BY <2>1, <2>4, <4>1, StoreStays
      <4> QED
        BY <4>1, <4>2 DEF Storing
    <3> QED
      BY <1>0, <2>1, <3>1, <3>2, <3>3, RingKept
  <2> QED
    BY <2>2, <2>3, <2>4
<1> QED
  BY <1>1, <1>2

\* The ring holds as many frames as numbers.
LEMMA DistinctNumbers ==
  ASSUME ServerTypeOK, SequenceNeverRepeats, NEW s \in Conns
  PROVE  IsFiniteSet(Numbers(s)) /\ Cardinality(Numbers(s)) = Len(buffer[s])
<1> DEFINE b == buffer[s]
           f == [i \in 1..Len(b) |-> b[i].n]
<1>1. b \in Seq(Frames) /\ Len(b) \in Nat /\ DOMAIN b = 1..Len(b)
  BY DEF ServerTypeOK, SessionTypeOK
<1>2. f \in [1..Len(b) -> Numbers(s)]
  BY <1>1 DEF Numbers
<1>3. \A i, j \in 1..Len(b) : f[i] = f[j] => i = j
  BY <1>1 DEF SequenceNeverRepeats
<1>4. \A n \in Numbers(s) : \E i \in 1..Len(b) : f[i] = n
  BY <1>1 DEF Numbers
<1>5. f \in Bijection(1..Len(b), Numbers(s))
  BY <1>2, <1>3, <1>4 DEF Bijection, Injection, Surjection, IsInjective
<1>6. ExistsBijection(1..Len(b), Numbers(s))
  BY <1>5 DEF ExistsBijection
<1>7. IsFiniteSet(1..Len(b)) /\ Cardinality(1..Len(b)) = Len(b)
  BY <1>1, FS_Interval
<1> QED
  BY <1>6, <1>7, FS_Bijection

\* However dispatches overtake each other on the way to the ring, a frame of a
\* registered session that is missing from it is older than all but as many of
\* the newest resume_buffer_size numbers as there are other tasks (session.rs,
\* dispatch; replay_after relies on it).
LEMMA AnyRing == AnyServerSpec => []RecentFramesKept
<1>1. ServerInit => RingInv
  BY DEF ServerInit, RingInv, Alive, Procs
<1>2. (ServerTypeOK /\ ServerInv) /\ (ServerTypeOK /\ ServerInv)' /\ RingInv
        /\ [AnyServerNext]_serverVars => RingInv'
  <2> SUFFICES ASSUME ServerTypeOK, ServerInv, ServerTypeOK', ServerInv', RingInv,
                      [AnyServerNext]_serverVars
               PROVE  RingInv'
    OBVIOUS
  <2> QED
    BY RingStep
<1>3. (ServerTypeOK /\ ServerInv) /\ RingInv => RecentFramesKept
  <2> SUFFICES ASSUME ServerTypeOK, ServerInv, RingInv, NEW s \in sessions, NEW n \in 1..seq[s],
                      n + BufferCapacity >= seq[s] + Cardinality(Procs), Gone(s, n)
               PROVE  FALSE
    BY DEF RecentFramesKept, Gone
  <2>0. /\ s \in Conns /\ SequenceNeverRepeats /\ seq[s] \in Nat /\ n \in Nat
        /\ BufferCapacity \in Nat /\ Cardinality(Procs) \in Nat
    BY ProcsFinite, LimitsAssumption
       DEF ServerTypeOK, RegistryTypeOK, SessionTypeOK, ServerInv
  <2> DEFINE Above == (n + 1)..seq[s]
  <2>1. /\ Len(buffer[s]) = BufferCapacity
        /\ Cardinality(Below(s, n)) + Cardinality(Slower(s, n)) < Cardinality(Procs)
    BY <2>0 DEF RingInv, Alive, OvertakenInv
  <2>2. /\ IsFiniteSet(Below(s, n)) /\ IsFiniteSet(Slower(s, n))
        /\ Cardinality(Below(s, n)) \in Nat /\ Cardinality(Slower(s, n)) \in Nat
    BY <2>0, CountedFinite, FS_CardinalityType
  <2>3. IsFiniteSet(Above) /\ Cardinality(Above) <= seq[s] - n /\ Cardinality(Above) \in Nat
    <3>1. n + 1 \in Int /\ seq[s] \in Int /\ n <= seq[s]
      BY <2>0
    <3>2. /\ IsFiniteSet(Above)
          /\ Cardinality(Above) = IF n + 1 > seq[s] THEN 0 ELSE seq[s] - (n + 1) + 1
      BY <3>1, FS_Interval
    <3> QED
      BY <2>0, <3>1, <3>2, FS_CardinalityType
  <2>4. Numbers(s) \in SUBSET (Below(s, n) \cup Above)
    <3>1. Numbers(s) \subseteq 1..seq[s] /\ n \notin Numbers(s)
      BY <2>0 DEF SequenceNeverRepeats, Gone
    <3> QED
      BY <2>0, <3>1 DEF Below
  <2>5. /\ IsFiniteSet(Below(s, n) \cup Above)
        /\ Cardinality(Below(s, n) \cup Above) <= Cardinality(Below(s, n)) + Cardinality(Above)
        /\ Cardinality(Below(s, n) \cup Above) \in Nat
    <3> HIDE DEF Above
    <3>1. IsFiniteSet(Below(s, n) \cap Above) /\ Cardinality(Below(s, n) \cap Above) \in Nat
      BY <2>2, FS_Intersection, FS_CardinalityType
    <3>2. /\ IsFiniteSet(Below(s, n) \cup Above)
          /\ Cardinality(Below(s, n) \cup Above) =
               Cardinality(Below(s, n)) + Cardinality(Above) - Cardinality(Below(s, n) \cap Above)
      BY <2>2, <2>3, FS_Union
    <3>3. Cardinality(Below(s, n) \cup Above) \in Nat
      BY <3>2, FS_CardinalityType
    <3> QED
      BY <2>2, <2>3, <3>1, <3>2, <3>3
  <2>6. Cardinality(Numbers(s)) = BufferCapacity
    BY <2>0, <2>1, DistinctNumbers
  <2>7. BufferCapacity <= Cardinality(Below(s, n) \cup Above)
    BY <2>4, <2>5, <2>6, FS_Subset
  <2> HIDE DEF Above
  <2> QED
    BY <2>0, <2>1, <2>2, <2>3, <2>5, <2>7
<1> QED
  BY <1>1, <1>2, <1>3, AnyServerInvariant, PTL DEF AnyServerSpec

\* The same of the server its runs check.
THEOREM NewestFramesAreKept == ServerSpec => []RecentFramesKept
  BY AnyRing, ServerIsAny, PTL

(***************************************************************************)
(* The gateway: one client, the server, and the wire between them.         *)
(***************************************************************************)
\* The server's steps, by what they take from the wire: an IDENTIFY, a RESUME,
\* another frame, or nothing.
Next1(c) == up[c] # <<>> /\ link[c] = "up" /\ up' = [up EXCEPT ![c] = Tail(@)]

TakesIdentify(c) == Next1(c) /\ Head(up[c]).op = "IDENTIFY" /\ Identify(c)
TakesResume(c)   == Next1(c) /\ Head(up[c]).op = "RESUME"
                    /\ Resume(c, Head(up[c]).sess, Head(up[c]).n)
TakesOther(c)    == Next1(c) /\ (Heartbeat(c) \/ \E code \in CloseCodes : EndLoop(c, code))

Alone(c) ==
  \/ (c \in opened /\ Accept(c)) \/ Attach(c) \/ ReplayCheck(c) \/ ReplayCollect(c) \/ Forget(c)
  \/ Reconnect(c) \/ Replay(c) \/ (\E code \in CloseCodes : EndLoop(c, code))
  \/ Disconnect(c) \/ Drain(c)

TakesNothing ==
  /\ UNCHANGED up
  /\ \/ \E c \in Conns : Alone(c)
     \/ \E p \in Procs : DispatchNext(p)
     \/ \E p \in Publishers, u \in Users : Publish(p, u)
     \/ \E s \in Conns : Age(s)
     \/ Sweep \/ BroadcastReconnect \/ Restart

ServerMoves ==
  /\ \/ \E c \in Conns : TakesIdentify(c) \/ TakesResume(c) \/ TakesOther(c)
     \/ TakesNothing
  /\ Forward /\ Record
  /\ UNCHANGED <<clientVars, link, failures, applied>>

\* The client's steps and the network's leave the server alone.
OtherMoves ==
  /\ ClientStep \/ \E c \in Conns : LinkDies(c)
  /\ UNCHANGED <<serverVars, overlapped>>

\* Every step is the server's, or the client's or the network's.
LEMMA NextCases ==
  ASSUME Next
  PROVE  ServerMoves \/ OtherMoves
<1>1. ASSUME NEW A, ServerSide(A)
      PROVE  A /\ UNCHANGED up /\ Forward /\ Record /\ UNCHANGED <<clientVars, link, failures, applied>>
  BY <1>1 DEF ServerSide
<1>2. ASSUME NEW c \in Conns, AcceptClient(c) PROVE ServerMoves
  <2>1. ServerSide(Accept(c)) /\ c \in opened
    BY <1>2 DEF AcceptClient
  <2> QED
    BY <2>1 DEF ServerSide, ServerMoves, TakesNothing, Alone
<1>3. ASSUME NEW c \in Conns, Receive(c) PROVE ServerMoves
  <2>1. /\ Next1(c) /\ Forward /\ Record /\ UNCHANGED <<clientVars, link, failures, applied>>
    BY <1>3 DEF Receive, Next1
  <2>2. ASSUME NEW code, EndLoop(c, code) PROVE code \in CloseCodes
    BY <2>2, CodesType DEF EndLoop
  <2>3. TakesIdentify(c) \/ TakesResume(c) \/ TakesOther(c)
    BY <1>3, <2>1, <2>2 DEF Receive, TakesIdentify, TakesResume, TakesOther
  <2> QED
    BY <2>1, <2>3 DEF ServerMoves
<1>4. ASSUME NEW c \in Conns, PeerClosed(c) \/ TimesOut(c) PROVE ServerMoves
  <2>1. \E code : ServerSide(EndLoop(c, code))
    BY <1>4 DEF PeerClosed, TimesOut
  <2>2. PICK code : ServerSide(EndLoop(c, code))
    BY <2>1
  <2>3. code \in CloseCodes
    BY <2>2, CodesType DEF ServerSide, EndLoop
  <2> QED
    BY <2>2, <2>3 DEF ServerSide, ServerMoves, TakesNothing, Alone
<1>5. ASSUME NEW c \in Conns, ServerSide(Attach(c) \/ Forget(c) \/ Handler(c)) PROVE ServerMoves
  BY <1>5 DEF ServerSide, Handler, ServerMoves, TakesNothing, Alone
<1>6. ASSUME NEW p \in Procs, ServerSide(DispatchNext(p)) PROVE ServerMoves
  BY <1>6 DEF ServerSide, ServerMoves, TakesNothing
<1>7. ASSUME NEW p \in Publishers, NEW u \in Users, ServerSide(Publish(p, u)) PROVE ServerMoves
  BY <1>7 DEF ServerSide, ServerMoves, TakesNothing
<1>8. ASSUME NEW s \in Conns, ServerSide(Age(s)) PROVE ServerMoves
  BY <1>8 DEF ServerSide, ServerMoves, TakesNothing
<1>9. ASSUME ServerSide(Sweep \/ BroadcastReconnect \/ Restart) PROVE ServerMoves
  BY <1>9 DEF ServerSide, ServerMoves, TakesNothing
<1>10. ASSUME ClientStep PROVE UNCHANGED <<serverVars, overlapped>>
  BY <1>10 DEF ClientStep, ClientSide, DeliverFrame, DeliverClose
<1>11. ASSUME NEW c \in Conns, LinkDies(c) PROVE UNCHANGED <<serverVars, overlapped>>
  BY <1>11 DEF LinkDies, histVars
<1> QED
  BY <1>2, <1>3, <1>4, <1>5, <1>6, <1>7, <1>8, <1>9, <1>10, <1>11
     DEF Next, ServerStep, OtherMoves

\* What the client may ask for is what the server answers.
LEMMA TakesServe ==
  ASSUME TypeOK, NEW c \in Conns, TakesIdentify(c) \/ TakesResume(c) \/ TakesOther(c) \/ Alone(c)
  PROVE  AnyConnNext(c)
<1>1. CASE TakesResume(c)
  <2>1. up[c] \in Seq(Asked) /\ up[c] # <<>>
    BY <1>1 DEF TakesResume, Next1, TypeOK
  <2>2. Head(up[c]) \in Asked
    BY <2>1
  <2>3. Head(up[c]).op = "RESUME"
    BY <1>1 DEF TakesResume
  <2>4. Head(up[c]).sess \in Conns /\ Head(up[c]).n \in Nat
    BY <2>2, <2>3, GatewayAssumption DEF Asked
  <2>5. Resume(c, Head(up[c]).sess, Head(up[c]).n)
    BY <1>1 DEF TakesResume
  <2>6. \E s \in Conns, n \in Nat : Resume(c, s, n)
    BY <2>4, <2>5
  <2> QED
    BY <2>6 DEF AnyConnNext
<1>2. CASE TakesIdentify(c) \/ TakesOther(c) \/ Alone(c)
  BY <1>2 DEF TakesIdentify, TakesOther, Alone, AnyConnNext
<1> QED
  BY <1>1, <1>2

\* A server step of the composed system is a step of the server alone.
LEMMA MovesServe ==
  ASSUME TypeOK, ServerMoves
  PROVE  AnyServerNext
  BY TakesServe DEF ServerMoves, TakesNothing, AnyServerNext

\* Whatever the client and the network do, the server takes a step of its own.
LEMMA ServesAny ==
  ASSUME TypeOK, [Next]_vars
  PROVE  [AnyServerNext]_serverVars
<1>1. CASE UNCHANGED vars
  BY <1>1 DEF vars
<1>2. CASE OtherMoves
  BY <1>2 DEF OtherMoves
<1> QED
  BY <1>1, <1>2, NextCases, MovesServe

(***************************************************************************)
(* Types.                                                                  *)
(***************************************************************************)
LEMMA Appended ==
  ASSUME NEW S, NEW q \in Seq(S), NEW f \in S
  PROVE  /\ Append(q, f) \in Seq(S)
         /\ Len(q) \in Nat /\ DOMAIN q = 1..Len(q) /\ Len(Append(q, f)) = Len(q) + 1
         /\ DOMAIN Append(q, f) = 1..(Len(q) + 1)
         /\ \A i \in 1..Len(q) : Append(q, f)[i] = q[i]
         /\ Append(q, f)[Len(q) + 1] = f
  OBVIOUS

\* The queue without its first element.
LEMMA Dropped ==
  ASSUME NEW S, NEW q \in Seq(S), q # <<>>
  PROVE  /\ Tail(q) \in Seq(S) /\ Head(q) \in S /\ Head(q) = q[1]
         /\ Len(q) \in Nat \ {0} /\ DOMAIN q = 1..Len(q) /\ Len(Tail(q)) = Len(q) - 1
         /\ DOMAIN Tail(q) = 1..(Len(q) - 1)
         /\ \A i \in 1..(Len(q) - 1) : Tail(q)[i] = q[i + 1]
  OBVIOUS

\* The wire: a frame of the last step goes to the end of the queue of the socket
\* that listens, and nothing else happens to any queue.
LEMMA Forwarded ==
  ASSUME down \in [Conns -> Seq(Frames)], sent' \subseteq Conns \X Frames, Forward, NEW c \in Conns
  PROVE  \/ down'[c] = down[c] /\ ~(Listening(c) /\ \E f : <<c, f>> \in sent')
         \/ /\ Listening(c)
            /\ \E f \in Frames : <<c, f>> \in sent' /\ down'[c] = Append(down[c], f)
<1> DEFINE to == {x \in sent' : x[1] = c}
<1>1. down'[c] = IF Listening(c) /\ to # {} THEN Append(down[c], (CHOOSE x \in to : TRUE)[2])
                 ELSE down[c]
  BY DEF Forward
<1>2. CASE Listening(c) /\ to # {}
  <2>1. PICK x \in to : x = CHOOSE y \in to : TRUE
    BY <1>2
  <2>2. x \in Conns \X Frames /\ x[1] = c
    BY <2>1
  <2>3. x = <<c, x[2]>> /\ x[2] \in Frames
    BY <2>2
  <2>4. <<c, x[2]>> \in sent' /\ down'[c] = Append(down[c], x[2])
    BY <1>1, <1>2, <2>1, <2>3
  <2> QED
    BY <1>2, <2>3, <2>4
<1>3. CASE ~(Listening(c) /\ to # {})
  <2>1. ASSUME NEW f, <<c, f>> \in sent' PROVE to # {}
    BY <2>1
  <2> QED
    BY <1>1, <1>3, <2>1
<1> QED
  BY <1>2, <1>3

\* The wire carries frames.
LEMMA ForwardType ==
  ASSUME down \in [Conns -> Seq(Frames)], sent' \subseteq Conns \X Frames, Forward
  PROVE  down' \in [Conns -> Seq(Frames)]
<1>1. ASSUME NEW c \in Conns PROVE down'[c] \in Seq(Frames)
  <2>1. CASE down'[c] = down[c]
    BY <2>1
  <2>2. ASSUME NEW f \in Frames, down'[c] = Append(down[c], f) PROVE down'[c] \in Seq(Frames)
    <3>1. Append(down[c], f) \in Seq(Frames)
      BY Appended
    <3> QED
      BY <2>2, <3>1
  <2> QED
    BY <2>1, <2>2, Forwarded
<1>2. down' = [c \in Conns |-> down'[c]]
  BY DEF Forward
<1> QED
  BY <1>1, <1>2

\* One queue of many is replaced.
LEMMA SeqAt ==
  ASSUME NEW S, NEW D, NEW f \in [D -> Seq(S)], NEW d \in D, NEW v \in Seq(S)
  PROVE  [f EXCEPT ![d] = v] \in [D -> Seq(S)]
  OBVIOUS

\* What the client says is an IDENTIFY, a RESUME or a HEARTBEAT.
LEMMA AskType ==
  ASSUME ClientTypeOK
  PROVE  /\ Ask("IDENTIFY", Nothing, 0) \in Asked /\ Ask("HEARTBEAT", Nothing, 0) \in Asked
         /\ sessionId # Nothing => Ask("RESUME", sessionId, lastSeq) \in Asked
  BY DEF Ask, Asked, ClientTypeOK

\* The client's types, under each of its steps.
LEMMA OpenType ==
  ASSUME ClientTypeOK, Start \/ Retry \/ Stop
  PROVE  ClientTypeOK'
<1>1. CASE Stop
  BY <1>1 DEF Stop, ClientTypeOK, Statuses
<1>2. CASE Start \/ Retry
  <2>1. Open /\ said' = Nothing /\ UNCHANGED <<closing, sessionId, lastSeq, beating, token>>
    BY <1>2 DEF Start, Retry
  <2>2. CASE token = "none"
    <3>1. stopped' = TRUE /\ status' = "closed" /\ fatal' = "auth" /\ UNCHANGED <<socket, opened, missedAcks>>
      BY <2>1, <2>2 DEF Open
    <3> QED
      BY <2>1, <3>1 DEF ClientTypeOK, Statuses
  <2>3. CASE token # "none"
    <3>1. PICK c \in Sockets \ opened : socket' = c /\ opened' = opened \cup {c}
      BY <2>1, <2>3 DEF Open
    <3>2. missedAcks' = 0 /\ status' = "connecting" /\ stopped' = FALSE /\ UNCHANGED fatal
      BY <2>1, <2>3 DEF Open
    <3>3. opened' \subseteq Sockets /\ socket' \in Sockets
      BY <3>1 DEF ClientTypeOK
    <3>4. missedAcks' \in 0..MAX_MISSED_ACKS /\ status' \in Statuses
      BY <3>2 DEF MAX_MISSED_ACKS, Statuses
    <3>8. stopped' \in BOOLEAN
      BY <3>2
    <3>5. closing' \in BOOLEAN /\ beating' \in BOOLEAN /\ token' \in Tokens
      BY <2>1 DEF ClientTypeOK
    <3>6. /\ sessionId' \in Sockets \cup {Nothing} /\ lastSeq' \in Nat
          /\ said' \in Asked \cup {Nothing} /\ socket' \in Sockets \cup {Nothing}
      BY <2>1, <3>3 DEF ClientTypeOK
    <3>7. fatal' \in {"none", "auth", "outdated_client"}
      BY <3>2 DEF ClientTypeOK
    <3> QED
      BY <3>3, <3>4, <3>5, <3>6, <3>7, <3>8, Zenon DEF ClientTypeOK
  <2> QED
    BY <2>2, <2>3
<1> QED
  BY <1>1, <1>2

\* sendIdentify says that or nothing.
LEMMA SendIdentifyType ==
  ASSUME ClientTypeOK, SendIdentify
  PROVE  /\ closing' \in BOOLEAN /\ status' \in Statuses /\ said' \in Asked \cup {Nothing}
<1>1. closing \in BOOLEAN /\ status \in Statuses
  BY DEF ClientTypeOK
<1>2. CASE token = "none"
  BY <1>1, <1>2 DEF SendIdentify
<1>3. CASE token # "none"
  BY <1>1, <1>3, AskType DEF SendIdentify, Statuses
<1> QED
  BY <1>2, <1>3

\* Reading a frame keeps the client well typed.
LEMMA FrameType ==
  ASSUME ClientTypeOK, NEW f \in Frames, f.op # "CLOSE", HandleFrame(f)
  PROVE  ClientTypeOK'
<1>0. Conns = Sockets /\ None = Nothing
  BY GatewayAssumption
<1>1. CASE f.op = "HELLO"
  <2>1. HandleHello
    BY <1>1 DEF HandleFrame
  <2>2. closing' \in BOOLEAN /\ status' \in Statuses /\ said' \in Asked \cup {Nothing}
    <3>1. CASE sessionId = Nothing
      BY <2>1, <3>1, SendIdentifyType DEF HandleHello
    <3>2. CASE sessionId # Nothing /\ token = "none"
      BY <2>1, <3>2 DEF HandleHello, ClientTypeOK
    <3>3. CASE sessionId # Nothing /\ token # "none"
      BY <2>1, <3>3, AskType DEF HandleHello, ClientTypeOK, Statuses
    <3> QED
      BY <3>1, <3>2, <3>3
  <2>3. /\ missedAcks' = 0 /\ beating' = TRUE
        /\ UNCHANGED <<socket, opened, sessionId, lastSeq, stopped, token, fatal>>
    BY <2>1 DEF HandleHello
  <2> QED
    BY <2>2, <2>3 DEF ClientTypeOK, MAX_MISSED_ACKS
<1>2. CASE f.op = "HEARTBEAT_ACK"
  <2>1. HandleAck
    BY <1>2 DEF HandleFrame
  <2> QED
    BY <2>1 DEF HandleAck, ClientTypeOK, MAX_MISSED_ACKS
<1>3. CASE f.op = "INVALID_SESSION"
  <2>1. HandleInvalidSession
    BY <1>3 DEF HandleFrame
  <2>2. closing' \in BOOLEAN /\ status' \in Statuses /\ said' \in Asked \cup {Nothing}
    BY <2>1, SendIdentifyType DEF HandleInvalidSession
  <2>3. /\ sessionId' = Nothing /\ lastSeq' = 0
        /\ UNCHANGED <<socket, opened, stopped, missedAcks, beating, token, fatal>>
    BY <2>1 DEF HandleInvalidSession
  <2> QED
    BY <2>2, <2>3 DEF ClientTypeOK
<1>4. CASE f.op = "RECONNECT"
  <2>1. HandleReconnect
    BY <1>4 DEF HandleFrame
  <2> QED
    BY <2>1 DEF HandleReconnect, ClientTypeOK
<1>5. CASE f.op \notin {"HELLO", "HEARTBEAT_ACK", "INVALID_SESSION", "RECONNECT"}
  <2>1. HandleDispatch(f)
    BY <1>5 DEF HandleFrame
  <2>2. f.n \in Nat /\ f.sess \in Sockets \cup {Nothing}
    BY <1>0 DEF Frames
  <2>3. lastSeq' \in Nat /\ sessionId' \in Sockets \cup {Nothing} /\ status' \in Statuses
    BY <2>1, <2>2 DEF HandleDispatch, ClientTypeOK, Statuses
  <2>4. /\ said' = Nothing
        /\ UNCHANGED <<socket, opened, closing, stopped, missedAcks, beating, token, fatal>>
    BY <2>1 DEF HandleDispatch
  <2> QED
    BY <2>3, <2>4 DEF ClientTypeOK
<1> QED
  BY <1>1, <1>2, <1>3, <1>4, <1>5

\* So does onclose.
LEMMA CloseType ==
  ASSUME ClientTypeOK, NEW code, HandleClose(code)
  PROVE  ClientTypeOK'
<1>1. /\ socket' = Nothing /\ closing' = FALSE /\ beating' = FALSE /\ said' = Nothing
      /\ stopped' = (code \in {CLOSE_OUTDATED_CLIENT, CLOSE_AUTH_FAILED})
      /\ UNCHANGED <<opened, missedAcks, token>>
  BY DEF HandleClose
<1>2. status' \in {"closed", "reconnecting"}
  BY DEF HandleClose
<1>3. fatal' \in {"outdated_client", "auth", fatal}
  BY DEF HandleClose
<1>4. sessionId' \in {sessionId, Nothing} /\ lastSeq' \in {lastSeq, 0}
  BY DEF HandleClose
<1>5. stopped' \in BOOLEAN
  BY <1>1
<1>6. status' \in Statuses
  BY <1>2 DEF Statuses
<1>7. /\ socket' = Nothing /\ closing' = FALSE /\ beating' = FALSE /\ said' = Nothing
      /\ UNCHANGED <<opened, missedAcks, token>>
  BY <1>1
<1>8. fatal' \in {"none", "auth", "outdated_client"} /\ sessionId' \in Sockets \cup {Nothing}
  BY <1>3, <1>4 DEF ClientTypeOK
<1>9. lastSeq' \in Nat
  BY <1>4 DEF ClientTypeOK
<1>11. closing' \in BOOLEAN /\ beating' \in BOOLEAN
  BY <1>7
<1>10. /\ socket' \in Sockets \cup {Nothing} /\ opened' \subseteq Sockets
       /\ missedAcks' \in 0..MAX_MISSED_ACKS /\ token' \in Tokens /\ said' \in Asked \cup {Nothing}
  BY <1>7 DEF ClientTypeOK
<1> QED
  BY <1>5, <1>6, <1>8, <1>9, <1>10, <1>11, Zenon DEF ClientTypeOK

\* So do the timers and the token.
LEMMA TimerType ==
  ASSUME ClientTypeOK, Beat \/ TokenExpires \/ TokenRenewed
  PROVE  ClientTypeOK'
<1>1. CASE Beat
  <2>1. UNCHANGED <<socket, opened, status, sessionId, lastSeq, stopped, token, fatal>>
    BY <1>1 DEF Beat
  <2>2. CASE missedAcks >= MAX_MISSED_ACKS
    <3>1. closing' = TRUE /\ beating' = FALSE /\ said' = Nothing /\ UNCHANGED missedAcks
      BY <1>1, <2>2 DEF Beat
    <3> QED
      BY <2>1, <3>1 DEF ClientTypeOK
  <2>3. CASE ~(missedAcks >= MAX_MISSED_ACKS)
    <3>1. /\ missedAcks' = missedAcks + 1 /\ said' = Ask("HEARTBEAT", Nothing, 0)
          /\ UNCHANGED <<closing, beating>>
      BY <1>1, <2>3 DEF Beat
    <3>2. missedAcks' \in 0..MAX_MISSED_ACKS
      BY <2>3, <3>1 DEF ClientTypeOK, MAX_MISSED_ACKS
    <3> QED
      BY <2>1, <3>1, <3>2, AskType DEF ClientTypeOK
  <2> QED
    BY <2>2, <2>3
<1>2. CASE TokenExpires
  BY <1>2 DEF TokenExpires, ClientTypeOK, Tokens
<1>3. CASE TokenRenewed
  BY <1>3 DEF TokenRenewed, ClientTypeOK, Tokens
<1> QED
  BY <1>1, <1>2, <1>3

\* The wire towards the server.
LEMMA UplinkType ==
  ASSUME up \in [Conns -> Seq(Asked)], said' \in Asked \cup {Nothing},
         socket \in Conns \cup {Nothing}, Uplink
  PROVE  up' \in [Conns -> Seq(Asked)]
<1>1. CASE said' = Nothing \/ link[socket] # "up"
  BY <1>1 DEF Uplink
<1>2. CASE ~(said' = Nothing \/ link[socket] # "up")
  <2>1. up' = [up EXCEPT ![socket] = Append(@, said')] /\ said' \in Asked
    BY <1>2 DEF Uplink
  <2>2. CASE socket \in Conns
    <3>1. Append(up[socket], said') \in Seq(Asked)
      BY <2>1, <2>2, Appended
    <3> QED
      BY <2>1, <2>2, <3>1, SeqAt
  <2>3. CASE socket \notin Conns
    BY <2>1, <2>3
  <2> QED
    BY <2>2, <2>3
<1> QED
  BY <1>1, <1>2

\* Taking a frame off a queue leaves a queue.
LEMMA TailType ==
  ASSUME NEW S, NEW D, NEW f \in [D -> Seq(S)], NEW d \in D, f[d] # <<>>
  PROVE  [f EXCEPT ![d] = Tail(@)] \in [D -> Seq(S)]
<1>1. Tail(f[d]) \in Seq(S)
  BY Dropped
<1> QED
  BY <1>1, SeqAt

\* What the client handles of a frame.
LEMMA DeliverType ==
  ASSUME TypeOK, DeliverFrame
  PROVE  /\ ClientTypeOK' /\ down' \in [Conns -> Seq(Frames)] /\ up' \in [Conns -> Seq(Asked)]
         /\ applied' \in Seq(Nat) /\ UNCHANGED <<serverVars, link, failures, overlapped>>
<1>0. Conns = Sockets /\ None = Nothing
  BY GatewayAssumption
<1> DEFINE f == Head(down[socket])
<1>1. socket \in Conns /\ down[socket] # <<>>
  BY <1>0 DEF DeliverFrame, TypeOK, ClientTypeOK
<1>2. f \in Frames
  BY <1>1, Dropped DEF TypeOK
<1>3. f.op # "CLOSE" /\ HandleFrame(f) /\ down' = [down EXCEPT ![socket] = Tail(@)] /\ Uplink
  BY DEF DeliverFrame
<1>4. applied' = CASE f.op = "READY" -> <<f.n>>
                   [] f.op \in {"RESUMED", "EVENT"} -> Append(applied, f.n)
                   [] OTHER -> applied
  BY DEF DeliverFrame
<1>5. UNCHANGED <<serverVars, link, failures, overlapped>>
  BY DEF DeliverFrame
<1> HIDE DEF f
<1>6. ClientTypeOK'
  BY <1>2, <1>3, FrameType DEF TypeOK
<1>7. down' \in [Conns -> Seq(Frames)]
  BY <1>1, <1>3, TailType DEF TypeOK
<1>8. up' \in [Conns -> Seq(Asked)]
  BY <1>1, <1>3, <1>6, UplinkType DEF TypeOK, ClientTypeOK
<1>9. applied' \in Seq(Nat)
  <2>1. f.n \in Nat /\ applied \in Seq(Nat)
    BY <1>2 DEF Frames, TypeOK
  <2>2. <<f.n>> \in Seq(Nat) /\ Append(applied, f.n) \in Seq(Nat)
    BY <2>1
  <2>3. applied' \in {<<f.n>>, Append(applied, f.n), applied}
    BY <1>4
  <2> QED
    BY <2>1, <2>2, <2>3
<1> QED
  BY <1>5, <1>6, <1>7, <1>8, <1>9

\* TypeOK, step by step.
LEMMA GatewayTypeStep ==
  ASSUME TypeOK, ServerInv, [Next]_vars
  PROVE  TypeOK'
<1>0. ServerTypeOK /\ TaskInv /\ ClientTypeOK /\ Conns = Sockets /\ None = Nothing
  BY GatewayAssumption DEF TypeOK, ServerInv
<1>1. ServerTypeOK'
  BY <1>0, ServesAny, TypeStep
<1>2. CASE UNCHANGED vars
  <2>1. UNCHANGED <<down, up, failures, link, applied, overlapped>> /\ UNCHANGED clientVars
    BY <1>2 DEF vars, netVars, histVars
  <2>2. ClientTypeOK'
    BY <1>0, <2>1 DEF clientVars, ClientTypeOK
  <2> QED
    BY <1>1, <2>1, <2>2 DEF TypeOK
<1>3. CASE ServerMoves
  <2>1. down' \in [Conns -> Seq(Frames)]
    BY <1>1, <1>3, ForwardType DEF ServerMoves, TypeOK, ServerTypeOK
  <2>2. up' \in [Conns -> Seq(Asked)]
    <3>1. ASSUME NEW c \in Conns, Next1(c) PROVE up' \in [Conns -> Seq(Asked)]
      BY <3>1, TailType DEF Next1, TypeOK
    <3>2. UNCHANGED up \/ \E c \in Conns : Next1(c)
      BY <1>3 DEF ServerMoves, TakesIdentify, TakesResume, TakesOther, TakesNothing
    <3> QED
      BY <3>1, <3>2 DEF TypeOK
  <2>3. UNCHANGED <<failures, link, applied>> /\ UNCHANGED clientVars
    BY <1>3 DEF ServerMoves
  <2>4. ClientTypeOK'
    BY <1>0, <2>3 DEF clientVars, ClientTypeOK
  <2>5. overlapped' \subseteq Conns
    BY <1>3 DEF ServerMoves, Record, TypeOK
  <2> QED
    BY <1>1, <2>1, <2>2, <2>3, <2>4, <2>5 DEF TypeOK
<1>4. CASE OtherMoves
  <2>1. overlapped' = overlapped
    BY <1>4 DEF OtherMoves
  <2>2. ASSUME NEW c \in Conns, LinkDies(c) PROVE TypeOK'
    <3>1. /\ failures' = failures + 1 /\ link' = [link EXCEPT ![c] = "dead"]
          /\ down' = [down EXCEPT ![c] = <<>>] /\ up' = [up EXCEPT ![c] = <<>>]
          /\ UNCHANGED <<clientVars, applied>>
      BY <2>2 DEF LinkDies, histVars
    <3>2. ClientTypeOK'
      BY <1>0, <3>1 DEF clientVars, ClientTypeOK
    <3>3. down' \in [Conns -> Seq(Frames)] /\ up' \in [Conns -> Seq(Asked)]
      BY <3>1, SeqAt DEF TypeOK
    <3> QED
      BY <1>1, <2>1, <3>1, <3>2, <3>3 DEF TypeOK
  <2>3. CASE DeliverFrame
    BY <1>1, <2>1, <2>3, DeliverType DEF TypeOK
  <2>4. CASE DeliverClose
    <3>1. socket \in Conns /\ \E code : HandleClose(code)
      BY <1>0, <2>4 DEF DeliverClose, ClientTypeOK
    <3>2. down' = [down EXCEPT ![socket] = <<>>] /\ UNCHANGED <<up, link, failures, applied>>
      BY <2>4 DEF DeliverClose
    <3>3. down' \in [Conns -> Seq(Frames)]
      BY <3>1, <3>2, SeqAt DEF TypeOK
    <3>4. ClientTypeOK'
      BY <1>0, <3>1, CloseType
    <3> QED
      BY <1>1, <2>1, <3>2, <3>3, <3>4 DEF TypeOK
  <2>5. CASE ClientSide((Start \/ Retry) /\ UNCHANGED <<up, applied>>) \/ ClientSide(Stop /\ UNCHANGED <<up, applied>>)
    <3>1. (Start \/ Retry \/ Stop) /\ UNCHANGED <<up, applied, down, link, failures>>
      BY <2>5 DEF ClientSide
    <3>2. ClientTypeOK'
      BY <1>0, <3>1, OpenType
    <3> QED
      BY <1>1, <2>1, <3>1, <3>2 DEF TypeOK
  <2>6. CASE ClientSide(Beat /\ Uplink /\ UNCHANGED applied)
    <3>1. Beat /\ Uplink /\ UNCHANGED <<applied, down, link, failures>>
      BY <2>6 DEF ClientSide
    <3>2. ClientTypeOK'
      BY <1>0, <3>1, TimerType
    <3>3. up' \in [Conns -> Seq(Asked)]
      BY <1>0, <3>1, <3>2, UplinkType DEF TypeOK, ClientTypeOK
    <3> QED
      BY <1>1, <2>1, <3>1, <3>2, <3>3 DEF TypeOK
  <2>7. CASE \/ ClientSide(TokenExpires /\ UNCHANGED <<up, applied>>)
             \/ ClientSide(TokenRenewed /\ UNCHANGED <<up, applied>>)
    <3>1. (TokenExpires \/ TokenRenewed) /\ UNCHANGED <<up, applied, down, link, failures>>
      BY <2>7 DEF ClientSide
    <3>2. ClientTypeOK'
      BY <1>0, <3>1, TimerType
    <3> QED
      BY <1>1, <2>1, <3>1, <3>2 DEF TypeOK
  <2> QED
    BY <1>4, <2>2, <2>3, <2>4, <2>5, <2>6, <2>7 DEF OtherMoves, ClientStep
<1> QED
  BY <1>2, <1>3, <1>4, NextCases

\* The server of the gateway is the server of every lemma above: whatever the
\* client does, it keeps its types and ServerInv.
LEMMA GatewayInvariant == Spec => [](TypeOK /\ ServerInv)
<1>1. Init => TypeOK /\ ServerInv
  <2> SUFFICES ASSUME Init PROVE TypeOK /\ ServerInv
    OBVIOUS
  <2>1. ServerTypeOK /\ ServerInv
    BY InitOK DEF Init
  <2>2. ClientTypeOK
    <3>1. closing \in BOOLEAN /\ stopped \in BOOLEAN /\ beating \in BOOLEAN
      BY DEF Init, ClientInit
    <3>2. socket \in {Nothing} /\ opened \subseteq Sockets /\ sessionId \in {Nothing} /\ said \in {Nothing}
      BY DEF Init, ClientInit
    <3>3. status \in Statuses /\ fatal \in {"none", "auth", "outdated_client"}
      BY DEF Init, ClientInit, Statuses
    <3>4. token \in Tokens
      BY SocketsAssumption DEF Init, ClientInit, Tokens
    <3>5. lastSeq \in Nat /\ missedAcks \in 0..MAX_MISSED_ACKS
      BY DEF Init, ClientInit, MAX_MISSED_ACKS
    <3> QED
      BY <3>1, <3>2, <3>3, <3>4, <3>5 DEF ClientTypeOK
  <2>3. /\ down \in [Conns -> Seq(Frames)] /\ up \in [Conns -> Seq(Asked)] /\ failures \in Nat
        /\ link \in [Conns -> {"up", "dead"}] /\ applied \in Seq(Nat) /\ overlapped \subseteq Conns
    BY DEF Init
  <2> QED
    BY <2>1, <2>2, <2>3 DEF TypeOK
<1>2. (TypeOK /\ ServerInv) /\ [Next]_vars => (TypeOK /\ ServerInv)'
  <2> SUFFICES ASSUME TypeOK, ServerInv, [Next]_vars PROVE TypeOK' /\ ServerInv'
    OBVIOUS
  <2>1. ServerTypeOK
    BY DEF TypeOK
  <2> QED
    BY <2>1, GatewayTypeStep, ServesAny, InvStep
<1> QED
  BY <1>1, <1>2, PTL DEF Spec

\* The gateway's server is a server among arbitrary clients, whatever its one
\* client does and however the links fail (mod.rs, serve).
THEOREM GatewayServes == Spec => AnyServerSpec
<1>1. Init => ServerInit
  BY DEF Init
<1>2. (TypeOK /\ ServerInv) /\ [Next]_vars => [AnyServerNext]_serverVars
  BY ServesAny
<1> QED
  BY <1>1, <1>2, GatewayInvariant, PTL DEF Spec, AnyServerSpec

\* So the hub is the abstract registry there too, the newest frames stay in the
\* ring and the invariant of the server holds (hub.rs, session.rs, mod.rs).
THEOREM ServedSafely == Spec => /\ [](ServerTypeOK /\ ServerInv /\ RecentFramesKept)
                                /\ HubIsRegistry
  BY GatewayServes, AnyServerInvariant, AnyRing, AnyHub, PTL

(***************************************************************************)
(* The stream: what the client has handled of its session, what is on the   *)
(* wire to it and what the session has still to send are consecutive, as    *)
(* long as the dispatches and resumes of the session do not overlap.        *)
(***************************************************************************)
IsDispatch(f) == f.op \in DispatchOps
IsAsk(f)      == f.op \in {"HELLO", "INVALID_SESSION"}
IsAnswer(f)   == f.op \in {"IDENTIFY", "RESUME"}

\* Of the frames d on their way to the client: no dispatch is among them.
Bare(d)      == \A i \in DOMAIN d : ~IsDispatch(d[i])
Asking(d)    == \E i \in DOMAIN d : IsAsk(d[i])
Answering(u) == \E j \in DOMAIN u : IsAnswer(u[j])

\* At most one of a question on its way down and the answer on its way up.
OneQuestion(d, u) ==
  /\ \A i, j \in DOMAIN d : IsAsk(d[i]) /\ IsAsk(d[j]) => i = j
  /\ \A i, j \in DOMAIN u : IsAnswer(u[i]) /\ IsAnswer(u[j]) => i = j
  /\ ~(Asking(d) /\ Answering(u))

\* The client's session id is s once it has handled the first i frames of d.
Known(d, sid, s, i) == sid = s \/ \E j \in DOMAIN d : j <= i /\ d[j].op = "READY" /\ d[j].sess = s

\* The dispatches of d are of one session the client knows, x unless l is "closed".
Whose(d, sid, l, x) ==
  \A i \in DOMAIN d : IsDispatch(d[i]) =>
    /\ d[i].sess \in Conns /\ Known(d, sid, d[i].sess, i)
    /\ l # "closed" => d[i].sess = x
    /\ \A j \in DOMAIN d : IsDispatch(d[j]) => d[i].sess = d[j].sess

\* How far the client is in the stream of s.
At(sid, at, s) == IF sid = s THEN at ELSE 0

\* Every dispatch of a session outside over follows the one before it, or what the
\* client has handled.
InOrder(d, sid, at, over) ==
  \A i \in DOMAIN d : IsDispatch(d[i]) /\ d[i].sess \notin over =>
    /\ \/ d[i].n = At(sid, at, d[i].sess) + 1
       \/ \E j \in DOMAIN d : j < i /\ IsDispatch(d[j]) /\ d[j].n + 1 = d[i].n
    /\ \A j \in DOMAIN d : j < i /\ IsDispatch(d[j]) => d[j].n < d[i].n

\* What the client has handled and what is in d ends with number n.
UpTo(d, at, n) ==
  \/ n = at /\ Bare(d)
  \/ /\ \E i \in DOMAIN d : IsDispatch(d[i]) /\ d[i].n = n
     /\ \A i \in DOMAIN d : IsDispatch(d[i]) => d[i].n <= n

(***************************************************************************)
(* A frame more at the end of d, or one less at its front.                 *)
(***************************************************************************)
LEMMA NoneQueued ==
  /\ Bare(<<>>) /\ ~Asking(<<>>) /\ ~Answering(<<>>)
  /\ \A u \in Seq(Asked) : ~Answering(u) => OneQuestion(<<>>, u)
  BY DEF Bare, Asking, Answering, OneQuestion

\* Questions when a frame is sent to the client.
LEMMA AskAppended ==
  ASSUME NEW d \in Seq(Frames), NEW u \in Seq(Asked), NEW f \in Frames
  PROVE  /\ Bare(Append(d, f)) <=> Bare(d) /\ ~IsDispatch(f)
         /\ Asking(Append(d, f)) <=> Asking(d) \/ IsAsk(f)
         /\ (OneQuestion(d, u) /\ (IsAsk(f) => ~Asking(d) /\ ~Answering(u))) => OneQuestion(Append(d, f), u)
<1> DEFINE e == Append(d, f)
<1>1. /\ DOMAIN d = 1..Len(d) /\ DOMAIN e = 1..(Len(d) + 1) /\ Len(d) \in Nat
      /\ \A i \in 1..Len(d) : e[i] = d[i]
      /\ e[Len(d) + 1] = f
  BY Appended
<1> HIDE DEF e
<1>2. Bare(e) <=> Bare(d) /\ ~IsDispatch(f)
  BY <1>1 DEF Bare
<1>3. Asking(e) <=> Asking(d) \/ IsAsk(f)
  BY <1>1 DEF Asking
<1>4. ASSUME OneQuestion(d, u), IsAsk(f) => ~Asking(d) /\ ~Answering(u) PROVE OneQuestion(e, u)
  <2>1. ASSUME NEW i \in DOMAIN e, NEW j \in DOMAIN e, IsAsk(e[i]), IsAsk(e[j]) PROVE i = j
    BY <1>1, <1>4, <2>1 DEF OneQuestion, Asking
  <2> QED
    BY <1>3, <1>4, <2>1 DEF OneQuestion
<1> QED
  BY <1>2, <1>3, <1>4 DEF e

\* Answers when the client says something.
LEMMA AnswerAppended ==
  ASSUME NEW d \in Seq(Frames), NEW u \in Seq(Asked), NEW f \in Asked
  PROVE  /\ Answering(Append(u, f)) <=> Answering(u) \/ IsAnswer(f)
         /\ (OneQuestion(d, u) /\ (IsAnswer(f) => ~Asking(d) /\ ~Answering(u))) => OneQuestion(d, Append(u, f))
<1> DEFINE e == Append(u, f)
<1>1. /\ DOMAIN u = 1..Len(u) /\ DOMAIN e = 1..(Len(u) + 1) /\ Len(u) \in Nat
      /\ \A i \in 1..Len(u) : e[i] = u[i]
      /\ e[Len(u) + 1] = f
  BY Appended
<1> HIDE DEF e
<1>3. Answering(e) <=> Answering(u) \/ IsAnswer(f)
  BY <1>1 DEF Answering
<1>4. ASSUME OneQuestion(d, u), IsAnswer(f) => ~Asking(d) /\ ~Answering(u) PROVE OneQuestion(d, e)
  <2>1. ASSUME NEW i \in DOMAIN e, NEW j \in DOMAIN e, IsAnswer(e[i]), IsAnswer(e[j]) PROVE i = j
    BY <1>1, <1>4, <2>1 DEF OneQuestion, Answering
  <2> QED
    BY <1>3, <1>4, <2>1 DEF OneQuestion
<1> QED
  BY <1>3, <1>4 DEF e

\* Questions when the client takes a frame.
LEMMA AskDropped ==
  ASSUME NEW d \in Seq(Frames), NEW u \in Seq(Asked), d # <<>>
  PROVE  /\ Bare(d) => Bare(Tail(d)) /\ ~IsDispatch(Head(d))
         /\ Bare(Tail(d)) /\ ~IsDispatch(Head(d)) => Bare(d)
         /\ Asking(Tail(d)) => Asking(d)
         /\ IsAsk(Head(d)) => Asking(d)
         /\ OneQuestion(d, u) => /\ OneQuestion(Tail(d), u)
                                 /\ IsAsk(Head(d)) => ~Asking(Tail(d)) /\ ~Answering(u)
<1> DEFINE e == Tail(d)
<1> DEFINE h == Head(d)
<1>1. /\ DOMAIN d = 1..Len(d) /\ DOMAIN e = 1..(Len(d) - 1) /\ Len(d) \in Nat \ {0}
      /\ \A i \in 1..(Len(d) - 1) : e[i] = d[i + 1]
      /\ h = d[1]
  BY Dropped
<1> HIDE DEF e, h
<1>2. Bare(d) <=> Bare(e) /\ ~IsDispatch(h)
  <2>1. ASSUME Bare(e), ~IsDispatch(h), NEW i \in DOMAIN d PROVE ~IsDispatch(d[i])
    <3>1. CASE i = 1
      BY <1>1, <2>1, <3>1
    <3>2. CASE i # 1
      <4>1. i - 1 \in DOMAIN e /\ e[i - 1] = d[i]
        BY <1>1, <3>2
      <4> QED
        BY <2>1, <4>1 DEF Bare
    <3> QED
      BY <3>1, <3>2
  <2>2. ASSUME Bare(d), NEW i \in DOMAIN e PROVE ~IsDispatch(e[i])
    <3>1. i + 1 \in DOMAIN d /\ e[i] = d[i + 1]
      BY <1>1
    <3> QED
      BY <2>2, <3>1 DEF Bare
  <2>3. Bare(d) => ~IsDispatch(h)
    BY <1>1 DEF Bare
  <2>4. Bare(e) /\ ~IsDispatch(h) => Bare(d)
    BY <2>1 DEF Bare
  <2>5. Bare(d) => Bare(e)
    BY <2>2 DEF Bare
  <2> QED
    BY <2>3, <2>4, <2>5
<1>3. (Asking(e) => Asking(d)) /\ (IsAsk(h) => Asking(d))
  <2>1. ASSUME NEW i \in DOMAIN e, IsAsk(e[i]) PROVE Asking(d)
    <3>1. i + 1 \in DOMAIN d /\ e[i] = d[i + 1]
      BY <1>1
    <3> QED
      BY <2>1, <3>1 DEF Asking
  <2>2. Asking(e) => Asking(d)
    BY <2>1 DEF Asking
  <2>3. IsAsk(h) => Asking(d)
    BY <1>1 DEF Asking
  <2> QED
    BY <2>2, <2>3
<1>4. ASSUME OneQuestion(d, u)
      PROVE  OneQuestion(e, u) /\ (IsAsk(h) => ~Asking(e) /\ ~Answering(u))
  <2>1. ASSUME NEW i \in DOMAIN e, NEW j \in DOMAIN e, IsAsk(e[i]), IsAsk(e[j]) PROVE i = j
    <3>1. i + 1 \in DOMAIN d /\ j + 1 \in DOMAIN d /\ e[i] = d[i + 1] /\ e[j] = d[j + 1]
      BY <1>1
    <3>2. i + 1 = j + 1
      BY <1>4, <2>1, <3>1 DEF OneQuestion
    <3> QED
      BY <1>1, <3>2
  <2>2. ASSUME IsAsk(h), NEW i \in DOMAIN e, IsAsk(e[i]) PROVE FALSE
    <3>1. i + 1 \in DOMAIN d /\ 1 \in DOMAIN d /\ e[i] = d[i + 1] /\ h = d[1]
      BY <1>1
    <3>2. i + 1 = 1
      BY <1>4, <2>2, <3>1 DEF OneQuestion
    <3> QED
      BY <1>1, <3>2
  <2> QED
    BY <1>3, <1>4, <2>1, <2>2 DEF OneQuestion, Asking
<1> QED
  BY <1>2, <1>3, <1>4 DEF e, h

\* Answers when the server takes a frame.
LEMMA AnswerDropped ==
  ASSUME NEW d \in Seq(Frames), NEW u \in Seq(Asked), u # <<>>
  PROVE  /\ Answering(Tail(u)) => Answering(u)
         /\ IsAnswer(Head(u)) => Answering(u)
         /\ OneQuestion(d, u) => /\ OneQuestion(d, Tail(u))
                                 /\ IsAnswer(Head(u)) => ~Answering(Tail(u))
<1> DEFINE e == Tail(u)
<1> DEFINE h == Head(u)
<1>1. /\ DOMAIN u = 1..Len(u) /\ DOMAIN e = 1..(Len(u) - 1) /\ Len(u) \in Nat \ {0}
      /\ \A i \in 1..(Len(u) - 1) : e[i] = u[i + 1]
      /\ h = u[1]
  BY Dropped
<1> HIDE DEF e, h
<1>3. (Answering(e) => Answering(u)) /\ (IsAnswer(h) => Answering(u))
  <2>1. ASSUME NEW i \in DOMAIN e, IsAnswer(e[i]) PROVE Answering(u)
    <3>1. i + 1 \in DOMAIN u /\ e[i] = u[i + 1]
      BY <1>1
    <3> QED
      BY <2>1, <3>1 DEF Answering
  <2>2. Answering(e) => Answering(u)
    BY <2>1 DEF Answering
  <2>3. IsAnswer(h) => Answering(u)
    BY <1>1 DEF Answering
  <2> QED
    BY <2>2, <2>3
<1>4. ASSUME OneQuestion(d, u)
      PROVE  OneQuestion(d, e) /\ (IsAnswer(h) => ~Answering(e))
  <2>1. ASSUME NEW i \in DOMAIN e, NEW j \in DOMAIN e, IsAnswer(e[i]), IsAnswer(e[j]) PROVE i = j
    <3>1. i + 1 \in DOMAIN u /\ j + 1 \in DOMAIN u /\ e[i] = u[i + 1] /\ e[j] = u[j + 1]
      BY <1>1
    <3>2. i + 1 = j + 1
      BY <1>4, <2>1, <3>1 DEF OneQuestion
    <3> QED
      BY <1>1, <3>2
  <2>2. ASSUME IsAnswer(h), NEW i \in DOMAIN e, IsAnswer(e[i]) PROVE FALSE
    <3>1. i + 1 \in DOMAIN u /\ 1 \in DOMAIN u /\ e[i] = u[i + 1] /\ h = u[1]
      BY <1>1
    <3>2. i + 1 = 1
      BY <1>4, <2>2, <3>1 DEF OneQuestion
    <3> QED
      BY <1>1, <3>2
  <2> QED
    BY <1>3, <1>4, <2>1, <2>2 DEF OneQuestion, Answering
<1> QED
  BY <1>3, <1>4 DEF e, h

\* Every frame has a number.
LEMMA Numbered ==
  ASSUME NEW d \in Seq(Frames), NEW i \in DOMAIN d
  PROVE  d[i] \in Frames /\ d[i].n \in Nat
<1>1. d[i] \in Frames
  OBVIOUS
<1> QED
  BY <1>1 DEF Frames

\* A session the client knows, or will know, stays so when a frame is sent.
LEMMA KnownAppended ==
  ASSUME NEW d \in Seq(Frames), NEW f \in Frames, NEW sid, NEW s,
         NEW i \in Nat, NEW k \in Nat, i <= k, Known(d, sid, s, i)
  PROVE  Known(Append(d, f), sid, s, k)
<1> DEFINE e == Append(d, f)
<1>1. /\ DOMAIN d = 1..Len(d) /\ DOMAIN e = 1..(Len(d) + 1) /\ Len(d) \in Nat
      /\ \A j \in 1..Len(d) : e[j] = d[j]
  BY Appended
<1> HIDE DEF e
<1>2. ASSUME NEW j \in DOMAIN d, j <= i, d[j].op = "READY", d[j].sess = s
      PROVE  Known(e, sid, s, k)
  <2>1. j \in DOMAIN e /\ j <= k /\ e[j].op = "READY" /\ e[j].sess = s
    BY <1>1, <1>2
  <2> QED
    BY <2>1 DEF Known
<1> QED
  BY <1>2 DEF Known, e

\* A frame that is no dispatch changes nothing.
LEMMA OtherAppended ==
  ASSUME NEW d \in Seq(Frames), NEW f \in Frames, NEW sid, NEW at, NEW over, NEW l, NEW x,
         ~IsDispatch(f)
  PROVE  /\ Whose(d, sid, l, x) => Whose(Append(d, f), sid, l, x)
         /\ InOrder(d, sid, at, over) => InOrder(Append(d, f), sid, at, over)
         /\ \A n : UpTo(d, at, n) => UpTo(Append(d, f), at, n)
<1> DEFINE e == Append(d, f)
<1>1. /\ DOMAIN d = 1..Len(d) /\ DOMAIN e = 1..(Len(d) + 1) /\ Len(d) \in Nat
      /\ \A i \in 1..Len(d) : e[i] = d[i]
      /\ e[Len(d) + 1] = f
  BY Appended
<1>2. ASSUME NEW i \in DOMAIN e, IsDispatch(e[i]) PROVE i \in DOMAIN d /\ e[i] = d[i]
  BY <1>1, <1>2
<1>3. \A i \in DOMAIN d : i \in DOMAIN e /\ e[i] = d[i]
  BY <1>1
<1>4. ASSUME Whose(d, sid, l, x) PROVE Whose(e, sid, l, x)
  <2>1. ASSUME NEW i \in DOMAIN d, IsDispatch(d[i]) PROVE Known(e, sid, d[i].sess, i)
    <3>1. Known(d, sid, d[i].sess, i) /\ i \in Nat
      BY <1>1, <1>4, <2>1 DEF Whose
    <3> QED
      BY <3>1, KnownAppended
  <2> HIDE DEF e
  <2> QED
    BY <1>2, <1>4, <2>1 DEF Whose
<1> HIDE DEF e
<1>5. ASSUME InOrder(d, sid, at, over) PROVE InOrder(e, sid, at, over)
  BY <1>2, <1>3, <1>5 DEF InOrder
<1>6. ASSUME NEW n, UpTo(d, at, n) PROVE UpTo(e, at, n)
  BY <1>2, <1>3, <1>6 DEF UpTo, Bare
<1> QED
  BY <1>4, <1>5, <1>6 DEF e

\* The next dispatch keeps the stream what it is.
LEMMA DispatchAppended ==
  ASSUME NEW d \in Seq(Frames), NEW f \in Frames, NEW sid, NEW at \in Nat, NEW over, NEW l, NEW x,
         IsDispatch(f)
  PROVE  /\ /\ Whose(d, sid, l, x) /\ f.sess \in Conns /\ (l # "closed" => f.sess = x)
            /\ Known(d, sid, f.sess, Len(d)) \/ f.op = "READY"
            /\ \A j \in DOMAIN d : IsDispatch(d[j]) => d[j].sess = f.sess
            => Whose(Append(d, f), sid, l, x)
         /\ /\ InOrder(d, sid, at, over)
            /\ f.sess \notin over => \E n \in Nat : UpTo(d, At(sid, at, f.sess), n) /\ f.n = n + 1
            => InOrder(Append(d, f), sid, at, over)
         /\ \A n \in Nat : UpTo(d, at, n) /\ f.n = n + 1 => UpTo(Append(d, f), at, n + 1)
<1> DEFINE e == Append(d, f)
<1> DEFINE k == Len(d) + 1
<1>1. /\ DOMAIN d = 1..Len(d) /\ DOMAIN e = 1..k /\ Len(d) \in Nat
      /\ \A i \in 1..Len(d) : e[i] = d[i]
      /\ e[k] = f
  BY Appended
<1>2. ASSUME NEW i \in DOMAIN e PROVE i = k \/ (i \in DOMAIN d /\ e[i] = d[i] /\ i < k)
  BY <1>1
<1>3. k \in DOMAIN e /\ \A i \in DOMAIN d : i \in DOMAIN e /\ e[i] = d[i] /\ i < k
  BY <1>1
<1>4. ASSUME Whose(d, sid, l, x), f.sess \in Conns, l # "closed" => f.sess = x,
             Known(d, sid, f.sess, Len(d)) \/ f.op = "READY",
             \A j \in DOMAIN d : IsDispatch(d[j]) => d[j].sess = f.sess
      PROVE  Whose(e, sid, l, x)
  <2>1. ASSUME NEW i \in DOMAIN d, IsDispatch(d[i]) PROVE Known(e, sid, d[i].sess, i)
    <3>1. Known(d, sid, d[i].sess, i) /\ i \in Nat
      BY <1>1, <1>4, <2>1 DEF Whose
    <3> QED
      BY <3>1, KnownAppended
  <2>2. Known(e, sid, f.sess, k)
    <3>1. CASE Known(d, sid, f.sess, Len(d))
      <4>1. Len(d) \in Nat /\ k \in Nat /\ Len(d) <= k
        BY <1>1
      <4> QED
        BY <3>1, <4>1, KnownAppended
    <3>2. CASE f.op = "READY"
      <4> HIDE DEF e
      <4>1. k \in DOMAIN e /\ k <= k /\ e[k].op = "READY" /\ e[k].sess = f.sess
        BY <1>1, <3>2
      <4> QED
        BY <4>1 DEF Known
    <3> QED
      BY <1>4, <3>1, <3>2
  <2> HIDE DEF e, k
  <2>3. \A i \in DOMAIN e : IsDispatch(e[i]) => e[i].sess = f.sess
    BY <1>1, <1>2, <1>4
  <2>4. ASSUME NEW i \in DOMAIN e, IsDispatch(e[i])
        PROVE  e[i].sess \in Conns /\ Known(e, sid, e[i].sess, i) /\ (l # "closed" => e[i].sess = x)
    <3>1. CASE i = k
      BY <1>1, <1>4, <2>2, <3>1
    <3>2. CASE i # k
      BY <1>2, <1>4, <2>1, <2>4, <3>2 DEF Whose
    <3> QED
      BY <3>1, <3>2
  <2> QED
    BY <2>3, <2>4 DEF Whose
<1> HIDE DEF e, k
<1>5. ASSUME NEW a \in Nat, NEW n \in Nat, UpTo(d, a, n), f.n = n + 1
      PROVE  /\ f.n = a + 1 \/ \E j \in DOMAIN e : j < k /\ IsDispatch(e[j]) /\ e[j].n + 1 = f.n
             /\ \A j \in DOMAIN e : j < k /\ IsDispatch(e[j]) => e[j].n < f.n
             /\ UpTo(e, a, n + 1)
  <2>1. \A i \in DOMAIN d : d[i].n \in Nat
    BY Numbered
  <2>2. ASSUME NEW i \in DOMAIN d, IsDispatch(d[i]) PROVE d[i].n <= n
    BY <1>5, <2>2 DEF UpTo, Bare
  <2>3. f.n = a + 1 \/ \E j \in DOMAIN d : IsDispatch(d[j]) /\ d[j].n + 1 = f.n
    BY <1>5 DEF UpTo
  <2>4. f.n = a + 1 \/ \E j \in DOMAIN e : j < k /\ IsDispatch(e[j]) /\ e[j].n + 1 = f.n
    BY <1>3, <2>3
  <2>7. n \in Nat /\ f.n = n + 1
    BY <1>5
  <2>5. \A j \in DOMAIN e : j # k /\ IsDispatch(e[j]) => e[j].n < f.n
    BY <1>2, <2>1, <2>2, <2>7
  <2>6. k \in DOMAIN e /\ e[k] = f
    BY <1>1, <1>3
  <2>9. k \in Nat
    BY <1>1 DEF k
  <2>8. \A j \in DOMAIN e : IsDispatch(e[j]) => e[j].n <= n + 1
    <3> SUFFICES ASSUME NEW j \in DOMAIN e, IsDispatch(e[j]) PROVE e[j].n <= n + 1
      OBVIOUS
    <3>1. CASE j = k
      BY <2>6, <2>7, <3>1
    <3>2. CASE j # k
      <4>1. j \in DOMAIN d /\ e[j] = d[j]
        BY <1>2, <3>2
      <4> QED
        BY <2>1, <2>2, <2>7, <4>1
    <3> QED
      BY <3>1, <3>2
  <2>10. UpTo(e, a, n + 1)
    BY <2>6, <2>7, <2>8 DEF UpTo
  <2> QED
    BY <2>4, <2>5, <2>9, <2>10
<1>6. ASSUME InOrder(d, sid, at, over),
             f.sess \notin over => \E n \in Nat : UpTo(d, At(sid, at, f.sess), n) /\ f.n = n + 1
      PROVE  InOrder(e, sid, at, over)
  <2> SUFFICES ASSUME NEW i \in DOMAIN e, IsDispatch(e[i]), e[i].sess \notin over
               PROVE  /\ \/ e[i].n = At(sid, at, e[i].sess) + 1
                         \/ \E j \in DOMAIN e : j < i /\ IsDispatch(e[j]) /\ e[j].n + 1 = e[i].n
                      /\ \A j \in DOMAIN e : j < i /\ IsDispatch(e[j]) => e[j].n < e[i].n
    BY DEF InOrder
  <2>1. CASE i = k
    <3>1. e[i] = f
      BY <1>1, <2>1
    <3>2. PICK n \in Nat : UpTo(d, At(sid, at, f.sess), n) /\ f.n = n + 1
      BY <1>6, <3>1
    <3>3. At(sid, at, f.sess) \in Nat
      BY DEF At
    <3> QED
      BY <1>5, <2>1, <3>1, <3>2, <3>3
  <2>2. CASE i # k
    <3>1. i \in DOMAIN d /\ e[i] = d[i] /\ i < k
      BY <1>2, <2>2
    <3>2. \A j \in DOMAIN e : j < i => j \in DOMAIN d /\ e[j] = d[j]
      BY <1>1, <3>1 DEF k
    <3>3. /\ \/ d[i].n = At(sid, at, d[i].sess) + 1
             \/ \E j \in DOMAIN d : j < i /\ IsDispatch(d[j]) /\ d[j].n + 1 = d[i].n
          /\ \A j \in DOMAIN d : j < i /\ IsDispatch(d[j]) => d[j].n < d[i].n
      BY <1>6, <3>1 DEF InOrder
    <3> QED
      BY <1>3, <3>1, <3>2, <3>3
  <2> QED
    BY <2>1, <2>2
<1> QED
  BY <1>4, <1>5, <1>6 DEF e

\* A frame less at the front: one that is no dispatch.
LEMMA OtherDropped ==
  ASSUME NEW d \in Seq(Frames), d # <<>>, NEW sid, NEW at, NEW over, NEW l, NEW x,
         ~IsDispatch(Head(d))
  PROVE  /\ Whose(d, sid, l, x) => Whose(Tail(d), sid, l, x)
         /\ InOrder(d, sid, at, over) => InOrder(Tail(d), sid, at, over)
         /\ \A n : UpTo(d, at, n) => UpTo(Tail(d), at, n)
         /\ \A s : Known(d, sid, s, Len(d)) => Known(Tail(d), sid, s, Len(Tail(d)))
<1> DEFINE e == Tail(d)
<1> DEFINE h == Head(d)
<1>1. /\ DOMAIN d = 1..Len(d) /\ DOMAIN e = 1..(Len(d) - 1) /\ Len(d) \in Nat \ {0}
      /\ \A i \in 1..(Len(d) - 1) : e[i] = d[i + 1]
      /\ h = d[1] /\ Len(e) = Len(d) - 1
  BY Dropped
<1> HIDE DEF e, h
<1>2. \A i \in DOMAIN e : i + 1 \in DOMAIN d /\ e[i] = d[i + 1] /\ i \in Nat
  BY <1>1
<1>3. ASSUME NEW i \in DOMAIN d, i # 1 PROVE i - 1 \in DOMAIN e /\ e[i - 1] = d[i] /\ i \in Nat
  BY <1>1, <1>3
<1>4. ASSUME NEW i \in DOMAIN d, IsDispatch(d[i]) PROVE i # 1
  BY <1>1, <1>4 DEF h
<1>5. ASSUME NEW i \in DOMAIN d, d[i].op = "READY" PROVE i # 1
  BY <1>4, <1>5 DEF IsDispatch, DispatchOps
<1>6. ASSUME NEW s, NEW i \in Nat, Known(d, sid, s, i + 1) PROVE Known(e, sid, s, i)
  <2>1. ASSUME NEW j \in DOMAIN d, j <= i + 1, d[j].op = "READY", d[j].sess = s
        PROVE  \E m \in DOMAIN e : m <= i /\ e[m].op = "READY" /\ e[m].sess = s
    <3>1. j - 1 \in DOMAIN e /\ e[j - 1] = d[j] /\ j \in Nat
      BY <1>3, <1>5, <2>1
    <3> QED
      BY <2>1, <3>1
  <2> QED
    BY <1>6, <2>1 DEF Known
<1>7. ASSUME Whose(d, sid, l, x) PROVE Whose(e, sid, l, x)
  BY <1>2, <1>6, <1>7 DEF Whose
<1>8. ASSUME InOrder(d, sid, at, over) PROVE InOrder(e, sid, at, over)
  <2> SUFFICES ASSUME NEW i \in DOMAIN e, IsDispatch(e[i]), e[i].sess \notin over
               PROVE  /\ \/ e[i].n = At(sid, at, e[i].sess) + 1
                         \/ \E j \in DOMAIN e : j < i /\ IsDispatch(e[j]) /\ e[j].n + 1 = e[i].n
                      /\ \A j \in DOMAIN e : j < i /\ IsDispatch(e[j]) => e[j].n < e[i].n
    BY DEF InOrder
  <2>1. i + 1 \in DOMAIN d /\ e[i] = d[i + 1] /\ i \in Nat
    BY <1>2
  <2>2. /\ \/ e[i].n = At(sid, at, e[i].sess) + 1
           \/ \E j \in DOMAIN d : j < i + 1 /\ IsDispatch(d[j]) /\ d[j].n + 1 = e[i].n
        /\ \A j \in DOMAIN d : j < i + 1 /\ IsDispatch(d[j]) => d[j].n < e[i].n
    BY <1>8, <2>1 DEF InOrder
  <2>3. ASSUME NEW j \in DOMAIN d, j < i + 1, IsDispatch(d[j]), d[j].n + 1 = e[i].n
        PROVE  \E m \in DOMAIN e : m < i /\ IsDispatch(e[m]) /\ e[m].n + 1 = e[i].n
    <3>1. j - 1 \in DOMAIN e /\ e[j - 1] = d[j] /\ j \in Nat
      BY <1>3, <1>4, <2>3
    <3>2. j - 1 < i
      BY <2>1, <2>3, <3>1
    <3>3. IsDispatch(e[j - 1]) /\ e[j - 1].n + 1 = e[i].n
      BY <2>3, <3>1
    <3> QED
      BY <3>1, <3>2, <3>3
  <2>4. ASSUME NEW j \in DOMAIN e, j < i, IsDispatch(e[j]) PROVE e[j].n < e[i].n
    <3>1. j + 1 \in DOMAIN d /\ e[j] = d[j + 1] /\ j + 1 < i + 1
      BY <1>2, <2>1, <2>4
    <3> QED
      BY <2>2, <2>4, <3>1
  <2> QED
    BY <2>2, <2>3, <2>4
<1>9. ASSUME NEW n, UpTo(d, at, n) PROVE UpTo(e, at, n)
  <2>1. CASE n = at /\ Bare(d)
    <3>1. Bare(e)
      BY <1>2, <2>1 DEF Bare
    <3> QED
      BY <2>1, <3>1 DEF UpTo
  <2>2. CASE /\ \E i \in DOMAIN d : IsDispatch(d[i]) /\ d[i].n = n
             /\ \A i \in DOMAIN d : IsDispatch(d[i]) => d[i].n <= n
    <3>1. PICK i \in DOMAIN d : IsDispatch(d[i]) /\ d[i].n = n
      BY <2>2
    <3>2. i - 1 \in DOMAIN e /\ IsDispatch(e[i - 1]) /\ e[i - 1].n = n
      BY <1>3, <1>4, <3>1
    <3>3. \A j \in DOMAIN e : IsDispatch(e[j]) => e[j].n <= n
      BY <1>2, <2>2
    <3> QED
      BY <3>2, <3>3 DEF UpTo
  <2> QED
    BY <1>9, <2>1, <2>2 DEF UpTo
<1>10. ASSUME NEW s, Known(d, sid, s, Len(d)) PROVE Known(e, sid, s, Len(e))
  <2>1. Len(e) \in Nat /\ Len(d) = Len(e) + 1
    BY <1>1
  <2>2. Known(d, sid, s, Len(e) + 1)
    BY <1>10, <2>1
  <2> QED
    BY <1>6, <2>1, <2>2
<1> QED
  BY <1>7, <1>8, <1>9, <1>10 DEF e

\* Or a dispatch, which the client handles: it is the next of its session, and
\* the rest goes on from there.
LEMMA DispatchDropped ==
  ASSUME NEW d \in Seq(Frames), d # <<>>, NEW sid, NEW at \in Nat, NEW over, NEW l, NEW x,
         IsDispatch(Head(d)), Whose(d, sid, l, x), InOrder(d, sid, at, over)
  PROVE  /\ Head(d).op # "READY" => sid = Head(d).sess
         /\ Head(d).sess \in Conns
         /\ Head(d).sess \notin over => Head(d).n = At(sid, at, Head(d).sess) + 1
         /\ Whose(Tail(d), Head(d).sess, l, x)
         /\ InOrder(Tail(d), Head(d).sess, Head(d).n, over)
         /\ \A a, n : Head(d).sess \notin over /\ UpTo(d, a, n) => UpTo(Tail(d), Head(d).n, n)
<1> PICK f : f = Head(d) /\ IsDispatch(f)
  OBVIOUS
<1> PICK to : to = IF f.op = "READY" THEN f.sess ELSE sid
  OBVIOUS
<1> DEFINE e == Tail(d)
<1>1. /\ DOMAIN d = 1..Len(d) /\ DOMAIN e = 1..(Len(d) - 1) /\ Len(d) \in Nat \ {0}
      /\ \A i \in 1..(Len(d) - 1) : e[i] = d[i + 1]
      /\ f = d[1]
  BY Dropped
<1> HIDE DEF e
<1>2. \A i \in DOMAIN e : i + 1 \in DOMAIN d /\ e[i] = d[i + 1] /\ i \in Nat /\ 1 < i + 1
  BY <1>1
<1>3. ASSUME NEW i \in DOMAIN d, i # 1 PROVE i - 1 \in DOMAIN e /\ e[i - 1] = d[i] /\ i \in Nat
  BY <1>1, <1>3
<1>4. 1 \in DOMAIN d /\ d[1] = f
  BY <1>1
<1>5. \A i \in DOMAIN d : IsDispatch(d[i]) => d[i].sess = f.sess
  BY <1>4 DEF Whose
<1>6. to = f.sess /\ f.sess \in Conns
  <2>1. f.sess \in Conns /\ Known(d, sid, f.sess, 1)
    BY <1>4 DEF Whose
  <2>2. ASSUME NEW j \in DOMAIN d, j <= 1 PROVE j = 1
    BY <1>1, <2>2
  <2>3. sid = f.sess \/ f.op = "READY"
    BY <1>4, <2>1, <2>2 DEF Known
  <2> QED
    BY <2>1, <2>3
<1>7. ASSUME f.sess \notin over PROVE f.n = At(sid, at, f.sess) + 1
  <2>1. ASSUME NEW j \in DOMAIN d, j < 1 PROVE FALSE
    BY <1>1, <2>1
  <2> QED
    BY <1>4, <1>7, <2>1 DEF InOrder
<1>8. Whose(e, to, l, x)
  <2>1. \A i \in DOMAIN e : IsDispatch(e[i]) => e[i].sess = to
    BY <1>2, <1>5, <1>6
  <2> QED
    BY <1>6, <2>1 DEF Whose, Known
<1>9. InOrder(e, to, f.n, over)
  <2> SUFFICES ASSUME NEW i \in DOMAIN e, IsDispatch(e[i]), e[i].sess \notin over
               PROVE  /\ \/ e[i].n = At(to, f.n, e[i].sess) + 1
                         \/ \E j \in DOMAIN e : j < i /\ IsDispatch(e[j]) /\ e[j].n + 1 = e[i].n
                      /\ \A j \in DOMAIN e : j < i /\ IsDispatch(e[j]) => e[j].n < e[i].n
    BY DEF InOrder
  <2>1. i + 1 \in DOMAIN d /\ e[i] = d[i + 1] /\ i \in Nat /\ 1 < i + 1
    BY <1>2
  <2>2. e[i].sess = f.sess /\ At(to, f.n, e[i].sess) = f.n
    BY <1>5, <1>6, <2>1 DEF At
  <2>3. f.n = At(sid, at, f.sess) + 1
    BY <1>7, <2>2
  <2>4. /\ \/ e[i].n = At(sid, at, f.sess) + 1
           \/ \E j \in DOMAIN d : j < i + 1 /\ IsDispatch(d[j]) /\ d[j].n + 1 = e[i].n
        /\ \A j \in DOMAIN d : j < i + 1 /\ IsDispatch(d[j]) => d[j].n < e[i].n
    BY <2>1, <2>2 DEF InOrder
  <2>5. f.n < e[i].n
    BY <1>4, <2>1, <2>4
  <2>6. f.n \in Nat /\ e[i].n \in Nat
    BY <1>4, <2>1, Numbered
  <2>7. e[i].n = f.n + 1 \/ \E m \in DOMAIN e : m < i /\ IsDispatch(e[m]) /\ e[m].n + 1 = e[i].n
    <3>1. e[i].n # At(sid, at, f.sess) + 1
      BY <2>3, <2>5, <2>6
    <3>2. PICK j \in DOMAIN d : j < i + 1 /\ IsDispatch(d[j]) /\ d[j].n + 1 = e[i].n
      BY <2>4, <3>1
    <3>3. CASE j = 1
      BY <1>4, <3>2, <3>3
    <3>4. CASE j # 1
      <4>1. j - 1 \in DOMAIN e /\ e[j - 1] = d[j] /\ j \in Nat
        BY <1>3, <3>4
      <4> QED
        BY <2>1, <3>2, <4>1
    <3> QED
      BY <3>3, <3>4
  <2>8. ASSUME NEW j \in DOMAIN e, j < i, IsDispatch(e[j]) PROVE e[j].n < e[i].n
    <3>1. j + 1 \in DOMAIN d /\ e[j] = d[j + 1] /\ j + 1 < i + 1
      BY <1>2, <2>1, <2>8
    <3> QED
      BY <2>4, <2>8, <3>1
  <2> QED
    BY <2>2, <2>7, <2>8
<1>10. ASSUME NEW a, NEW n, f.sess \notin over, UpTo(d, a, n) PROVE UpTo(e, f.n, n)
  <2>1. /\ \E i \in DOMAIN d : IsDispatch(d[i]) /\ d[i].n = n
        /\ \A i \in DOMAIN d : IsDispatch(d[i]) => d[i].n <= n
    BY <1>4, <1>10 DEF UpTo, Bare
  <2>2. PICK i \in DOMAIN d : IsDispatch(d[i]) /\ d[i].n = n
    BY <2>1
  <2>3. CASE i = 1
    <3>1. ASSUME NEW j \in DOMAIN e, IsDispatch(e[j]) PROVE FALSE
      <4>1. j + 1 \in DOMAIN d /\ e[j] = d[j + 1] /\ 1 < j + 1
        BY <1>2
      <4>2. d[j + 1].sess \notin over
        BY <1>5, <1>10, <3>1, <4>1
      <4>3. f.n < d[j + 1].n
        BY <1>4, <3>1, <4>1, <4>2 DEF InOrder
      <4>4. d[j + 1].n <= f.n
        BY <1>4, <2>1, <2>2, <2>3, <3>1, <4>1
      <4>5. f.n \in Nat /\ d[j + 1].n \in Nat
        BY <1>4, <4>1, Numbered
      <4> QED
        BY <4>3, <4>4, <4>5
    <3> QED
      BY <1>4, <2>2, <2>3, <3>1 DEF UpTo, Bare
  <2>4. CASE i # 1
    <3>1. i - 1 \in DOMAIN e /\ e[i - 1] = d[i]
      BY <1>3, <2>4
    <3>2. \A j \in DOMAIN e : IsDispatch(e[j]) => e[j].n <= n
      BY <1>2, <2>1
    <3> QED
      BY <2>2, <3>1, <3>2 DEF UpTo
  <2> QED
    BY <2>3, <2>4
<1> QED
  BY <1>6, <1>7, <1>8, <1>9, <1>10 DEF e

(***************************************************************************)
(* What is under way on a session, and how far its stream has got.         *)
(***************************************************************************)
\* p is inside a dispatch or a resume of s.
Working(p, s) == sess[p] = s /\ pc[p] \in InDispatch

\* Nobody shares s while it is dispatched on or resumed.
OneAt(s)   == \A p, q \in Procs : Working(p, s) /\ Working(q, s) => p = q
OneAtATime == \A s \in Conns \ overlapped : OneAt(s)

\* Someone may still dispatch on s, or resume it.
InUse(s) == \/ s \in sessions
            \/ \E p \in Procs : sess[p] = s
            \/ \E p \in Publishers : s \in todo[p]

\* A number of s is taken whose frame is not in the ring yet.
Pending(s) == \E p \in Procs : sess[p] = s /\ pc[p] = "store"

\* The ring of s holds every number after evicted_through, in order.
LedgerInv(s) ==
  /\ Pending(s) => evicted_through[s] + Len(buffer[s]) + 1 = seq[s]
  /\ ~Pending(s) => evicted_through[s] + Len(buffer[s]) = seq[s]
  /\ \A i \in DOMAIN buffer[s] : buffer[s][i].n = evicted_through[s] + i
  /\ \A p \in Procs : sess[p] = s /\ pc[p] \in {"store", "send"} => num[p] = seq[s]

\* The number up to which c's resume has replayed or skipped.
Resent(c) == seq[sess[c]] - Len(missed[c])

Replaying  == {"rc_time", "rc_flag", "replay"}
Replayable == {"rc_outbox"} \cup Replaying

\* What a resume has still to replay runs up to the newest number.
ReplayInv(c) ==
  /\ pc[c] = "collect" => evicted_through[sess[c]] <= last[c] /\ last[c] <= seq[sess[c]]
  /\ pc[c] \in Replayable =>
       /\ last[c] <= seq[sess[c]] /\ Len(missed[c]) <= seq[sess[c]]
       /\ \A i \in DOMAIN missed[c] : missed[c][i].n = Resent(c) + i
       /\ pc[c] # "replay" => Resent(c) <= last[c]
       /\ pc[c] # "rc_outbox" => outbox[sess[c]] \in {c, None}

\* The frames of a ring are dispatches, and only the first of a session is READY.
FirstIsReady(f) == IsDispatch(f) /\ (f.op = "READY" => f.n = 1)
ReadyInv ==
  /\ \A s \in Conns : \A i \in DOMAIN buffer[s] : FirstIsReady(buffer[s][i])
  /\ \A c \in Conns : \A i \in DOMAIN missed[c] : FirstIsReady(missed[c][i])

CleanInv ==
  /\ \A s \in Conns \ overlapped : InUse(s) => LedgerInv(s)
  /\ \A c \in Conns : sess[c] \in Conns \ overlapped => ReplayInv(c)

\* Where a task is ahead of what it has sent.
Front == Replaying \cup {"store", "send"}

\* The stream of s has got to number n.
ReachedIs(s, n) ==
  /\ \A c \in Conns : sess[c] = s /\ pc[c] \in Replaying =>
       n = IF Resent(c) > last[c] THEN Resent(c) ELSE last[c]
  /\ \A p \in Procs : sess[p] = s /\ pc[p] \in {"store", "send"} => n + 1 = seq[s]
  /\ (\A p \in Procs : ~(sess[p] = s /\ pc[p] \in Front)) => n = seq[s]

(***************************************************************************)
(* Steps that leave a session alone.                                       *)
(***************************************************************************)
LEMMA Positions1 ==
  ASSUME ServerTypeOK, NEW p \in Procs, TaskStep(p), NEW x \in Conns, x # p
  PROVE  last'[x] = last[x]
<1>1. UNCHANGED last \/ \E v : last' = [last EXCEPT ![p] = v]
  BY DEF TaskStep, AnyConnNext, DispatchNext, Accept, Identify, Attach, Resume, ReplayCheck,
     ReplayCollect, Forget, Reconnect, Replay, DispatchNumber, DispatchStore, DispatchSend,
     Publish, Heartbeat, EndLoop, Disconnect, Drain, task
<1> QED
  BY <1>1 DEF ServerTypeOK, TaskTypeOK

\* Only a dispatch of s, or its IDENTIFY, writes its counter and its ring.
LEMMA LedgerStays ==
  ASSUME ServerTypeOK, [AnyServerNext]_serverVars, NEW s \in Conns, ~Identify(s),
         \A p \in Procs : sess[p] = s => ~DispatchNumber(p) /\ ~DispatchStore(p)
  PROVE  seq'[s] = seq[s] /\ buffer'[s] = buffer[s] /\ evicted_through'[s] = evicted_through[s]
<1>0. SessionTypeOK
  BY DEF ServerTypeOK
<1>1. ASSUME NEW c \in Conns, Identify(c)
      PROVE  seq'[s] = seq[s] /\ buffer'[s] = buffer[s] /\ evicted_through'[s] = evicted_through[s]
  BY <1>0, <1>1 DEF Identify, SessionTypeOK
<1>2. ASSUME NEW p \in Procs, DispatchNumber(p)
      PROVE  seq'[s] = seq[s] /\ buffer'[s] = buffer[s] /\ evicted_through'[s] = evicted_through[s]
  BY <1>0, <1>2 DEF DispatchNumber, SessionTypeOK
<1>3. ASSUME NEW p \in Procs, DispatchStore(p)
      PROVE  seq'[s] = seq[s] /\ buffer'[s] = buffer[s] /\ evicted_through'[s] = evicted_through[s]
  BY <1>0, <1>3 DEF DispatchStore, SessionTypeOK
<1> QED
  BY <1>1, <1>2, <1>3, BufferWriters

\* Who may come to feed s.
LEMMA OutboxOf ==
  ASSUME ServerTypeOK, TaskInv, [AnyServerNext]_serverVars, NEW s \in Conns
  PROVE  \/ outbox'[s] \in {outbox[s], None}
         \/ Identify(s) /\ outbox'[s] = s
         \/ \E c \in Conns : Reconnect(c) /\ pc[c] = "rc_outbox" /\ sess[c] = s /\ outbox'[s] = c
<1>0. SessionTypeOK
  BY DEF ServerTypeOK
<1>1. ASSUME NEW c \in Conns, Identify(c)
      PROVE  outbox'[s] = outbox[s] \/ (c = s /\ outbox'[s] = s)
  BY <1>0, <1>1 DEF Identify, SessionTypeOK
<1>2. ASSUME NEW c \in Conns, Attach(c) PROVE outbox'[s] \in {outbox[s], None}
  BY <1>2 DEF Attach
<1>3. ASSUME NEW c \in Conns, Reconnect(c)
      PROVE  outbox'[s] = outbox[s] \/ (pc[c] = "rc_outbox" /\ sess[c] = s /\ outbox'[s] = c)
  BY <1>0, <1>3 DEF Reconnect, SessionTypeOK
<1>4. ASSUME NEW c \in Conns, Disconnect(c) PROVE outbox'[s] \in {outbox[s], None}
  BY <1>0, <1>4 DEF Disconnect, SessionTypeOK
<1>5. CASE Restart
  BY <1>5 DEF Restart
<1> QED
  BY <1>1, <1>2, <1>3, <1>4, <1>5, OutboxWriters

\* A session comes into use with IDENTIFY.
LEMMA TaskTakes ==
  ASSUME ServerTypeOK, NEW p \in Procs, TaskStep(p), NEW s \in Conns,
         sess'[p] = s \/ (p \in Publishers /\ s \in todo'[p])
  PROVE  InUse(s) \/ Identify(s)
<1>0. TaskTypeOK /\ None \notin Conns /\ Conns \subseteq Procs /\ Publishers \subseteq Procs
  BY ConnsAssumption DEF ServerTypeOK, Procs
<1> SUFFICES ASSUME ~InUse(s), ~Identify(s) PROVE FALSE
  OBVIOUS
<1>1. sess[p] # s /\ (p \in Publishers => s \notin todo[p]) /\ s \notin sessions
  BY DEF InUse
<1>2. ASSUME p \in Conns, NEW x \in Conns, NEW n \in Nat, Resume(p, x, n) PROVE sess'[p] # s
  BY <1>0, <1>1, <1>2 DEF Resume, Resumable, TaskTypeOK
<1>3. ASSUME p \in Conns, Identify(p) \/ Forget(p) PROVE sess'[p] # s
  BY <1>0, <1>1, <1>3 DEF Identify, Forget, TaskTypeOK
<1>4. ASSUME p \in Conns, AnyConnNext(p),
             ~Identify(p), ~Forget(p), ~ \E x \in Conns, n \in Nat : Resume(p, x, n)
      PROVE  UNCHANGED sess
  BY <1>4 DEF AnyConnNext, Accept, Attach, ReplayCheck, ReplayCollect, Reconnect, Replay,
     Heartbeat, EndLoop, Disconnect, Drain, task
<1>5. ASSUME p \in Conns, AnyConnNext(p) PROVE UNCHANGED todo
  BY <1>5 DEF AnyConnNext, Accept, Identify, Attach, Resume, ReplayCheck, ReplayCollect,
     Forget, Reconnect, Replay, Heartbeat, EndLoop, Disconnect, Drain, task
<1>6. ASSUME DispatchNumber(p) \/ DispatchStore(p) PROVE UNCHANGED <<sess, todo>>
  BY <1>6 DEF DispatchNumber, DispatchStore
<1>7. ASSUME DispatchSend(p)
      PROVE  sess'[p] # s /\ (p \in Publishers => s \notin todo'[p])
  <2>1. \/ UNCHANGED <<sess, todo>>
        \/ UNCHANGED todo /\ sess' = [sess EXCEPT ![p] = None]
        \/ /\ p \in Publishers
           /\ \E x \in todo[p] : /\ sess' = [sess EXCEPT ![p] = x]
                                 /\ todo' = [todo EXCEPT ![p] = @ \ {x}]
    BY <1>7 DEF DispatchSend
  <2> QED
    BY <1>0, <1>1, <2>1 DEF TaskTypeOK
<1>8. ASSUME p \in Publishers, NEW u \in Users, Publish(p, u)
      PROVE  sess'[p] # s /\ s \notin todo'[p]
  <2>1. PICK x \in by_user[u] \cap sessions :
          /\ sess' = [sess EXCEPT ![p] = x]
          /\ todo' = [todo EXCEPT ![p] = (by_user[u] \cap sessions) \ {x}]
    BY <1>8 DEF Publish
  <2> QED
    BY <1>0, <1>1, <1>8, <2>1 DEF TaskTypeOK
<1> QED
  BY <1>1, <1>2, <1>3, <1>4, <1>5, <1>6, <1>7, <1>8 DEF TaskStep, DispatchNext

\* A session in use after a step was in use before it, or an IDENTIFY creates it.
LEMMA InUseBack ==
  ASSUME ServerTypeOK, TaskInv, [AnyServerNext]_serverVars, NEW s \in Conns, InUse(s)'
  PROVE  (InUse(s) \/ Identify(s)) /\ ~Restart
<1>0. TaskTypeOK /\ None \notin Conns /\ Conns \subseteq Procs /\ Publishers \subseteq Procs
  BY ConnsAssumption DEF ServerTypeOK, Procs
<1>1. ~Restart
  BY <1>0 DEF Restart, InUse
<1>2. ASSUME s \in sessions' PROVE InUse(s)
  <2>1. ASSUME NEW c \in Conns, Attach(c) PROVE InUse(s)
    <3>1. sess[c] = c
      BY <2>1 DEF Attach, TaskInv, TaskOK
    <3>2. s \in sessions \/ s = c
      BY <1>2, <2>1 DEF Attach
    <3> QED
      BY <1>0, <3>1, <3>2 DEF InUse
  <2>2. ASSUME UNCHANGED registry \/ (\E c \in Conns : Forget(c)) \/ Sweep PROVE s \in sessions
    BY <1>2, <2>2 DEF registry, Forget, Sweep
  <2> QED
    BY <1>1, <2>1, <2>2, RegistryWriters DEF InUse
<1>3. ASSUME NEW p \in Procs, sess'[p] = s \/ (p \in Publishers /\ s \in todo'[p])
      PROVE  InUse(s) \/ Identify(s)
  <2>1. ASSUME NEW q \in Procs, TaskStep(q), q # p PROVE InUse(s)
    <3>1. sess'[p] = sess[p] /\ (p \in Publishers => todo'[p] = todo[p])
      BY <2>1, Local
    <3> QED
      BY <1>3, <3>1 DEF InUse
  <2>2. CASE TaskStep(p)
    BY <1>3, <2>2, TaskTakes
  <2>3. CASE UNCHANGED <<task, arrival>>
    BY <1>3, <2>3 DEF task, InUse
  <2> QED
    BY <1>1, <2>1, <2>2, <2>3, StepOfWhom
<1> QED
  BY <1>0, <1>1, <1>2, <1>3 DEF InUse

\* The steps that do not send, number, store or replay begin and end elsewhere.
LEMMA FrontStep ==
  ASSUME ServerTypeOK, NEW p \in Procs, TaskStep(p),
         ~DispatchNext(p), p \in Conns => ~Replay(p) /\ ~Reconnect(p)
  PROVE  pc[p] \notin Front /\ pc'[p] \notin Front
<1>0. PcTypeOK
  BY DEF ServerTypeOK
<1>1. CASE p \in Conns /\ AnyConnNext(p)
  <2>1. CASE Accept(p) \/ Identify(p) \/ Attach(p) \/ \E s \in Conns, n \in Nat : Resume(p, s, n)
    BY <1>0, <2>1 DEF Accept, Identify, Attach, Resume, Goto, PcTypeOK, Front, Replaying
  <2>2. CASE ReplayCheck(p) \/ ReplayCollect(p) \/ Forget(p)
    BY <1>0, <2>2 DEF ReplayCheck, ReplayCollect, Forget, Goto, PcTypeOK, Front, Replaying
  <2>3. CASE Heartbeat(p) \/ Disconnect(p) \/ Drain(p)
    BY <1>0, <2>3 DEF Heartbeat, Disconnect, Drain, Goto, PcTypeOK, Front, Replaying, task
  <2>4. ASSUME NEW code, EndLoop(p, code) PROVE pc[p] \notin Front /\ pc'[p] \notin Front
    BY <1>0, <2>4 DEF EndLoop, Goto, PcTypeOK, Front, Replaying
  <2> QED
    BY <1>1, <2>1, <2>2, <2>3, <2>4 DEF AnyConnNext
<1>2. ASSUME NEW u \in Users, Publish(p, u) PROVE pc[p] \notin Front /\ pc'[p] \notin Front
  BY <1>0, <1>2 DEF Publish, Goto, PcTypeOK, Front, Replaying
<1> QED
  BY <1>1, <1>2 DEF TaskStep

\* Who is about to send was storing before, or was about to send already.
LEMMA SendBack ==
  ASSUME ServerTypeOK, [AnyServerNext]_serverVars, NEW q \in Procs,
         pc'[q] = "send", ~DispatchStore(q)
  PROVE  pc[q] = "send" /\ sess'[q] = sess[q] /\ num'[q] = num[q]
<1>0. PcTypeOK
  BY DEF ServerTypeOK
<1>1. ASSUME NEW p \in Procs, TaskStep(p), p # q
      PROVE  pc[q] = "send" /\ sess'[q] = sess[q] /\ num'[q] = num[q]
  BY <1>1, Local
<1>2. CASE TaskStep(q)
  <2>1. ASSUME DispatchNumber(q) \/ DispatchSend(q) \/ Replay(q) \/ Reconnect(q) PROVE FALSE
    <3>1. \/ UNCHANGED pc /\ pc[q] # "send"
          \/ \E l \in {"store", "open", "idle", "number", "rc_time", "rc_flag", "replay"} : Goto(q, l)
      BY <2>1 DEF DispatchNumber, DispatchSend, Replay, Reconnect
    <3> QED
      BY <1>0, <3>1 DEF Goto, PcTypeOK
  <2> QED
    BY <1>2, <2>1, FrontStep DEF DispatchNext, Front
<1>3. CASE UNCHANGED <<task, arrival>>
  BY <1>3 DEF task
<1>4. CASE Restart
  BY <1>0, <1>4 DEF Restart
<1> QED
  BY <1>1, <1>2, <1>3, <1>4, StepOfWhom

\* The ring and the counter of a session that nobody shares.
LEMMA LedgerStep ==
  ASSUME ServerTypeOK, ServerInv, [AnyServerNext]_serverVars, NEW s \in Conns,
         InUse(s)', OneAt(s), InUse(s) => LedgerInv(s)
  PROVE  LedgerInv(s)'
<1>0. /\ SessionTypeOK /\ PcTypeOK /\ TaskTypeOK /\ None \notin Conns
      /\ Conns \subseteq Procs /\ Publishers \subseteq Procs
      /\ TaskInv /\ SessionInv /\ BufferBounded
  BY ConnsAssumption DEF ServerTypeOK, Procs, ServerInv
<1>1. CASE Identify(s)
  <2>1. Untouched(s) /\ pc[s] = "hello"
    BY <1>0, <1>1 DEF Identify, SessionInv, Fresh
  <2>2. /\ seq'[s] = 1 /\ evicted_through'[s] = 0 /\ buffer'[s] = <<Dispatch("READY", s, 1)>>
        /\ pc'[s] = "attach"
    BY <1>0, <1>1 DEF Identify, Goto, SessionTypeOK, PcTypeOK
  <2>3. ASSUME NEW p \in Procs, sess'[p] = s PROVE pc'[p] = "attach"
    <3>1. CASE p = s
      BY <2>2, <3>1
    <3>2. CASE p # s
      <4>1. sess'[p] = sess[p]
        BY <1>0, <1>1, <3>2, Local DEF TaskStep, AnyConnNext
      <4> QED
        BY <2>1, <2>3, <4>1 DEF Untouched
    <3> QED
      BY <3>1, <3>2
  <2>4. Len(buffer'[s]) = 1 /\ \A i \in DOMAIN buffer'[s] : i = 1 /\ buffer'[s][i] = Dispatch("READY", s, 1)
    BY <2>2
  <2>5. \A i \in DOMAIN buffer'[s] : buffer'[s][i].n = evicted_through'[s] + i
    BY <2>2, <2>4 DEF Dispatch
  <2>6. ~Pending(s)'
    BY <2>3 DEF Pending
  <2>7. evicted_through'[s] + Len(buffer'[s]) = seq'[s]
    BY <2>2, <2>4
  <2> QED
    BY <2>3, <2>5, <2>6, <2>7 DEF LedgerInv
<1>2. CASE ~Identify(s)
  <2>0. InUse(s) /\ ~Restart /\ LedgerInv(s)
    BY <1>0, <1>2, InUseBack
  <2>t. /\ seq[s] \in Nat /\ evicted_through[s] \in Nat /\ buffer[s] \in Seq(Frames)
        /\ Len(buffer[s]) \in Nat /\ Len(buffer[s]) <= BufferCapacity
    BY <1>0 DEF SessionTypeOK, BufferBounded
  <2>1. ASSUME NEW p \in Procs, sess[p] = s, DispatchNumber(p) PROVE LedgerInv(s)'
    <3>1. /\ pc[p] = "number" /\ pc' = [pc EXCEPT ![p] = "store"] /\ sess' = sess
          /\ seq'[s] = seq[s] + 1 /\ num' = [num EXCEPT ![p] = seq[s] + 1]
          /\ UNCHANGED <<buffer, evicted_through>>
      BY <1>0, <2>1 DEF DispatchNumber, Goto, SessionTypeOK
    <3>2. \A q \in Procs : sess[q] = s /\ pc[q] \in {"store", "send"} => FALSE
      BY <2>1, <3>1 DEF OneAt, Working, InDispatch
    <3>3. ~Pending(s)
      BY <3>2 DEF Pending
    <3>4. Pending(s)'
      BY <1>0, <2>1, <3>1 DEF Pending, PcTypeOK
    <3>5. ASSUME NEW q \in Procs, sess'[q] = s, pc'[q] \in {"store", "send"} PROVE num'[q] = seq'[s]
      <4>1. q = p
        BY <1>0, <3>1, <3>2, <3>5 DEF PcTypeOK
      <4> QED
        BY <1>0, <3>1, <4>1 DEF TaskTypeOK
    <3>6. evicted_through'[s] + Len(buffer'[s]) + 1 = seq'[s]
      BY <2>0, <2>t, <3>1, <3>3 DEF LedgerInv
    <3>7. \A i \in DOMAIN buffer'[s] : buffer'[s][i].n = evicted_through'[s] + i
      BY <2>0, <3>1 DEF LedgerInv
    <3> QED
      BY <3>4, <3>5, <3>6, <3>7 DEF LedgerInv
  <2>2. ASSUME NEW p \in Procs, sess[p] = s, DispatchStore(p) PROVE LedgerInv(s)'
    <3>1. /\ pc[p] = "store" /\ pc' = [pc EXCEPT ![p] = "send"] /\ sess' = sess
          /\ UNCHANGED <<seq, num>>
          /\ evicted_through'[s] = EvictedBy(buffer[s], evicted_through[s])
      BY <1>0, <2>2 DEF DispatchStore, Goto, SessionTypeOK
    <3>2. \A q \in Procs : sess[q] = s /\ pc[q] \in {"store", "send"} => q = p
      BY <2>2, <3>1 DEF OneAt, Working, InDispatch
    <3>3. Pending(s) /\ num[p] = seq[s]
      BY <2>0, <2>2, <3>1 DEF Pending, LedgerInv
    <3>4. ~Pending(s)'
      BY <1>0, <3>1, <3>2 DEF Pending, PcTypeOK
    <3>5. ASSUME NEW q \in Procs, sess'[q] = s, pc'[q] \in {"store", "send"} PROVE num'[q] = seq'[s]
      <4>1. q = p
        BY <1>0, <3>1, <3>2, <3>5 DEF PcTypeOK
      <4> QED
        BY <3>1, <3>3, <4>1
    <3>6. PICK f \in Frames : f.n = num[p] /\ buffer'[s] = Push(buffer[s], f)
      BY <1>0, <2>2, StoreStep
    <3>7. PICK k \in {0, 1} :
             /\ Len(Push(buffer[s], f)) = Len(buffer[s]) + 1 - k
             /\ k <= Len(buffer[s]) /\ (k = 1 => Len(buffer[s]) = BufferCapacity)
             /\ Len(Push(buffer[s], f)) <= BufferCapacity
             /\ \A i \in 1..(Len(buffer[s]) - k) : Push(buffer[s], f)[i] = buffer[s][i + k]
             /\ Push(buffer[s], f)[Len(buffer[s]) + 1 - k] = f
      BY <2>t, PushElements
    <3>8. evicted_through'[s] = evicted_through[s] + k
      <4>1. CASE Len(buffer[s]) = BufferCapacity
        <5>1. 1 \in DOMAIN buffer[s] /\ Head(buffer[s]) = buffer[s][1]
          BY <2>t, <4>1, LimitsAssumption
        <5>2. Head(buffer[s]).n = evicted_through[s] + 1
          BY <2>0, <5>1 DEF LedgerInv
        <5>3. k = 1
          BY <2>t, <3>7, <4>1
        <5> QED
          BY <3>1, <4>1, <5>2, <5>3 DEF EvictedBy
      <4>2. CASE Len(buffer[s]) # BufferCapacity
        <5>1. k = 0
          BY <3>7, <4>2
        <5> QED
          BY <2>t, <3>1, <4>2, <5>1 DEF EvictedBy
      <4> QED
        BY <4>1, <4>2
    <3>9. evicted_through[s] + Len(buffer[s]) + 1 = seq[s]
      BY <2>0, <3>3 DEF LedgerInv
    <3>10. evicted_through'[s] + Len(buffer'[s]) = seq'[s]
      BY <2>t, <3>1, <3>6, <3>7, <3>8, <3>9
    <3>11. ASSUME NEW i \in DOMAIN buffer'[s] PROVE buffer'[s][i].n = evicted_through'[s] + i
      <4>1. buffer'[s] \in Seq(Frames)
        BY <1>0, TypeStep DEF ServerTypeOK, SessionTypeOK
      <4>2. i \in 1..(Len(buffer[s]) + 1 - k) /\ i \in Nat
        BY <3>6, <3>7, <4>1
      <4>3. CASE i = Len(buffer[s]) + 1 - k
        <5>1. buffer'[s][i] = f /\ f.n = seq[s]
          BY <3>3, <3>6, <3>7, <4>3
        <5>2. evicted_through'[s] + i = seq[s]
          BY <2>t, <3>8, <3>9, <4>3
        <5> QED
          BY <5>1, <5>2
      <4>4. CASE i # Len(buffer[s]) + 1 - k
        <5>1. i \in 1..(Len(buffer[s]) - k) /\ i + k \in DOMAIN buffer[s]
          BY <2>t, <4>2, <4>4
        <5>2. buffer'[s][i] = buffer[s][i + k]
          BY <3>6, <3>7, <5>1
        <5>3. buffer[s][i + k].n = evicted_through[s] + (i + k)
          BY <2>0, <5>1 DEF LedgerInv
        <5> QED
          BY <2>t, <3>8, <4>2, <5>2, <5>3
      <4> QED
        BY <4>3, <4>4
    <3> QED
      BY <3>4, <3>5, <3>10, <3>11 DEF LedgerInv
  <2>3. CASE \A p \in Procs : sess[p] = s => ~DispatchNumber(p) /\ ~DispatchStore(p)
    <3>1. seq'[s] = seq[s] /\ buffer'[s] = buffer[s] /\ evicted_through'[s] = evicted_through[s]
      BY <1>2, <2>3, LedgerStays
    <3>2. ASSUME NEW q \in Procs, sess'[q] = s, pc'[q] = "store"
          PROVE  pc[q] = "store" /\ sess[q] = s /\ num'[q] = num[q]
      <4>1. ~DispatchNumber(q)
        <5>1. DispatchNumber(q) => sess' = sess
          BY DEF DispatchNumber
        <5> QED
          BY <2>3, <3>2, <5>1
      <4> QED
        BY <3>2, <4>1, StoreBack
    <3>3. ASSUME NEW q \in Procs, sess'[q] = s, pc'[q] = "send"
          PROVE  pc[q] = "send" /\ sess[q] = s /\ num'[q] = num[q]
      <4>1. ~DispatchStore(q)
        <5>1. DispatchStore(q) => sess' = sess
          BY DEF DispatchStore
        <5> QED
          BY <2>3, <3>3, <5>1
      <4> QED
        BY <3>3, <4>1, SendBack
    <3>4. ASSUME NEW q \in Procs, sess[q] = s, pc[q] = "store" PROVE Pending(s)'
      BY <2>0, <2>3, <3>4, StoreStays DEF Pending
    <3>5. Pending(s)' <=> Pending(s)
      <4>1. Pending(s)' => Pending(s)
        BY <3>2 DEF Pending
      <4>2. Pending(s) => Pending(s)'
        BY <3>4 DEF Pending
      <4> QED
        BY <4>1, <4>2
    <3>6. \A q \in Procs : sess'[q] = s /\ pc'[q] \in {"store", "send"} => num'[q] = seq'[s]
      BY <2>0, <3>1, <3>2, <3>3 DEF LedgerInv
    <3> QED
      BY <2>0, <3>1, <3>5, <3>6 DEF LedgerInv
  <2> QED
    BY <2>1, <2>2, <2>3
<1> QED
  BY <1>1, <1>2

\* What a resume has still to replay.  While it is under way nobody else numbers or
\* stores a frame of its session, or takes the session's outbox.
LEMMA ReplayStep ==
  ASSUME ServerTypeOK, ServerInv, [AnyServerNext]_serverVars, NEW c \in Conns, NEW s \in Conns,
         sess'[c] = s, OneAt(s), LedgerInv(s) \/ ~InUse(s), sess[c] = s => ReplayInv(c)
  PROVE  ReplayInv(c)'
<1>0. /\ SessionTypeOK /\ PcTypeOK /\ TaskTypeOK /\ None \notin Conns
      /\ Conns \subseteq Procs /\ c \in Procs /\ TaskInv /\ SessionInv /\ c \notin Publishers
  BY ConnsAssumption, Disjoint DEF ServerTypeOK, Procs, ServerInv
<1> DEFINE Steps == {"collect"} \cup Replayable
<1>1. SUFFICES ASSUME pc'[c] \in Steps PROVE ReplayInv(c)'
  BY DEF ReplayInv
<1>t. /\ seq[s] \in Nat /\ evicted_through[s] \in Nat /\ last[c] \in Nat
      /\ buffer[s] \in Seq(Frames) /\ Len(buffer[s]) \in Nat
      /\ missed[c] \in Seq(Frames) /\ Len(missed[c]) \in Nat
  BY <1>0 DEF SessionTypeOK, TaskTypeOK
\* The others.
<1>2. ASSUME sess[c] = s, UNCHANGED <<pc, missed, last>> \/ (pc'[c] = pc[c] /\ missed'[c] = missed[c] /\ last'[c] = last[c]),
             ~Identify(c) /\ ~Reconnect(c) /\ ~DispatchNumber(c) /\ ~DispatchStore(c)
      PROVE  ReplayInv(c)'
  <2>1. pc'[c] = pc[c] /\ missed'[c] = missed[c] /\ last'[c] = last[c]
    BY <1>2
  <2>2. \A p \in Procs : Working(p, s) => p = c
    BY <1>0, <1>1, <1>2, <2>1 DEF OneAt, Working, InDispatch, Replayable, Replaying
  <2>3. ~Identify(s)
    BY <1>0, <1>2 DEF Identify, SessionInv, Fresh, Untouched
  <2>4. \A p \in Procs : sess[p] = s => ~DispatchNumber(p) /\ ~DispatchStore(p)
    BY <1>2, <2>2 DEF DispatchNumber, DispatchStore, Working, InDispatch
  <2>5. seq'[s] = seq[s] /\ evicted_through'[s] = evicted_through[s]
    BY <2>3, <2>4, LedgerStays
  <2>6. outbox'[s] \in {outbox[s], None}
    <3>1. ASSUME NEW d \in Conns, Reconnect(d), pc[d] = "rc_outbox", sess[d] = s PROVE FALSE
      BY <1>0, <1>2, <2>2, <3>1 DEF Working, InDispatch
    <3> QED
      BY <1>0, <2>3, <3>1, OutboxOf
  <2> QED
    BY <1>2, <2>1, <2>5, <2>6 DEF ReplayInv, Resent
<1>3. ASSUME NEW p \in Procs, TaskStep(p), p # c PROVE ReplayInv(c)'
  <2>1. pc'[c] = pc[c] /\ missed'[c] = missed[c] /\ last'[c] = last[c] /\ sess[c] = s
    BY <1>0, <1>3, Local, Positions1
  <2>2. \A x \in Procs : Working(x, s) => x = c
    BY <1>0, <1>1, <2>1 DEF OneAt, Working, InDispatch, Replayable, Replaying
  <2>3. ~Identify(c) /\ ~Reconnect(c) /\ ~DispatchNumber(c) /\ ~DispatchStore(c)
    <3>1. ASSUME Identify(c) \/ DispatchNumber(c) \/ DispatchStore(c) PROVE FALSE
      BY <1>1, <2>1, <3>1 DEF Identify, DispatchNumber, DispatchStore, Replayable, Replaying
    <3>2. ASSUME Reconnect(c) PROVE FALSE
      BY <1>0, <2>1, <3>2 DEF Reconnect, Goto, PcTypeOK
    <3> QED
      BY <3>1, <3>2
  <2> QED
    BY <1>2, <2>1, <2>3
<1>4. CASE UNCHANGED <<task, arrival>>
  <2>1. UNCHANGED <<pc, sess, missed, last>>
    BY <1>4 DEF task
  <2>2. ASSUME Identify(c) \/ Reconnect(c) \/ DispatchNumber(c) \/ DispatchStore(c) PROVE FALSE
    BY <1>0, <2>1, <2>2 DEF Identify, Reconnect, DispatchNumber, DispatchStore, Goto, PcTypeOK
  <2> QED
    BY <1>2, <2>1, <2>2
<1>5. CASE Restart
  BY <1>0, <1>5 DEF Restart
\* Its own steps.
<1>6. CASE TaskStep(c)
  <2>1. CASE ReplayCheck(c)
    <3>1. /\ sess[c] = s /\ pc' = [pc EXCEPT ![c] = IF Unreplayable(s, last[c]) THEN "forget" ELSE "collect"]
          /\ UNCHANGED <<seq, evicted_through, sess, last>>
      BY <2>1 DEF ReplayCheck, Goto, session
    <3>2. pc'[c] = "collect" /\ ~Unreplayable(s, last[c])
      BY <1>0, <1>1, <3>1 DEF PcTypeOK, Replayable, Replaying
    <3> QED
      BY <1>t, <3>1, <3>2 DEF Unreplayable, ReplayInv, Replayable, Replaying
  <2>2. CASE ReplayCollect(c)
    <3>1. /\ sess[c] = s /\ pc[c] = "collect" /\ pc'[c] = "rc_outbox" /\ missed'[c] = buffer[s]
          /\ UNCHANGED <<seq, evicted_through, sess, last, outbox>>
      BY <1>0, <2>2 DEF ReplayCollect, Goto, session, PcTypeOK, TaskTypeOK
    <3>2. evicted_through[s] <= last[c] /\ last[c] <= seq[s]
      BY <3>1 DEF ReplayInv
    <3>3. LedgerInv(s)
      BY <1>0, <3>1 DEF InUse
    <3>4. ~Pending(s)
      BY <1>0, <3>1 DEF Pending, OneAt, Working, InDispatch
    <3>5. evicted_through[s] + Len(buffer[s]) = seq[s]
      BY <3>3, <3>4 DEF LedgerInv
    <3>6. /\ Len(missed'[c]) <= seq[s] /\ seq[s] - Len(missed'[c]) = evicted_through[s]
      <4>1. Len(missed'[c]) = Len(buffer[s])
        BY <3>1
      <4>2. Len(buffer[s]) <= seq[s] /\ seq[s] - Len(buffer[s]) = evicted_through[s]
        <5>1. \A a, b, n \in Nat : a + b = n => b <= n /\ n - b = a
          OBVIOUS
        <5> QED
          BY <1>t, <3>5, <5>1
      <4> QED
        BY <4>1, <4>2
    <3>7. \A i \in DOMAIN missed'[c] : missed'[c][i].n = evicted_through[s] + i
      BY <3>1, <3>3 DEF LedgerInv
    <3>8. Resent(c)' = evicted_through[s]
      BY <3>1, <3>6 DEF Resent
    <3> QED
      BY <3>1, <3>2, <3>6, <3>7, <3>8 DEF ReplayInv, Replayable
  <2>3. CASE Reconnect(c)
    <3>1. /\ sess[c] = s /\ pc[c] \in {"rc_outbox", "rc_time", "rc_flag"}
          /\ UNCHANGED <<seq, evicted_through, sess, last, missed>>
      BY <2>3 DEF Reconnect
    <3>2. pc'[c] \in Replaying
      BY <1>0, <2>3 DEF Reconnect, Goto, PcTypeOK, Replaying
    <3>3. Resent(c)' = Resent(c)
      BY <3>1 DEF Resent
    <3>4. outbox'[s] \in {c, None}
      <4>1. CASE pc[c] = "rc_outbox"
        BY <1>0, <2>3, <3>1, <4>1 DEF Reconnect, SessionTypeOK
      <4>2. CASE pc[c] # "rc_outbox"
        <5>1. outbox' = outbox
          BY <2>3, <4>2 DEF Reconnect
        <5> QED
          BY <3>1, <4>2, <5>1 DEF ReplayInv, Replayable, Replaying
      <4> QED
        BY <4>1, <4>2
    <3>5. ReplayInv(c) /\ pc[c] \in Replayable /\ pc[c] # "replay" /\ pc'[c] \in Replayable
      BY <3>1, <3>2 DEF Replayable, Replaying
    <3> QED
      BY <3>1, <3>2, <3>3, <3>4, <3>5 DEF ReplayInv, Replaying
  <2>4. CASE Replay(c)
    <3>1. /\ sess[c] = s /\ pc[c] = "replay"
          /\ UNCHANGED <<seq, evicted_through, sess, last, outbox>>
      BY <2>4 DEF Replay, session
    <3>2. missed[c] # <<>> /\ pc' = pc
      <4>1. ASSUME missed[c] = <<>> PROVE FALSE
        <5>1. pc'[c] = "number"
          BY <1>0, <2>4, <4>1 DEF Replay, Goto, PcTypeOK
        <5> QED
          BY <1>1, <5>1 DEF Replayable, Replaying
      <4> QED
        BY <2>4, <4>1 DEF Replay
    <3>3. missed'[c] = Tail(missed[c])
      BY <1>0, <2>4, <3>2 DEF Replay, TaskTypeOK
    <3>4. /\ last[c] <= seq[s] /\ Len(missed[c]) <= seq[s]
          /\ \A i \in DOMAIN missed[c] : missed[c][i].n = seq[s] - Len(missed[c]) + i
          /\ outbox[s] \in {c, None}
      BY <3>1 DEF ReplayInv, Replayable, Replaying, Resent
    <3>5. /\ Len(Tail(missed[c])) = Len(missed[c]) - 1 /\ Len(missed[c]) \in Nat \ {0}
          /\ DOMAIN Tail(missed[c]) = 1..(Len(missed[c]) - 1) /\ DOMAIN missed[c] = 1..Len(missed[c])
          /\ \A i \in 1..(Len(missed[c]) - 1) : Tail(missed[c])[i] = missed[c][i + 1]
      BY <1>t, <3>2, Dropped
    <3>6. ASSUME NEW i \in DOMAIN missed'[c] PROVE missed'[c][i].n = Resent(c)' + i
      <4>1. i + 1 \in DOMAIN missed[c] /\ missed'[c][i] = missed[c][i + 1] /\ i \in Nat
        BY <3>3, <3>5
      <4>2. missed[c][i + 1].n = seq[s] - Len(missed[c]) + (i + 1)
        BY <3>4, <4>1
      <4>3. Resent(c)' = seq[s] - (Len(missed[c]) - 1)
        BY <3>1, <3>3, <3>5 DEF Resent
      <4>4. \A a, b, k \in Int : a - b + (k + 1) = a - (b - 1) + k
        OBVIOUS
      <4>5. seq[s] - Len(missed[c]) + (i + 1) = seq[s] - (Len(missed[c]) - 1) + i
        <5>1. seq[s] \in Int /\ Len(missed[c]) \in Int /\ i \in Int
          BY <1>t, <4>1
        <5> QED
          BY <4>4, <5>1, Zenon
      <4> QED
        <5>1. missed'[c][i].n = seq[s] - (Len(missed[c]) - 1) + i
          BY <4>1, <4>2, <4>5
        <5>2. Resent(c)' + i = seq[s] - (Len(missed[c]) - 1) + i
          BY <4>3
        <5> QED
          BY <5>1, <5>2, Zenon
    <3>7. Len(missed'[c]) <= seq[s]
      BY <1>t, <3>3, <3>4, <3>5
    <3> QED
      BY <3>1, <3>2, <3>4, <3>6, <3>7 DEF ReplayInv
  <2>5. CASE ~ReplayCheck(c) /\ ~ReplayCollect(c) /\ ~Reconnect(c) /\ ~Replay(c)
    <3>1. \/ UNCHANGED pc /\ pc[c] \in {"hello", "open"}
          \/ \E l \in {"hello", "closed", "attach", "open", "check", "d_flag", "d_outbox", "d_time", "drain",
                       "store", "send", "idle", "number"} : Goto(c, l)
      <4>1. CASE \/ Accept(c) \/ Identify(c) \/ Attach(c) \/ (\E x \in Conns, n \in Nat : Resume(c, x, n))
                 \/ Forget(c) \/ Heartbeat(c)
        BY <4>1 DEF Accept, Identify, Attach, Resume, Forget, Heartbeat, task
      <4>2. CASE \/ (\E code \in CloseCodes : EndLoop(c, code)) \/ Disconnect(c) \/ Drain(c) \/ DispatchNext(c)
        BY <4>2 DEF EndLoop, Disconnect, Drain, DispatchNext, DispatchNumber, DispatchStore, DispatchSend
      <4> QED
        BY <1>0, <1>6, <2>5, <4>1, <4>2 DEF TaskStep, AnyConnNext
    <3> QED
      BY <1>0, <1>1, <3>1 DEF Goto, PcTypeOK, Replayable, Replaying
  <2> QED
    BY <2>1, <2>2, <2>3, <2>4, <2>5
<1> QED
  BY <1>3, <1>4, <1>5, <1>6, StepOfWhom

(***************************************************************************)
(* What a server step sends, and to whom.                                  *)
(***************************************************************************)
\* Which frames are dispatches and which ask something.
LEMMA Kinds ==
  /\ \A s, n : \A op \in {"READY", "RESUMED", "EVENT"} :
       IsDispatch(Dispatch(op, s, n)) /\ ~IsAsk(Dispatch(op, s, n))
  /\ \A p, s, n : IsDispatch(Dispatch(EventOf(p), s, n)) /\ Dispatch(EventOf(p), s, n).op # "READY"
  /\ \A op \in {"HELLO", "INVALID_SESSION"} : IsAsk(Control(op)) /\ ~IsDispatch(Control(op))
  /\ \A op \in {"HEARTBEAT_ACK", "RECONNECT"} : ~IsAsk(Control(op)) /\ ~IsDispatch(Control(op))
  /\ \A n : ~IsAsk(Close(n)) /\ ~IsDispatch(Close(n))
  /\ \A f : IsDispatch(f) => ~IsAsk(f)
  BY DEF IsDispatch, IsAsk, Dispatch, Control, Close, DispatchOps, EventOf

\* The kinds of frames: neither question nor dispatch; a question; READY; a frame
\* of a replay; a new dispatch.
SendsOther(c, f)  == ~IsDispatch(f) /\ ~IsAsk(f) /\ (pc[c] # "off" \/ Accept(c))
SendsAsk(c, f)    == /\ IsAsk(f) /\ ~IsDispatch(f)
                     /\ Accept(c) \/ Forget(c) \/ TakesResume(c)
SendsReady(c, f)  == TakesIdentify(c) /\ f = Dispatch("READY", c, 1)
SendsMissed(c, f) == \E d \in Conns : /\ Replay(d) /\ missed[d] # <<>> /\ f = Head(missed[d])
                                      /\ IsMissed(d, f) /\ outbox[sess[d]] = c
SendsNew(c, f)    == \E p \in Procs : /\ DispatchSend(p) /\ outbox[sess[p]] = c
                                      /\ f = Dispatch(EventOf(p), sess[p], num[p])
Sends(c, f) ==
  SendsOther(c, f) \/ SendsAsk(c, f) \/ SendsReady(c, f) \/ SendsMissed(c, f) \/ SendsNew(c, f)

\* What a server step puts on the wire of c, by the stage its sender was at.
LEMMA WhatIsSent ==
  ASSUME ServerTypeOK, TaskInv, OutboxIsLive, ServerMoves,
         NEW c \in Conns, NEW f, <<c, f>> \in sent'
  PROVE  Sends(c, f)
<1>0. None \notin Conns
  BY ConnsAssumption
<1>1. ASSUME Silent PROVE FALSE
  BY <1>1 DEF Silent
<1>2. ASSUME NEW d, NEW g, Send(d, g) PROVE d = c /\ g = f
  BY <1>2 DEF Send
<1>3. ASSUME NEW s, NEW g, SendText(s, g) PROVE outbox[s] = c /\ g = f
  BY <1>3 DEF SendText
<1>4. ASSUME NEW d \in Conns, Accept(d) PROVE Sends(c, f)
  <2>1. d = c /\ f \in {Control("HELLO"), Close(VERSION_TOO_OLD)}
    BY <1>2, <1>4 DEF Accept
  <2> QED
    BY <1>4, <2>1, Kinds DEF Sends, SendsOther, SendsAsk
<1>5. ASSUME NEW d \in Conns, TakesIdentify(d) PROVE Sends(c, f)
  <2>1. d = c /\ f = Dispatch("READY", c, 1)
    BY <1>2, <1>5 DEF TakesIdentify, Identify
  <2> QED
    BY <1>5, <2>1 DEF Sends, SendsReady
<1>6. ASSUME NEW d \in Conns, Heartbeat(d) \/ Drain(d) PROVE Sends(c, f)
  <2>1. d = c /\ f \in {Control("HEARTBEAT_ACK"), Close(0)} /\ pc[d] # "off"
    BY <1>2, <1>6 DEF Heartbeat, Drain
  <2> QED
    BY <2>1, Kinds DEF Sends, SendsOther
<1>7. ASSUME NEW d \in Conns, Forget(d) PROVE Sends(c, f)
  <2>1. d = c /\ f = Control("INVALID_SESSION")
    BY <1>2, <1>7 DEF Forget
  <2> QED
    BY <1>7, <2>1, Kinds DEF Sends, SendsAsk
<1>8. ASSUME NEW d \in Conns, TakesResume(d) PROVE Sends(c, f)
  <2>1. d = c /\ f = Control("INVALID_SESSION")
    BY <1>1, <1>2, <1>8 DEF TakesResume, Resume
  <2> QED
    BY <1>8, <2>1, Kinds DEF Sends, SendsAsk
<1>9. ASSUME (\E d \in Conns : Attach(d)) \/ BroadcastReconnect PROVE Sends(c, f)
  <2>1. f = Control("RECONNECT") /\ \E s \in Conns : outbox[s] = c
    <3>1. ASSUME NEW d \in Conns, Attach(d) PROVE f = Control("RECONNECT") /\ \E s \in Conns : outbox[s] = c
      BY <3>1 DEF Attach, ServerTypeOK, RegistryTypeOK
    <3>2. ASSUME BroadcastReconnect PROVE f = Control("RECONNECT") /\ \E s \in Conns : outbox[s] = c
      BY <3>2 DEF BroadcastReconnect, ServerTypeOK, RegistryTypeOK
    <3> QED
      BY <1>9, <3>1, <3>2
  <2>2. pc[c] # "off"
    BY <1>0, <2>1 DEF OutboxIsLive, Feedable
  <2> QED
    BY <2>1, <2>2, Kinds DEF Sends, SendsOther
<1>10. CASE Restart
  <2>1. f = Close(0) /\ pc[c] # "off"
    BY <1>10 DEF Restart
  <2> QED
    BY <2>1, Kinds DEF Sends, SendsOther
<1>11. ASSUME NEW d \in Conns, Replay(d) PROVE Sends(c, f)
  <2>1. missed[d] # <<>> /\ IsMissed(d, Head(missed[d])) /\ SendText(sess[d], Head(missed[d]))
    BY <1>1, <1>11 DEF Replay
  <2>2. outbox[sess[d]] = c /\ f = Head(missed[d])
    BY <1>3, <2>1
  <2> QED
    BY <1>11, <2>1, <2>2 DEF Sends, SendsMissed
<1>12. ASSUME NEW p \in Procs, DispatchSend(p) PROVE Sends(c, f)
  <2>1. SendText(sess[p], Dispatch(EventOf(p), sess[p], num[p]))
    BY <1>12 DEF DispatchSend
  <2>2. outbox[sess[p]] = c /\ f = Dispatch(EventOf(p), sess[p], num[p])
    BY <1>3, <2>1
  <2> QED
    BY <1>12, <2>2 DEF Sends, SendsNew
<1>13. ASSUME NEW d \in Conns,
              \/ ReplayCheck(d) \/ ReplayCollect(d) \/ Reconnect(d) \/ Disconnect(d)
              \/ \E code \in CloseCodes : EndLoop(d, code)
       PROVE  Silent
  BY <1>13 DEF ReplayCheck, ReplayCollect, Reconnect, Disconnect, EndLoop
<1>14. ASSUME NEW p \in Procs, DispatchNumber(p) \/ DispatchStore(p) PROVE Silent
  BY <1>14 DEF DispatchNumber, DispatchStore
<1>15. ASSUME \/ \E p \in Publishers, u \in Users : Publish(p, u)
              \/ (\E s \in Conns : Age(s)) \/ Sweep
       PROVE  Silent
  BY <1>15 DEF Publish, Age, Sweep
<1>16. ASSUME NEW d \in Conns, TakesOther(d) \/ Alone(d) PROVE Sends(c, f)
  BY <1>1, <1>4, <1>6, <1>7, <1>9, <1>11, <1>13, <1>16 DEF TakesOther, Alone
<1>17. ASSUME NEW p \in Procs, DispatchNext(p) PROVE Sends(c, f)
  BY <1>1, <1>12, <1>14, <1>17 DEF DispatchNext
<1> QED
  BY <1>1, <1>5, <1>8, <1>9, <1>10, <1>15, <1>16, <1>17 DEF ServerMoves, TakesNothing

(***************************************************************************)
(* How far a stream gets.                                                  *)
(***************************************************************************)
\* A step that is no dispatch and no replay of s changes nobody's part in it.
LEMMA FrontKept ==
  ASSUME ServerTypeOK, [AnyServerNext]_serverVars, ~Restart, NEW s \in Conns, NEW x \in Procs,
         sess[x] = s => /\ ~DispatchNext(x)
                        /\ x \in Conns => ~Replay(x) /\ ~Reconnect(x)
  PROVE  /\ (sess'[x] = s /\ pc'[x] \in Front) <=> (sess[x] = s /\ pc[x] \in Front)
         /\ sess[x] = s /\ pc[x] \in Front =>
              pc'[x] = pc[x] /\ (x \in Conns => last'[x] = last[x] /\ missed'[x] = missed[x])
<1>0. PcTypeOK /\ TaskTypeOK
  BY DEF ServerTypeOK
<1>1. ASSUME NEW p \in Procs, TaskStep(p), p # x
      PROVE  /\ sess'[x] = sess[x] /\ pc'[x] = pc[x]
             /\ x \in Conns => last'[x] = last[x] /\ missed'[x] = missed[x]
  BY <1>1, Local, Positions1
<1>2. CASE TaskStep(x)
  <2>1. CASE DispatchNext(x) \/ (x \in Conns /\ (Replay(x) \/ Reconnect(x)))
    <3>1. sess[x] # s
      BY <2>1
    <3>2. CASE DispatchSend(x)
      <4>1. \E l \in {"open", "idle", "number"} : Goto(x, l)
        BY <3>2 DEF DispatchSend
      <4> QED
        BY <1>0, <3>1, <4>1 DEF Goto, PcTypeOK, Front, Replaying
    <3>3. CASE ~DispatchSend(x)
      <4>1. sess' = sess
        BY <2>1, <3>3 DEF DispatchNext, DispatchNumber, DispatchStore, Replay, Reconnect
      <4> QED
        BY <3>1, <4>1
    <3> QED
      BY <3>2, <3>3
  <2>2. CASE ~(DispatchNext(x) \/ (x \in Conns /\ (Replay(x) \/ Reconnect(x))))
    BY <1>2, <2>2, FrontStep
  <2> QED
    BY <2>1, <2>2
<1>3. CASE UNCHANGED <<task, arrival>>
  BY <1>3 DEF task
<1> QED
  BY <1>1, <1>2, <1>3, StepOfWhom


\* While p is inside a dispatch or a resume of a session nobody shares, its step
\* leaves p alone at the front of that session's stream.
LEMMA FrontAlone ==
  ASSUME ServerTypeOK, NEW s \in Conns, OneAt(s), NEW p \in Procs, TaskStep(p), Working(p, s),
         NEW q \in Procs, q # p
  PROVE  ~(sess[q] = s /\ pc[q] \in Front) /\ ~(sess'[q] = s /\ pc'[q] \in Front)
<1>1. ~Working(q, s)
  BY DEF OneAt
<1>2. sess'[q] = sess[q] /\ pc'[q] = pc[q]
  BY Local
<1>3. Front \subseteq InDispatch
  BY DEF Front, Replaying, InDispatch
<1> QED
  BY <1>1, <1>2, <1>3 DEF Working

\* A step of the server moves the stream of a session nobody shares on by the
\* dispatch it sends, or not at all.
LEMMA ReachedStep ==
  ASSUME TypeOK, ServerInv, ServerMoves, NEW s \in Conns, NEW c \in Conns,
         outbox[s] = c, outbox'[s] = c, OneAt(s), LedgerInv(s), ReadyInv,
         \A d \in Conns : sess[d] = s => ReplayInv(d),
         NEW n \in Nat, ReachedIs(s, n)
  PROVE  /\ \A f : <<c, f>> \in sent' /\ IsDispatch(f) => f.sess = s /\ f.n = n + 1 /\ ReachedIs(s, n + 1)'
         /\ (\A f : <<c, f>> \in sent' => ~IsDispatch(f)) => ReachedIs(s, n)'
<1> DEFINE Goal == /\ \A f : <<c, f>> \in sent' /\ IsDispatch(f) => f.sess = s /\ f.n = n + 1 /\ ReachedIs(s, n + 1)'
                   /\ (\A f : <<c, f>> \in sent' => ~IsDispatch(f)) => ReachedIs(s, n)'
<1>0. /\ ServerTypeOK /\ SessionTypeOK /\ PcTypeOK /\ TaskTypeOK /\ None \notin Conns
      /\ Conns \subseteq Procs /\ Publishers \subseteq Procs
      /\ TaskInv /\ OutboxIsLive /\ FrameInv
      /\ [AnyServerNext]_serverVars /\ seq[s] \in Nat
  BY ConnsAssumption, MovesServe DEF TypeOK, ServerTypeOK, Procs, ServerInv, SessionTypeOK
<1>1. ~Restart
  BY <1>0 DEF Restart
<1>2. sess[c] = s /\ pc[c] \in Feedable
  BY <1>0 DEF OutboxIsLive
<1>3. ASSUME Silent, ReachedIs(s, n)' PROVE Goal
  BY <1>3 DEF Silent
<1>4. ASSUME NEW f, IsDispatch(f), f.sess = s, f.n = n + 1, SendText(s, f), ReachedIs(s, n + 1)' PROVE Goal
  <2>1. sent' = {<<c, f>>}
    BY <1>0, <1>4 DEF SendText
  <2> QED
    BY <1>4, <2>1
<1> HIDE DEF Goal
<1>5. ASSUME NEW p \in Procs, sess[p] = s, DispatchNumber(p) PROVE Goal
  <2>1. /\ pc[p] = "number" /\ pc'[p] = "store" /\ sess' = sess /\ seq'[s] = seq[s] + 1 /\ Silent
    BY <1>0, <1>5 DEF DispatchNumber, Goto, SessionTypeOK, PcTypeOK
  <2>2. \A q \in Procs : q # p => ~(sess[q] = s /\ pc[q] \in Front) /\ ~(sess'[q] = s /\ pc'[q] \in Front)
    BY <1>0, <1>5, <2>1, FrontAlone DEF TaskStep, DispatchNext, Working, InDispatch
  <2>3. n = seq[s]
    BY <2>1, <2>2 DEF ReachedIs, Front, Replaying
  <2>4. \A d \in Conns : ~(sess'[d] = s /\ pc'[d] \in Replaying)
    BY <1>0, <2>1, <2>2 DEF Front, Replaying
  <2>5. ~ \A q \in Procs : ~(sess'[q] = s /\ pc'[q] \in Front)
    BY <1>5, <2>1 DEF Front
  <2>6. n + 1 = seq'[s]
    BY <2>1, <2>3
  <2>7. ReachedIs(s, n)'
    BY <2>4, <2>5, <2>6 DEF ReachedIs
  <2> QED
    BY <1>3, <2>1, <2>7
<1>6. ASSUME NEW p \in Procs, sess[p] = s, DispatchStore(p) PROVE Goal
  <2>1. /\ pc[p] = "store" /\ pc'[p] = "send" /\ sess' = sess /\ seq' = seq /\ Silent
    BY <1>0, <1>6 DEF DispatchStore, Goto, PcTypeOK
  <2>2. \A q \in Procs : q # p => ~(sess[q] = s /\ pc[q] \in Front) /\ ~(sess'[q] = s /\ pc'[q] \in Front)
    BY <1>0, <1>6, <2>1, FrontAlone DEF TaskStep, DispatchNext, Working, InDispatch
  <2>3. n + 1 = seq'[s]
    BY <1>6, <2>1 DEF ReachedIs
  <2>4. \A d \in Conns : ~(sess'[d] = s /\ pc'[d] \in Replaying)
    BY <1>0, <2>1, <2>2 DEF Front, Replaying
  <2>5. ~ \A q \in Procs : ~(sess'[q] = s /\ pc'[q] \in Front)
    BY <1>6, <2>1 DEF Front
  <2>7. ReachedIs(s, n)'
    BY <2>3, <2>4, <2>5 DEF ReachedIs
  <2> QED
    BY <1>3, <2>1, <2>7
<1>7. ASSUME NEW p \in Procs, sess[p] = s, DispatchSend(p) PROVE Goal
  <2> DEFINE f == Dispatch(EventOf(p), s, num[p])
  <2>1. /\ pc[p] = "send" /\ pc'[p] \in {"open", "idle", "number"} /\ seq' = seq /\ SendText(s, f)
    BY <1>0, <1>7 DEF DispatchSend, Goto, PcTypeOK, session
  <2>2. \A q \in Procs : q # p => ~(sess[q] = s /\ pc[q] \in Front) /\ ~(sess'[q] = s /\ pc'[q] \in Front)
    BY <1>0, <1>7, <2>1, FrontAlone DEF TaskStep, DispatchNext, Working, InDispatch
  <2>3. n + 1 = seq[s] /\ num[p] = seq[s]
    BY <1>7, <2>1 DEF ReachedIs, LedgerInv
  <2>4. \A q \in Procs : ~(sess'[q] = s /\ pc'[q] \in Front)
    BY <2>1, <2>2 DEF Front, Replaying
  <2>5. ReachedIs(s, n + 1)'
    BY <1>0, <2>1, <2>3, <2>4 DEF ReachedIs, Front
  <2>6. IsDispatch(f) /\ f.sess = s /\ f.n = n + 1
    BY <2>3, Kinds DEF Dispatch
  <2> HIDE DEF f
  <2> QED
    BY <1>4, <2>1, <2>5, <2>6
<1>8. ASSUME NEW d \in Conns, sess[d] = s, Replay(d) PROVE Goal
  <2>1. /\ pc[d] = "replay" /\ sess' = sess /\ seq' = seq /\ last' = last
    BY <1>8 DEF Replay, session
  <2>2. \A q \in Procs : q # d => ~(sess[q] = s /\ pc[q] \in Front) /\ ~(sess'[q] = s /\ pc'[q] \in Front)
    BY <1>0, <1>8, <2>1, FrontAlone DEF TaskStep, AnyConnNext, Working, InDispatch
  <2>3. /\ last[d] <= seq[s] /\ Len(missed[d]) <= seq[s]
        /\ \A i \in DOMAIN missed[d] : missed[d][i].n = seq[s] - Len(missed[d]) + i
    BY <1>8, <2>1 DEF ReplayInv, Replayable, Replaying, Resent
  <2>t. last[d] \in Nat /\ missed[d] \in Seq(Frames) /\ Len(missed[d]) \in Nat
    BY <1>0 DEF TaskTypeOK
  <2>a. ASSUME NEW a \in Nat, NEW b \in Nat, NEW k \in Nat, k = IF a > b THEN a ELSE b
        PROVE  /\ a + 1 > b => k = a /\ k + 1 = a + 1 /\ k + 1 > b
               /\ ~(a + 1 > b) => k = b
    BY <2>a
  <2> DEFINE r == seq[s] - Len(missed[d])
  <2>r. r \in Nat
    BY <1>0, <2>3, <2>t
  <2>4. n = IF r > last[d] THEN r ELSE last[d]
    BY <1>8, <2>1 DEF ReachedIs, Resent, Replaying
  <2>5. CASE missed[d] = <<>>
    <3>1. pc'[d] = "number" /\ Silent
      BY <1>0, <1>8, <2>5 DEF Replay, Goto, PcTypeOK
    <3>2. n = seq[s]
      <4>1. Len(missed[d]) = 0
        BY <2>5
      <4> QED
        BY <1>0, <2>t, <2>3, <2>4, <4>1
    <3>3. \A q \in Procs : ~(sess'[q] = s /\ pc'[q] \in Front)
      BY <2>2, <3>1 DEF Front, Replaying
    <3>4. ReachedIs(s, n)'
      BY <1>0, <2>1, <3>2, <3>3 DEF ReachedIs, Front
    <3> QED
      BY <1>3, <3>1, <3>4
  <2>6. CASE missed[d] # <<>>
    <3> DEFINE f == Head(missed[d])
    <3>1. /\ pc' = pc /\ missed'[d] = Tail(missed[d])
          /\ IF IsMissed(d, f) THEN SendText(s, f) ELSE Silent
      BY <1>0, <1>8, <2>6 DEF Replay, TaskTypeOK
    <3>2. /\ Len(Tail(missed[d])) = Len(missed[d]) - 1 /\ Len(missed[d]) \in Nat \ {0}
          /\ f = missed[d][1] /\ 1 \in DOMAIN missed[d]
      BY <2>t, <2>6, Dropped
    <3>3. f.n = r + 1 /\ f.sess = s /\ IsDispatch(f)
      <4>1. f.n = r + 1
        BY <2>3, <3>2
      <4>2. f.sess = s
        BY <1>0, <1>8, <3>2 DEF FrameInv
      <4>3. IsDispatch(f)
        BY <3>2 DEF ReadyInv, FirstIsReady
      <4> QED
        BY <4>1, <4>2, <4>3
    <3>4. Resent(d)' = r + 1
      <4>1. Resent(d)' = seq[s] - (Len(missed[d]) - 1)
        BY <1>8, <2>1, <3>1, <3>2 DEF Resent
      <4>2. seq[s] - (Len(missed[d]) - 1) = r + 1
        BY <1>0, <2>t
      <4> QED
        BY <4>1, <4>2
    <3>5. ASSUME NEW m, m = IF Resent(d)' > last'[d] THEN Resent(d)' ELSE last'[d]
          PROVE  ReachedIs(s, m)'
      <4>1. \A x \in Conns : sess'[x] = s /\ pc'[x] \in Replaying => x = d
        BY <1>0, <2>2 DEF Front
      <4>2. \A q \in Procs : ~(sess'[q] = s /\ pc'[q] \in {"store", "send"})
        <5>1. pc'[d] = "replay"
          BY <2>1, <3>1
        <5> QED
          BY <2>2, <5>1 DEF Front
      <4>3. d \in Procs /\ sess'[d] = s /\ pc'[d] \in Front
        BY <1>0, <1>8, <2>1, <3>1 DEF Front, Replaying
      <4> QED
        BY <3>5, <4>1, <4>2, <4>3 DEF ReachedIs
    <3> HIDE DEF f, r
    <3>6. CASE IsMissed(d, f)
      <4>1. f.n > last[d]
        BY <3>6 DEF IsMissed
      <4>2. n = r /\ n + 1 = r + 1 /\ n + 1 > last[d]
        BY <2>a, <2>r, <2>t, <2>4, <3>3, <4>1
      <4>3. n + 1 = IF Resent(d)' > last'[d] THEN Resent(d)' ELSE last'[d]
        BY <2>1, <3>4, <4>2
      <4>4. ReachedIs(s, n + 1)'
        BY <3>5, <4>3
      <4> QED
        BY <1>4, <3>1, <3>3, <3>6, <4>2, <4>4
    <3>7. CASE ~IsMissed(d, f)
      <4>1. ~(f.n > last[d])
        BY <3>7 DEF IsMissed
      <4>2. n = last[d] /\ ~(r + 1 > last[d])
        BY <2>a, <2>r, <2>t, <2>4, <3>3, <4>1
      <4>3. n = IF Resent(d)' > last'[d] THEN Resent(d)' ELSE last'[d]
        BY <2>1, <3>4, <4>2
      <4>4. ReachedIs(s, n)'
        BY <3>5, <4>3
      <4> QED
        BY <1>3, <3>1, <3>7, <4>4
    <3> QED
      BY <3>6, <3>7
  <2> QED
    BY <2>5, <2>6
<1>9. ASSUME NEW d \in Conns, sess[d] = s, Reconnect(d) PROVE Goal
  <2>1. /\ sess' = sess /\ seq' = seq /\ last' = last /\ missed' = missed /\ Silent
    BY <1>9 DEF Reconnect
  <2>2. pc[d] \in {"rc_time", "rc_flag"}
    <3>1. ASSUME pc[d] = "rc_outbox" PROVE FALSE
      <4>1. outbox'[s] = d
        BY <1>0, <1>9, <3>1 DEF Reconnect, SessionTypeOK
      <4> QED
        BY <1>2, <3>1, <4>1 DEF Feedable
    <3> QED
      BY <1>9, <3>1 DEF Reconnect
  <2>3. pc'[d] \in {"rc_flag", "replay"}
    BY <1>0, <1>9, <2>2 DEF Reconnect, Goto, PcTypeOK
  <2>4. \A q \in Procs : q # d => ~(sess[q] = s /\ pc[q] \in Front) /\ ~(sess'[q] = s /\ pc'[q] \in Front)
    BY <1>0, <1>9, <2>2, FrontAlone DEF TaskStep, AnyConnNext, Working, InDispatch
  <2>5. n = IF Resent(d) > last[d] THEN Resent(d) ELSE last[d]
    BY <1>9, <2>2 DEF ReachedIs, Replaying
  <2>6. Resent(d)' = Resent(d)
    BY <2>1 DEF Resent
  <2>7. \A x \in Conns : sess'[x] = s /\ pc'[x] \in Replaying => x = d
    BY <1>0, <2>4 DEF Front
  <2>8. \A q \in Procs : ~(sess'[q] = s /\ pc'[q] \in {"store", "send"})
    BY <2>3, <2>4 DEF Front
  <2>9. d \in Procs /\ sess'[d] = s /\ pc'[d] \in Front
    BY <1>0, <1>9, <2>1, <2>3 DEF Front, Replaying
  <2>10. ReachedIs(s, n)'
    BY <2>1, <2>5, <2>6, <2>7, <2>8, <2>9 DEF ReachedIs
  <2> QED
    BY <1>3, <2>1, <2>10
<1>10. CASE /\ \A p \in Procs : sess[p] = s => ~DispatchNext(p)
            /\ \A d \in Conns : sess[d] = s => ~Replay(d) /\ ~Reconnect(d)
  <2>1. \A x \in Procs : /\ (sess'[x] = s /\ pc'[x] \in Front) <=> (sess[x] = s /\ pc[x] \in Front)
                         /\ sess[x] = s /\ pc[x] \in Front =>
                              pc'[x] = pc[x] /\ (x \in Conns => last'[x] = last[x] /\ missed'[x] = missed[x])
    BY <1>0, <1>1, <1>10, FrontKept
  <2>2. ~Identify(s)
    <3>1. ASSUME Identify(s) PROVE FALSE
      <4>1. Untouched(s)
        BY <3>1 DEF Identify, ServerInv, SessionInv, Fresh
      <4> QED
        BY <1>0, <4>1 DEF Untouched
    <3> QED
      BY <3>1
  <2>3. seq'[s] = seq[s]
    BY <1>0, <1>10, <2>2, LedgerStays DEF DispatchNext
  <2>4. ASSUME NEW f, <<c, f>> \in sent' PROVE ~IsDispatch(f)
    <3>1. ~SendsReady(c, f)
      BY <1>2 DEF SendsReady, TakesIdentify, Identify, Feedable
    <3>2. ~SendsMissed(c, f)
      <4>1. ASSUME NEW d \in Conns, Replay(d), outbox[sess[d]] = c PROVE sess[d] = s
        <5>1. sess[d] \in Conns
          BY <1>0, <4>1 DEF Replay, TaskInv, TaskOK, Holding, Resuming
        <5> QED
          BY <1>0, <1>2, <4>1, <5>1 DEF OutboxIsLive
      <4> QED
        BY <1>10, <4>1 DEF SendsMissed
    <3>3. ~SendsNew(c, f)
      <4>1. ASSUME NEW p \in Procs, DispatchSend(p), outbox[sess[p]] = c PROVE sess[p] = s
        <5>1. sess[p] \in Conns
          BY <1>0, <4>1, DispatchHolds DEF DispatchSend
        <5> QED
          BY <1>0, <1>2, <4>1, <5>1 DEF OutboxIsLive
      <4> QED
        BY <1>10, <4>1 DEF SendsNew, DispatchNext
    <3>4. Sends(c, f)
      BY <1>0, <2>4, WhatIsSent
    <3> QED
      BY <3>1, <3>2, <3>3, <3>4 DEF Sends, SendsOther, SendsAsk
  <2>5. ReachedIs(s, n)'
    <3>1. ASSUME NEW d \in Conns, sess'[d] = s, pc'[d] \in Replaying
          PROVE  n = (IF Resent(d) > last[d] THEN Resent(d) ELSE last[d])'
      <4>1. /\ sess[d] = s /\ pc'[d] = pc[d] /\ last'[d] = last[d] /\ missed'[d] = missed[d]
        BY <1>0, <2>1, <3>1 DEF Front
      <4>2. Resent(d)' = Resent(d)
        BY <2>3, <3>1, <4>1 DEF Resent
      <4> QED
        BY <3>1, <4>1, <4>2 DEF ReachedIs
    <3>2. ASSUME NEW q \in Procs, sess'[q] = s, pc'[q] \in {"store", "send"} PROVE n + 1 = seq'[s]
      <4>1. sess[q] = s /\ pc'[q] = pc[q]
        BY <2>1, <3>2 DEF Front
      <4> QED
        BY <2>3, <3>2, <4>1 DEF ReachedIs
    <3>3. (\A q \in Procs : ~(sess'[q] = s /\ pc'[q] \in Front)) => n = seq'[s]
      BY <2>1, <2>3 DEF ReachedIs
    <3> QED
      BY <3>1, <3>2, <3>3 DEF ReachedIs
  <2> QED
    BY <2>4, <2>5 DEF Goal
<1>11. Goal
  <2>1. CASE \E p \in Procs : sess[p] = s /\ DispatchNext(p)
    BY <1>5, <1>6, <1>7, <2>1 DEF DispatchNext
  <2>2. CASE \E d \in Conns : sess[d] = s /\ (Replay(d) \/ Reconnect(d))
    BY <1>8, <1>9, <2>2
  <2>3. CASE /\ ~ \E p \in Procs : sess[p] = s /\ DispatchNext(p)
             /\ ~ \E d \in Conns : sess[d] = s /\ (Replay(d) \/ Reconnect(d))
    <3>1. \A p \in Procs : sess[p] = s => ~DispatchNext(p)
      BY <2>3
    <3>2. \A d \in Conns : sess[d] = s => ~Replay(d) /\ ~Reconnect(d)
      BY <2>3
    <3> QED
      BY <1>10, <3>1, <3>2 DEF Goal
  <2> QED
    BY <2>1, <2>2, <2>3
<1> QED
  BY <1>11 DEF Goal

(***************************************************************************)
(* The invariant of the stream.                                            *)
(***************************************************************************)
\* A connection task that has looked its session up and does not feed it yet.
Early == {"check", "collect", "forget", "rc_outbox"}

\* The handshake: d and u are the wire, l, x and m are the task's pc, sess and
\* last, sid and at the client's position.
Asks(d, u, l, x, m, sid, at) ==
  /\ l = "off" => d = <<>>
  /\ OneQuestion(d, u)
  /\ Asking(d) \/ Answering(u) => l \in {"hello", "drain", "closed"} /\ x = None /\ Bare(d)
  /\ l \in {"hello"} \cup Early => Bare(d)
  /\ \A j \in DOMAIN u : /\ u[j].op = "IDENTIFY" => sid = None
                         /\ u[j].op = "RESUME" => u[j].sess = sid /\ u[j].n = at
  /\ l \in Early => x = sid /\ m = at

AskInv(c) == Asks(down[c], up[c], pc[c], sess[c], last[c], sessionId, lastSeq)

\* A session that feeds c is known to the client, and what the client has handled and
\* what is on the wire reach as far as the session has got.
Reaches(c, s) == \E n \in Nat : ReachedIs(s, n) /\ UpTo(down[c], At(sessionId, lastSeq, s), n)
Feeds(c, s)   == /\ Known(down[c], sessionId, s, Len(down[c]))
                 /\ s \notin overlapped => Reaches(c, s)

WireInv(c) ==
  /\ Whose(down[c], sessionId, pc[c], sess[c])
  /\ InOrder(down[c], sessionId, lastSeq, overlapped)
  /\ \A s \in Conns : outbox[s] = c => Feeds(c, s)

ReaderInv == \A c \in Conns : Listening(c) => AskInv(c) /\ WireInv(c)

QueuedReady ==
  \A c \in Conns : \A i \in DOMAIN down[c] : down[c][i].op = "READY" => down[c][i].n = 1

UnopenedInv ==
  /\ socket # None => socket \in opened
  /\ \A c \in Conns \ opened : pc[c] = "off" /\ up[c] = <<>> /\ down[c] = <<>>

AppliedInv ==
  sessionId # None /\ sessionId \notin overlapped => applied = [i \in 1..lastSeq |-> i]

StreamInv ==
  OneAtATime /\ ReadyInv /\ CleanInv /\ QueuedReady /\ UnopenedInv /\ ReaderInv /\ AppliedInv

(***************************************************************************)
(* The handshake, one step at a time.                                      *)
(***************************************************************************)
\* A step of the task that puts nothing on the wire.
LEMMA AsksStage ==
  ASSUME NEW d, NEW u, NEW l, NEW x, NEW m, NEW sid, NEW at, NEW l2, NEW x2, NEW m2,
         Asks(d, u, l, x, m, sid, at),
         l2 = "off" => l = "off",
         l \in {"hello", "drain", "closed"} /\ x = None => l2 \in {"hello", "drain", "closed"} /\ x2 = None,
         l2 \in {"hello"} \cup Early => l \in {"hello"} \cup Early,
         l2 \in Early => l \in Early /\ x2 = x /\ m2 = m
  PROVE  Asks(d, u, l2, x2, m2, sid, at)
  BY DEF Asks

\* The server takes the next frame.
LEMMA AsksTaken ==
  ASSUME NEW d \in Seq(Frames), NEW u \in Seq(Asked), u # <<>>,
         NEW l, NEW x, NEW m, NEW sid, NEW at, Asks(d, u, l, x, m, sid, at)
  PROVE  /\ Asks(d, Tail(u), l, x, m, sid, at)
         /\ IsAnswer(Head(u)) => ~Asking(d) /\ ~Answering(Tail(u)) /\ Bare(d)
         /\ Head(u).op = "RESUME" => Head(u).sess = sid /\ Head(u).n = at
         /\ Head(u).op = "IDENTIFY" => sid = None
<1>1. /\ Answering(Tail(u)) => Answering(u)
      /\ OneQuestion(d, Tail(u))
      /\ IsAnswer(Head(u)) => Answering(u) /\ ~Answering(Tail(u))
  BY AnswerDropped DEF Asks
<1>2. /\ \A i \in DOMAIN Tail(u) : i + 1 \in DOMAIN u /\ Tail(u)[i] = u[i + 1]
      /\ 1 \in DOMAIN u /\ Head(u) = u[1]
  <2>1. /\ DOMAIN u = 1..Len(u) /\ DOMAIN Tail(u) = 1..(Len(u) - 1) /\ Len(u) \in Nat \ {0}
        /\ \A i \in 1..(Len(u) - 1) : Tail(u)[i] = u[i + 1]
        /\ Head(u) = u[1]
    BY Dropped
  <2> QED
    BY <2>1
<1>3. \A j \in DOMAIN Tail(u) : /\ Tail(u)[j].op = "IDENTIFY" => sid = None
                                /\ Tail(u)[j].op = "RESUME" => Tail(u)[j].sess = sid /\ Tail(u)[j].n = at
  BY <1>2 DEF Asks
<1>4. Asks(d, Tail(u), l, x, m, sid, at)
  BY <1>1, <1>3 DEF Asks
<1>5. Answering(u) => ~Asking(d) /\ Bare(d)
  BY DEF Asks, OneQuestion
<1>6. /\ Head(u).op = "RESUME" => Head(u).sess = sid /\ Head(u).n = at
      /\ Head(u).op = "IDENTIFY" => sid = None
  BY <1>2 DEF Asks
<1> QED
  BY <1>1, <1>4, <1>5, <1>6

\* A frame that is no question reaches the wire: a dispatch only once the task is
\* past the handshake.
LEMMA AsksSent ==
  ASSUME NEW d \in Seq(Frames), NEW u \in Seq(Asked), NEW f \in Frames,
         NEW l, NEW x, NEW m, NEW sid, NEW at, Asks(d, u, l, x, m, sid, at),
         ~IsAsk(f), l # "off",
         IsDispatch(f) => l \notin {"hello", "drain", "closed"} \cup Early
  PROVE  Asks(Append(d, f), u, l, x, m, sid, at)
<1>1. /\ Bare(Append(d, f)) <=> Bare(d) /\ ~IsDispatch(f)
      /\ Asking(Append(d, f)) <=> Asking(d)
      /\ OneQuestion(Append(d, f), u)
  BY AskAppended DEF Asks
<1> QED
  BY <1>1 DEF Asks

\* The client's heartbeat.
LEMMA AsksBeat ==
  ASSUME NEW d \in Seq(Frames), NEW u \in Seq(Asked), NEW f \in Asked, ~IsAnswer(f),
         NEW l, NEW x, NEW m, NEW sid, NEW at, Asks(d, u, l, x, m, sid, at)
  PROVE  Asks(d, Append(u, f), l, x, m, sid, at)
<1>1. (Answering(Append(u, f)) <=> Answering(u)) /\ OneQuestion(d, Append(u, f))
  BY AnswerAppended DEF Asks
<1>2. \A j \in DOMAIN Append(u, f) : IsAnswer(Append(u, f)[j]) => j \in DOMAIN u /\ Append(u, f)[j] = u[j]
  <2>1. /\ DOMAIN u = 1..Len(u) /\ DOMAIN Append(u, f) = 1..(Len(u) + 1) /\ Len(u) \in Nat
        /\ \A i \in 1..Len(u) : Append(u, f)[i] = u[i]
        /\ Append(u, f)[Len(u) + 1] = f
    BY Appended
  <2> QED
    BY <2>1
<1> QED
  BY <1>1, <1>2 DEF Asks, IsAnswer

\* The client answers the question it has just read.
LEMMA AsksAnswered ==
  ASSUME NEW d \in Seq(Frames), NEW u \in Seq(Asked), d # <<>>, IsAsk(Head(d)),
         NEW l, NEW x, NEW m, NEW sid, NEW at, Asks(d, u, l, x, m, sid, at),
         NEW sid2, NEW at2
  PROVE  /\ Asks(Tail(d), u, l, x, m, sid2, at2)
         /\ \A f \in Asked : (f.op = "IDENTIFY" => sid2 = None) /\ (f.op = "RESUME" => f.sess = sid2 /\ f.n = at2)
              => Asks(Tail(d), Append(u, f), l, x, m, sid2, at2)
         /\ l \in {"hello", "drain", "closed"} /\ x = None /\ Bare(Tail(d))
<1> DEFINE e == Tail(d)
<1>1. /\ Bare(d) => Bare(e)
      /\ Asking(d) /\ ~Asking(e) /\ ~Answering(u) /\ OneQuestion(e, u) /\ e \in Seq(Frames)
  BY AskDropped, Dropped DEF Asks
<1>2. l \in {"hello", "drain", "closed"} /\ x = None /\ Bare(e)
  BY <1>1 DEF Asks
<1>3. l \notin Early /\ l # "off"
  BY <1>2 DEF Early
<1>4. \A j \in DOMAIN u : u[j].op \notin {"IDENTIFY", "RESUME"}
  BY <1>1 DEF Answering, IsAnswer
<1> HIDE DEF e
<1>5. Asks(e, u, l, x, m, sid2, at2)
  BY <1>1, <1>2, <1>3, <1>4 DEF Asks
<1>6. ASSUME NEW f \in Asked, f.op = "IDENTIFY" => sid2 = None, f.op = "RESUME" => f.sess = sid2 /\ f.n = at2
      PROVE  Asks(e, Append(u, f), l, x, m, sid2, at2)
  <2>1. OneQuestion(e, Append(u, f))
    BY <1>1, AnswerAppended
  <2>2. \A j \in DOMAIN Append(u, f) : (j \in DOMAIN u /\ Append(u, f)[j] = u[j]) \/ Append(u, f)[j] = f
    <3>1. /\ DOMAIN u = 1..Len(u) /\ DOMAIN Append(u, f) = 1..(Len(u) + 1) /\ Len(u) \in Nat
          /\ \A i \in 1..Len(u) : Append(u, f)[i] = u[i]
          /\ Append(u, f)[Len(u) + 1] = f
      BY Appended
    <3> QED
      BY <3>1
  <2> QED
    BY <1>2, <1>3, <1>4, <1>6, <2>1, <2>2 DEF Asks
<1> QED
  BY <1>2, <1>5, <1>6 DEF e

\* The client reads a frame that is no question.
LEMMA AsksRead ==
  ASSUME NEW d \in Seq(Frames), NEW u \in Seq(Asked), d # <<>>, ~IsAsk(Head(d)),
         NEW l, NEW x, NEW m, NEW sid, NEW at, Asks(d, u, l, x, m, sid, at),
         NEW sid2, NEW at2, ~IsDispatch(Head(d)) => sid2 = sid /\ at2 = at
  PROVE  Asks(Tail(d), u, l, x, m, sid2, at2)
<1> DEFINE e == Tail(d)
<1>1. /\ Bare(d) => Bare(e) /\ ~IsDispatch(Head(d))
      /\ Asking(e) => Asking(d)
      /\ OneQuestion(e, u)
  BY AskDropped DEF Asks
<1>2. l # "off"
  BY DEF Asks
<1> HIDE DEF e
<1>3. ASSUME ~IsDispatch(Head(d)) PROVE Asks(e, u, l, x, m, sid2, at2)
  BY <1>1, <1>2, <1>3 DEF Asks
<1>4. ASSUME IsDispatch(Head(d)) PROVE Asks(e, u, l, x, m, sid2, at2)
  <2>1. ~Answering(u) /\ ~Asking(d) /\ l \notin Early /\ l # "hello"
    BY <1>1, <1>4 DEF Asks
  <2>2. \A j \in DOMAIN u : u[j].op \notin {"IDENTIFY", "RESUME"}
    BY <2>1 DEF Answering, IsAnswer
  <2> QED
    BY <1>1, <1>2, <2>1, <2>2 DEF Asks
<1> QED
  BY <1>3, <1>4 DEF e

(***************************************************************************)
(* The server's steps and the handshake.                                   *)
(***************************************************************************)
\* A step sends the same frame to everyone it sends one to.
LEMMA OneFrame ==
  ASSUME ServerMoves, NEW c, NEW f, NEW g, <<c, f>> \in sent', <<c, g>> \in sent'
  PROVE  f = g
<1> DEFINE Same == \E D, h : sent' \subseteq D \X {h}
<1>1. Silent => Same
  BY DEF Silent
<1>2. ASSUME NEW d, NEW h, Send(d, h) PROVE Same
  <2>1. sent' \subseteq {d} \X {h}
    BY <1>2 DEF Send
  <2> QED
    BY <2>1
<1>3. ASSUME NEW s, NEW h, SendText(s, h) PROVE Same
  <2>1. sent' \subseteq {outbox[s]} \X {h}
    BY <1>3 DEF SendText
  <2> QED
    BY <2>1
<1>4. ASSUME NEW D, NEW h, sent' = D \X {h} PROVE Same
  BY <1>4
<1> HIDE DEF Same
<1>5. ASSUME NEW d \in Conns, TakesIdentify(d) \/ TakesResume(d) PROVE Same
  BY <1>1, <1>2, <1>5 DEF TakesIdentify, TakesResume, Identify, Resume
<1>6. ASSUME NEW d \in Conns, TakesOther(d) \/ Alone(d) PROVE Same
  <2>1. CASE TakesOther(d) \/ \E code \in CloseCodes : EndLoop(d, code)
    BY <1>1, <1>2, <2>1 DEF TakesOther, Heartbeat, EndLoop
  <2>2. CASE Accept(d) \/ Forget(d) \/ Drain(d) \/ Attach(d)
    BY <1>2, <1>4, <2>2 DEF Accept, Forget, Drain, Attach
  <2>3. CASE ReplayCheck(d) \/ ReplayCollect(d) \/ Reconnect(d) \/ Replay(d) \/ Disconnect(d)
    BY <1>1, <1>3, <2>3 DEF ReplayCheck, ReplayCollect, Reconnect, Replay, Disconnect
  <2> QED
    BY <1>6, <2>1, <2>2, <2>3 DEF Alone
<1>7. ASSUME NEW p \in Procs, DispatchNext(p) PROVE Same
  BY <1>1, <1>3, <1>7 DEF DispatchNext, DispatchNumber, DispatchStore, DispatchSend
<1>8. ASSUME \/ \E p \in Publishers, u \in Users : Publish(p, u)
             \/ (\E s \in Conns : Age(s)) \/ Sweep \/ BroadcastReconnect \/ Restart
      PROVE  Same
  BY <1>1, <1>4, <1>8 DEF Publish, Age, Sweep, BroadcastReconnect, Restart
<1>9. Same
  BY <1>5, <1>6, <1>7, <1>8 DEF ServerMoves, TakesNothing
<1> QED
  BY <1>9 DEF Same

\* The server takes frames one at a time.
LEMMA UpTaken ==
  ASSUME TypeOK, ServerMoves, NEW c \in Conns
  PROVE  up'[c] = up[c] \/ (up[c] # <<>> /\ up'[c] = Tail(up[c]))
<1>1. up \in [Conns -> Seq(Asked)]
  BY DEF TypeOK
<1>2. ASSUME NEW d \in Conns, Next1(d)
      PROVE  up'[c] = up[c] \/ (up[c] # <<>> /\ up'[c] = Tail(up[c]))
  BY <1>1, <1>2 DEF Next1
<1> QED
  BY <1>2 DEF ServerMoves, TakesNothing, TakesIdentify, TakesResume, TakesOther

\* The four steps by which a connection goes through the handshake, or back to it.
Shakes(c) == Accept(c) \/ Forget(c) \/ TakesIdentify(c) \/ TakesResume(c)

\* Where the other steps may take a connection task.
LEMMA Stages ==
  ASSUME TypeOK, ServerInv, ServerMoves, NEW c \in Conns, ~Shakes(c)
  PROVE  /\ pc'[c] = "off" => pc[c] = "off"
         /\ pc[c] \in {"hello", "drain", "closed"} /\ sess[c] = None =>
              pc'[c] \in {"hello", "drain", "closed"} /\ sess'[c] = None
         /\ pc'[c] \in {"hello"} \cup Early => pc[c] \in {"hello"} \cup Early
         /\ pc'[c] \in Early => pc[c] \in Early /\ sess'[c] = sess[c] /\ last'[c] = last[c]
         /\ sess'[c] = sess[c] \/ pc'[c] \in {"off", "closed"}
         /\ pc[c] = "closed" => pc'[c] = "closed"
<1> DEFINE Goal ==
         /\ pc'[c] = "off" => pc[c] = "off"
         /\ pc[c] \in {"hello", "drain", "closed"} /\ sess[c] = None =>
              pc'[c] \in {"hello", "drain", "closed"} /\ sess'[c] = None
         /\ pc'[c] \in {"hello"} \cup Early => pc[c] \in {"hello"} \cup Early
         /\ pc'[c] \in Early => pc[c] \in Early /\ sess'[c] = sess[c] /\ last'[c] = last[c]
         /\ sess'[c] = sess[c] \/ pc'[c] \in {"off", "closed"}
         /\ pc[c] = "closed" => pc'[c] = "closed"
<1>0. /\ ServerTypeOK /\ PcTypeOK /\ TaskTypeOK /\ c \in Procs /\ c \notin Publishers
      /\ Conns \subseteq Procs /\ Publishers \subseteq Procs
      /\ pc[c] \in ConnStates /\ TaskInv
  BY Disjoint DEF TypeOK, ServerTypeOK, PcTypeOK, Procs, ServerInv
<1>1. ASSUME pc'[c] = pc[c], sess'[c] = sess[c], last'[c] = last[c] PROVE Goal
  BY <1>1
<1>2. ASSUME NEW p \in Procs, TaskStep(p), p # c PROVE Goal
  BY <1>0, <1>1, <1>2, Local, Positions1
<1>3. ASSUME UNCHANGED task PROVE Goal
  BY <1>1, <1>3 DEF task
<1>4. ASSUME NEW l, Goto(c, l), l \notin {"off", "hello"} \cup Early, pc[c] \notin {"hello", "drain", "closed"},
             sess' = sess
      PROVE  Goal
  BY <1>0, <1>4 DEF Goto, PcTypeOK
<1>5. CASE TakesOther(c) \/ (\E code \in CloseCodes : EndLoop(c, code))
  <2>1. CASE Heartbeat(c)
    BY <1>3, <2>1 DEF Heartbeat
  <2>2. ASSUME NEW code, EndLoop(c, code) PROVE Goal
    <3>1. pc[c] \in {"hello", "open"} /\ UNCHANGED <<sess, last>>
          /\ pc'[c] = IF sess[c] = None THEN "drain" ELSE "d_flag"
      BY <1>0, <2>2 DEF EndLoop, Goto, PcTypeOK
    <3> QED
      BY <3>1 DEF Early
  <2> QED
    BY <1>5, <2>1, <2>2 DEF TakesOther
<1>6. CASE ReplayCheck(c) \/ ReplayCollect(c)
  <2>1. /\ pc[c] \in Early /\ pc'[c] \in Early /\ UNCHANGED <<sess, last>>
    BY <1>0, <1>6 DEF ReplayCheck, ReplayCollect, Goto, PcTypeOK, Early
  <2> QED
    BY <2>1 DEF Early
<1>7. CASE Attach(c) \/ Reconnect(c)
  <2>1. \E l \in {"open", "rc_time", "rc_flag", "replay"} : Goto(c, l)
    BY <1>7 DEF Attach, Reconnect
  <2>2. pc[c] \in {"attach", "rc_outbox", "rc_time", "rc_flag"} /\ sess' = sess
    BY <1>7 DEF Attach, Reconnect
  <2> QED
    BY <1>4, <2>1, <2>2 DEF Early
<1>8. CASE Replay(c)
  <2>1. pc[c] = "replay" /\ sess' = sess /\ (pc' = pc \/ Goto(c, "number")) /\ last' = last
    BY <1>8 DEF Replay
  <2> QED
    BY <1>1, <1>4, <2>1 DEF Early
<1>9. CASE Disconnect(c)
  <2>1. pc[c] \in {"d_flag", "d_outbox", "d_time"} /\ sess' = sess
        /\ \E l \in {"d_outbox", "d_time", "drain"} : Goto(c, l)
    BY <1>9 DEF Disconnect
  <2> QED
    BY <1>4, <2>1 DEF Early
<1>10. CASE Drain(c)
  <2>1. pc[c] = "drain" /\ sess' = sess /\ pc'[c] = "closed"
    BY <1>0, <1>10 DEF Drain, Goto, PcTypeOK
  <2> QED
    BY <2>1 DEF Early
<1>11. CASE DispatchNext(c)
  <2>1. pc[c] \in {"number", "store", "send"} /\ sess' = sess
        /\ \E l \in {"store", "send", "open"} : Goto(c, l)
    BY <1>0, <1>11 DEF DispatchNext, DispatchNumber, DispatchStore, DispatchSend
  <2> QED
    BY <1>4, <2>1 DEF Early
<1>12. CASE Restart
  <2>1. sess'[c] = None /\ pc'[c] = IF pc[c] = "off" THEN "off" ELSE "closed"
    BY <1>0, <1>12 DEF Restart
  <2> QED
    BY <2>1 DEF Early
<1>13. ASSUME NEW d \in Conns, TakesIdentify(d) \/ TakesResume(d) \/ TakesOther(d) \/ Alone(d), d # c
       PROVE  Goal
  <2>1. TaskStep(d) /\ d \in Procs
    BY <1>0, <1>13, TakesServe DEF TaskStep
  <2> QED
    BY <1>2, <1>13, <2>1
<1>14. ASSUME NEW p \in Procs, DispatchNext(p) PROVE Goal
  BY <1>2, <1>11, <1>14 DEF TaskStep
<1>15. ASSUME NEW p \in Publishers, NEW u \in Users, Publish(p, u) PROVE Goal
  BY <1>0, <1>2, <1>15 DEF TaskStep
<1>16. ASSUME (\E s \in Conns : Age(s)) \/ Sweep \/ BroadcastReconnect PROVE Goal
  BY <1>3, <1>16 DEF Age, Sweep, BroadcastReconnect
<1> HIDE DEF Goal
<1>17. ASSUME NEW d \in Conns, TakesIdentify(d) \/ TakesResume(d) \/ TakesOther(d) \/ Alone(d)
       PROVE  Goal
  <2>1. CASE d # c
    BY <1>13, <1>17, <2>1
  <2>2. CASE d = c
    <3>1. TakesOther(c) \/ Alone(c)
      BY <1>17, <2>2 DEF Shakes
    <3> QED
      BY <1>5, <1>6, <1>7, <1>8, <1>9, <1>10, <3>1 DEF Alone, Shakes, Goal
  <2> QED
    BY <2>1, <2>2
<1> QED
  BY <1>12, <1>14, <1>15, <1>16, <1>17 DEF ServerMoves, TakesNothing, Goal

\* Nothing is asked or answered, and no dispatch is on its way: the server may ask.
LEMMA AsksAsked ==
  ASSUME NEW d \in Seq(Frames), NEW u \in Seq(Asked),
         OneQuestion(d, u), ~Asking(d), ~Answering(u), Bare(d),
         NEW l \in {"hello", "drain", "closed"}, NEW x, x = None, NEW m, NEW sid, NEW at
  PROVE  /\ Asks(d, u, l, x, m, sid, at)
         /\ \A f \in Frames : ~IsDispatch(f) => Asks(Append(d, f), u, l, x, m, sid, at)
<1>1. \A f \in Frames : ~IsDispatch(f) => OneQuestion(Append(d, f), u) /\ Bare(Append(d, f))
  BY AskAppended
<1>2. \A j \in DOMAIN u : u[j].op \notin {"IDENTIFY", "RESUME"}
  BY DEF Answering, IsAnswer
<1>3. l \notin Early /\ l # "off"
  BY DEF Early
<1> QED
  BY <1>1, <1>2, <1>3 DEF Asks

\* The question is answered: the connection is past the handshake.
LEMMA AsksPast ==
  ASSUME NEW d \in Seq(Frames), NEW u \in Seq(Asked),
         OneQuestion(d, u), ~Asking(d), ~Answering(u), NEW l, NEW x, NEW m, NEW sid, NEW at,
         l \notin {"off", "hello"}, l \in Early => Bare(d) /\ x = sid /\ m = at
  PROVE  Asks(d, u, l, x, m, sid, at)
<1>1. \A j \in DOMAIN u : u[j].op \notin {"IDENTIFY", "RESUME"}
  BY DEF Answering, IsAnswer
<1> QED
  BY <1>1 DEF Asks

\* Whoever is sent a dispatch holds its session.
LEMMA SentWhereHeld ==
  ASSUME TypeOK, ServerInv, ReadyInv, NEW c \in Conns, NEW f, SendsMissed(c, f) \/ SendsNew(c, f)
  PROVE  /\ IsDispatch(f) /\ f.sess \in Conns /\ outbox[f.sess] = c
         /\ sess[c] = f.sess /\ pc[c] \in Feedable
         /\ f.op = "READY" => f.n = 1
         /\ outbox' = outbox
<1>0. TaskInv /\ OutboxIsLive /\ FrameInv /\ TaskTypeOK /\ None \notin Conns
  BY ConnsAssumption DEF ServerInv, TypeOK, ServerTypeOK
<1>1. /\ IsDispatch(f) /\ f.sess \in Conns /\ outbox[f.sess] = c
      /\ f.op = "READY" => f.n = 1
  <2>1. ASSUME NEW d \in Conns, Replay(d), missed[d] # <<>>, f = Head(missed[d]), outbox[sess[d]] = c
        PROVE  /\ IsDispatch(f) /\ f.sess \in Conns /\ outbox[f.sess] = c
               /\ f.op = "READY" => f.n = 1
    <3>1. sess[d] \in Conns
      BY <1>0, <2>1 DEF Replay, TaskInv, TaskOK, Holding, Resuming
    <3>2. missed[d] \in Seq(Frames)
      BY <1>0 DEF TaskTypeOK
    <3>3. 1 \in DOMAIN missed[d] /\ f = missed[d][1]
      <4>1. Head(missed[d]) = missed[d][1] /\ Len(missed[d]) \in Nat \ {0} /\ DOMAIN missed[d] = 1..Len(missed[d])
        BY <2>1, <3>2, Dropped
      <4> QED
        BY <2>1, <4>1
    <3>4. f.sess = sess[d]
      BY <1>0, <3>3 DEF FrameInv
    <3>5. FirstIsReady(f)
      BY <3>3 DEF ReadyInv
    <3> QED
      BY <2>1, <3>1, <3>4, <3>5 DEF FirstIsReady
  <2>2. ASSUME NEW p \in Procs, DispatchSend(p), outbox[sess[p]] = c,
               f = Dispatch(EventOf(p), sess[p], num[p])
        PROVE  /\ IsDispatch(f) /\ f.sess \in Conns /\ outbox[f.sess] = c
               /\ f.op = "READY" => f.n = 1
    <3>1. sess[p] \in Conns
      BY <1>0, <2>2, DispatchHolds DEF DispatchSend
    <3>2. f.sess = sess[p]
      BY <2>2 DEF Dispatch
    <3> QED
      BY <2>2, <3>1, <3>2, Kinds
  <2> QED
    BY <2>1, <2>2 DEF SendsMissed, SendsNew
<1>2. sess[c] = f.sess /\ pc[c] \in Feedable
  BY <1>0, <1>1 DEF OutboxIsLive
<1>3. outbox' = outbox
  BY DEF SendsMissed, SendsNew, Replay, DispatchSend, session
<1> QED
  BY <1>1, <1>2, <1>3

\* The server's side of the handshake.
LEMMA AskServed ==
  ASSUME TypeOK, TypeOK', ServerInv, ReadyInv, ServerMoves, NEW c \in Conns, Listening(c), AskInv(c)
  PROVE  AskInv(c)'
<1> DEFINE d == down[c]
<1> DEFINE e == down'[c]
<1> DEFINE u == up[c]
<1> DEFINE v == up'[c]
<1>0. /\ ServerTypeOK /\ PcTypeOK /\ TaskTypeOK /\ TaskInv /\ OutboxIsLive /\ c \in Procs
      /\ d \in Seq(Frames) /\ u \in Seq(Asked) /\ v \in Seq(Asked) /\ e \in Seq(Frames)
  BY DEF TypeOK, ServerTypeOK, ServerInv, Procs
<1>1. Asks(d, u, pc[c], sess[c], last[c], sessionId, lastSeq)
  BY DEF AskInv
<1>2. sessionId' = sessionId /\ lastSeq' = lastSeq
  BY DEF ServerMoves, clientVars
<1>3. SUFFICES Asks(e, v, pc'[c], sess'[c], last'[c], sessionId, lastSeq)
  BY <1>2 DEF AskInv
<1>4. (e = d /\ (\A f : <<c, f>> \notin sent')) \/ \E f \in Frames : <<c, f>> \in sent' /\ e = Append(d, f)
  <2>1. down \in [Conns -> Seq(Frames)] /\ sent' \subseteq Conns \X Frames /\ Forward
    BY DEF TypeOK, ServerTypeOK, ServerMoves
  <2> QED
    BY <2>1, Forwarded
<1>5. v = u \/ (u # <<>> /\ v = Tail(u))
  BY UpTaken
<1> HIDE DEF d, e, u, v
<1>6. Asks(d, v, pc[c], sess[c], last[c], sessionId, lastSeq)
  BY <1>0, <1>1, <1>5, AsksTaken
<1>7. ASSUME ~Shakes(c) PROVE Asks(e, v, pc'[c], sess'[c], last'[c], sessionId, lastSeq)
  <2>1. ASSUME NEW f \in Frames, <<c, f>> \in sent'
        PROVE  ~IsAsk(f) /\ pc[c] # "off" /\ (IsDispatch(f) => pc[c] \notin {"hello", "drain", "closed"} \cup Early)
    <3>1. Sends(c, f)
      BY <1>0, <2>1, WhatIsSent
    <3>2. SendsOther(c, f) \/ SendsMissed(c, f) \/ SendsNew(c, f)
      BY <1>7, <3>1 DEF Sends, SendsAsk, SendsReady, Shakes
    <3>3. CASE SendsOther(c, f)
      BY <1>7, <3>3 DEF SendsOther, Shakes
    <3>4. CASE SendsMissed(c, f) \/ SendsNew(c, f)
      <4>1. IsDispatch(f) /\ pc[c] \in Feedable
        BY <3>4, SentWhereHeld
      <4> QED
        BY <4>1, Kinds DEF Feedable, Early
    <3> QED
      BY <3>2, <3>3, <3>4
  <2>2. Asks(e, v, pc[c], sess[c], last[c], sessionId, lastSeq)
    BY <1>0, <1>4, <1>6, <2>1, AsksSent
  <2> QED
    BY <1>7, <2>2, Stages, AsksStage
<1>8. ASSUME Accept(c) \/ Forget(c) PROVE Asks(e, v, pc'[c], sess'[c], last'[c], sessionId, lastSeq)
  <2>1. /\ pc[c] \in {"off", "forget"} /\ pc'[c] \in {"hello", "closed"} /\ sess'[c] = None
    <3>1. CASE Accept(c)
      BY <1>0, <3>1 DEF Accept, Goto, PcTypeOK, TaskInv, TaskOK
    <3>2. CASE Forget(c)
      BY <1>0, <3>2 DEF Forget, Goto, PcTypeOK, TaskTypeOK
    <3> QED
      BY <1>8, <3>1, <3>2
  <2>2. ASSUME NEW f, <<c, f>> \in sent' PROVE ~IsDispatch(f)
    <3>1. \E g \in {Control("HELLO"), Control("INVALID_SESSION"), Close(VERSION_TOO_OLD)} : Send(c, g)
      BY <1>8 DEF Accept, Forget
    <3>2. f \in {Control("HELLO"), Control("INVALID_SESSION"), Close(VERSION_TOO_OLD)}
      BY <2>2, <3>1 DEF Send
    <3> QED
      BY <3>2, Kinds
  <2>3. OneQuestion(d, v) /\ ~Asking(d) /\ ~Answering(v) /\ Bare(d)
    BY <1>6, <2>1, NoneQueued DEF Asks, Early
  <2> QED
    BY <1>0, <1>4, <2>1, <2>2, <2>3, AsksAsked
<1>9. ASSUME TakesResume(c) \/ TakesIdentify(c)
      PROVE  /\ u # <<>> /\ v = Tail(u) /\ pc[c] = "hello" /\ sess[c] = None
             /\ OneQuestion(d, v) /\ ~Asking(d) /\ ~Answering(v) /\ Bare(d)
             /\ TakesResume(c) => Head(u).sess = sessionId /\ Head(u).n = lastSeq
  <2>1. u # <<>> /\ v = Tail(u)
    BY <1>0, <1>9 DEF TakesResume, TakesIdentify, Next1, u, v, TypeOK
  <2>2. pc[c] = "hello" /\ sess[c] = None
    BY <1>0, <1>9 DEF TakesResume, TakesIdentify, Resume, Identify, TaskInv, TaskOK
  <2>3. IsAnswer(Head(u)) /\ (TakesResume(c) => Head(u).op = "RESUME")
    BY <1>9 DEF TakesResume, TakesIdentify, u, IsAnswer
  <2>4. /\ ~Asking(d) /\ ~Answering(v) /\ Bare(d)
        /\ TakesResume(c) => Head(u).sess = sessionId /\ Head(u).n = lastSeq
    BY <1>0, <1>1, <2>1, <2>3, AsksTaken
  <2>5. OneQuestion(d, v)
    BY <1>6 DEF Asks
  <2> QED
    BY <2>1, <2>2, <2>4, <2>5
<1>10. ASSUME TakesResume(c) PROVE Asks(e, v, pc'[c], sess'[c], last'[c], sessionId, lastSeq)
  <2>1. Resume(c, sessionId, lastSeq)
    BY <1>9, <1>10 DEF TakesResume, u
  <2>2. CASE Resumable(sessionId, c)
    <3>1. pc'[c] = "check" /\ sess'[c] = sessionId /\ last'[c] = lastSeq /\ Silent
      BY <1>0, <2>1, <2>2 DEF Resume, Goto, PcTypeOK, TaskTypeOK
    <3>2. e = d
      BY <1>4, <3>1 DEF Silent
    <3> QED
      BY <1>0, <1>9, <1>10, <3>1, <3>2, AsksPast
  <2>3. CASE ~Resumable(sessionId, c)
    <3>1. pc'[c] = "hello" /\ sess'[c] = None /\ Send(c, Control("INVALID_SESSION"))
      BY <1>9, <1>10, <2>1, <2>3 DEF Resume
    <3>2. \A f : <<c, f>> \in sent' => ~IsDispatch(f)
      BY <3>1, Kinds DEF Send
    <3> QED
      BY <1>0, <1>4, <1>9, <1>10, <3>1, <3>2, AsksAsked
  <2> QED
    BY <2>2, <2>3
<1>11. ASSUME TakesIdentify(c) PROVE Asks(e, v, pc'[c], sess'[c], last'[c], sessionId, lastSeq)
  <2>1. pc'[c] = "attach" /\ Send(c, Dispatch("READY", c, 1))
    BY <1>0, <1>11 DEF TakesIdentify, Identify, Goto, PcTypeOK
  <2>2. \A f : <<c, f>> \in sent' => ~IsAsk(f)
    BY <2>1, Kinds DEF Send
  <2>3. OneQuestion(e, v) /\ ~Asking(e)
    BY <1>0, <1>4, <1>9, <1>11, <2>2, AskAppended
  <2> QED
    BY <1>0, <1>9, <1>11, <2>1, <2>3, AsksPast DEF Early
<1> QED
  BY <1>7, <1>8, <1>10, <1>11 DEF Shakes

(***************************************************************************)
(* The server's steps and the stream.                                      *)
(***************************************************************************)
LEMMA WhoseStays ==
  ASSUME NEW d, NEW sid, NEW l, NEW x, NEW l2, NEW x2, Whose(d, sid, l, x),
         Bare(d) \/ ((l = "closed" => l2 = "closed") /\ (l2 = "closed" \/ x2 = x))
  PROVE  Whose(d, sid, l2, x2)
  BY DEF Whose, Bare

\* The order on the wire when more sessions have overlapped.
LEMMA OrderStays ==
  ASSUME NEW d, NEW sid, NEW at, NEW over, NEW more, over \subseteq more, InOrder(d, sid, at, over)
  PROVE  InOrder(d, sid, at, more)
  BY DEF InOrder

\* What has been sent to c remains what its task's session is.
LEMMA WhoseTask ==
  ASSUME TypeOK, ServerInv, ServerMoves, NEW c \in Conns, AskInv(c),
         Whose(down[c], sessionId, pc[c], sess[c])
  PROVE  Whose(down[c], sessionId, pc'[c], sess'[c])
<1>1. CASE Shakes(c)
  <2>1. pc[c] \in {"off", "forget", "hello"}
    BY <1>1 DEF Shakes, Accept, Forget, TakesIdentify, TakesResume, Identify, Resume
  <2>2. Bare(down[c])
    BY <2>1, NoneQueued DEF AskInv, Asks, Early
  <2> QED
    BY <2>2, WhoseStays
<1>2. CASE ~Shakes(c)
  <2>1. CASE pc[c] = "off"
    <3>1. Bare(down[c])
      BY <2>1, NoneQueued DEF AskInv, Asks
    <3> QED
      BY <3>1, WhoseStays
  <2>2. CASE pc[c] # "off"
    BY <1>2, <2>2, Stages, WhoseStays
  <2> QED
    BY <2>1, <2>2
<1> QED
  BY <1>1, <1>2

\* While s feeds c, its next dispatch is the next one on c's wire.
LEMMA StreamMoves ==
  ASSUME TypeOK, TypeOK', ServerInv, OneAtATime, ReadyInv, CleanInv, ServerMoves,
         NEW c \in Conns, Listening(c), NEW s \in Conns \ overlapped,
         outbox[s] = c, outbox'[s] = c, Reaches(c, s)
  PROVE  /\ Reaches(c, s)'
         /\ \A f : <<c, f>> \in sent' /\ IsDispatch(f) =>
              \E n \in Nat : UpTo(down[c], At(sessionId, lastSeq, s), n) /\ f.n = n + 1
<1>1. PICK n \in Nat : ReachedIs(s, n) /\ UpTo(down[c], At(sessionId, lastSeq, s), n)
  BY DEF Reaches
<1>2. sess[c] = s /\ c \in Procs /\ None \notin Conns
  BY ConnsAssumption DEF ServerInv, OutboxIsLive, Procs
<1>3. OneAt(s) /\ LedgerInv(s) /\ \A x \in Conns : sess[x] = s => ReplayInv(x)
  BY <1>2 DEF OneAtATime, CleanInv, InUse
<1>4. /\ \A f : <<c, f>> \in sent' /\ IsDispatch(f) => f.sess = s /\ f.n = n + 1 /\ ReachedIs(s, n + 1)'
      /\ (\A f : <<c, f>> \in sent' => ~IsDispatch(f)) => ReachedIs(s, n)'
  BY <1>1, <1>3, ReachedStep
<1>5. sessionId' = sessionId /\ lastSeq' = lastSeq
  BY DEF ServerMoves, clientVars
<1>6. /\ down[c] \in Seq(Frames) /\ lastSeq \in Nat
      /\ At(sessionId, lastSeq, s) \in Nat
  BY DEF TypeOK, ClientTypeOK, At
<1>7. \/ down'[c] = down[c] /\ (\A f : <<c, f>> \notin sent')
      \/ \E f \in Frames : <<c, f>> \in sent' /\ down'[c] = Append(down[c], f)
  <2>1. down \in [Conns -> Seq(Frames)] /\ sent' \subseteq Conns \X Frames /\ Forward
    BY DEF TypeOK, ServerTypeOK, ServerMoves
  <2> QED
    BY <2>1, Forwarded
<1>8. ASSUME NEW m \in Nat, ReachedIs(s, m)', UpTo(down'[c], At(sessionId, lastSeq, s), m)
      PROVE  Reaches(c, s)'
  BY <1>5, <1>8 DEF Reaches
<1>9. CASE down'[c] = down[c] /\ (\A f : <<c, f>> \notin sent')
  BY <1>1, <1>4, <1>8, <1>9
<1>10. ASSUME NEW f \in Frames, <<c, f>> \in sent', down'[c] = Append(down[c], f) PROVE Reaches(c, s)'
  <2>1. CASE IsDispatch(f)
    <3>1. f.n = n + 1 /\ ReachedIs(s, n + 1)'
      BY <1>4, <1>10, <2>1
    <3>2. UpTo(Append(down[c], f), At(sessionId, lastSeq, s), n + 1)
      BY <1>1, <1>6, <2>1, <3>1, DispatchAppended
    <3>3. n + 1 \in Nat
      OBVIOUS
    <3> QED
      BY <1>8, <1>10, <3>1, <3>2, <3>3
  <2>2. CASE ~IsDispatch(f)
    <3>1. \A g : <<c, g>> \in sent' => ~IsDispatch(g)
      BY <1>10, <2>2, OneFrame
    <3>2. UpTo(Append(down[c], f), At(sessionId, lastSeq, s), n)
      BY <1>1, <1>6, <2>2, OtherAppended
    <3> QED
      BY <1>4, <1>8, <1>10, <3>1, <3>2
  <2> QED
    BY <2>1, <2>2
<1> QED
  BY <1>1, <1>4, <1>7, <1>9, <1>10

\* IDENTIFY starts the stream with READY.
LEMMA StreamStarts ==
  ASSUME TypeOK, TypeOK', ServerInv, ServerMoves,
         NEW c \in Conns, Listening(c), AskInv(c), TakesIdentify(c)
  PROVE  Feeds(c, c)'
<1>0. /\ SessionTypeOK /\ PcTypeOK /\ TaskTypeOK /\ c \in Procs /\ c \notin Publishers /\ None \notin Conns
      /\ SessionInv /\ Conns \subseteq Procs /\ ServerTypeOK
      /\ down[c] \in Seq(Frames)
  BY ConnsAssumption, Disjoint DEF TypeOK, ServerTypeOK, Procs, ServerInv
<1>1. /\ pc[c] = "hello" /\ seq'[c] = 1 /\ pc'[c] = "attach" /\ sess'[c] = c
      /\ sent' = {<<c, Dispatch("READY", c, 1)>>}
  BY <1>0 DEF TakesIdentify, Identify, Goto, Send, SessionTypeOK, PcTypeOK, TaskTypeOK
<1>2. Untouched(c)
  BY <1>0, <1>1 DEF SessionInv, Fresh
<1>3. ASSUME NEW p \in Procs, sess'[p] = c PROVE pc'[p] = "attach"
  <2>1. CASE p = c
    BY <1>1, <2>1
  <2>2. CASE p # c
    <3>1. sess'[p] = sess[p]
      BY <1>0, <2>2, Local DEF TakesIdentify, TaskStep, AnyConnNext
    <3> QED
      BY <1>2, <1>3, <3>1 DEF Untouched
  <2> QED
    BY <2>1, <2>2
<1>4. ReachedIs(c, 1)'
  BY <1>0, <1>1, <1>3 DEF ReachedIs, Replaying, Front
<1>5. sessionId' = sessionId /\ lastSeq' = lastSeq /\ lastSeq \in Nat
  BY DEF ServerMoves, clientVars, TypeOK, ClientTypeOK
<1>6. Bare(down[c]) /\ sessionId = None
  <2>1. Bare(down[c])
    BY <1>1 DEF AskInv, Asks
  <2>2. up[c] \in Seq(Asked) /\ up[c] # <<>> /\ Head(up[c]).op = "IDENTIFY"
    BY DEF TakesIdentify, Next1, TypeOK
  <2>3. sessionId = None
    BY <1>0, <2>2, AsksTaken DEF AskInv
  <2> QED
    BY <2>1, <2>3
<1> DEFINE f == Dispatch("READY", c, 1)
<1>7. f \in Frames /\ down'[c] = Append(down[c], f)
  <2>1. down \in [Conns -> Seq(Frames)] /\ sent' \subseteq Conns \X Frames /\ Forward
    BY DEF TypeOK, ServerTypeOK, ServerMoves
  <2>2. \E g \in Frames : <<c, g>> \in sent' /\ down'[c] = Append(down[c], g)
    BY <1>1, <2>1, Forwarded
  <2> QED
    BY <1>1, <2>2
<1>8. IsDispatch(f) /\ f.n = 1 /\ f.op = "READY" /\ f.sess = c
  BY Kinds DEF Dispatch
<1> HIDE DEF f
<1>9. Known(down'[c], sessionId, c, Len(down'[c]))
  <2>1. /\ Len(down[c]) \in Nat /\ Len(down'[c]) = Len(down[c]) + 1 /\ DOMAIN down'[c] = 1..(Len(down[c]) + 1)
        /\ down'[c][Len(down[c]) + 1] = f
    BY <1>0, <1>7, Appended
  <2>2. Len(down[c]) + 1 \in DOMAIN down'[c] /\ Len(down[c]) + 1 <= Len(down'[c])
    BY <2>1
  <2> QED
    BY <1>8, <2>1, <2>2 DEF Known
<1>10. At(sessionId, lastSeq, c) = 0
  BY <1>0, <1>6 DEF At
<1>11. UpTo(down'[c], 0, 1)
  <2>1. UpTo(down[c], 0, 0)
    BY <1>6 DEF UpTo
  <2>2. UpTo(Append(down[c], f), 0, 0 + 1)
    <3>1. f.n = 0 + 1 /\ 0 \in Nat
      BY <1>8
    <3> QED
      BY <1>0, <1>7, <1>8, <2>1, <3>1, DispatchAppended
  <2> QED
    BY <1>7, <2>2
<1> QED
  BY <1>4, <1>5, <1>9, <1>10, <1>11 DEF Feeds, Reaches

\* A resume takes the stream over where the client is.
LEMMA StreamTaken ==
  ASSUME TypeOK, TypeOK', ServerInv, OneAtATime, CleanInv, ServerMoves,
         NEW c \in Conns, Listening(c), AskInv(c), Reconnect(c), pc[c] = "rc_outbox"
  PROVE  Feeds(c, sess[c])'
<1>0. /\ SessionTypeOK /\ PcTypeOK /\ TaskTypeOK /\ c \in Procs /\ None \notin Conns
      /\ Conns \subseteq Procs /\ ServerTypeOK /\ TaskInv
      /\ down[c] \in Seq(Frames) /\ sent' \subseteq Conns \X Frames /\ Forward
      /\ down \in [Conns -> Seq(Frames)]
  BY ConnsAssumption DEF TypeOK, ServerTypeOK, Procs, ServerInv, ServerMoves
<1>s. PICK s \in Conns, n \in Nat : s = sess[c] /\ n = lastSeq
  BY <1>0 DEF TaskInv, TaskOK, Holding, Resuming, TypeOK, ClientTypeOK
<1>1. s = sessionId /\ last[c] = n /\ Bare(down[c])
  BY <1>s DEF AskInv, Asks, Early
<1>2. /\ pc'[c] = "rc_time" /\ sess' = sess /\ seq' = seq /\ last' = last /\ missed' = missed /\ Silent
  BY <1>0 DEF Reconnect, Goto, PcTypeOK
<1>3. sessionId' = sessionId /\ lastSeq' = lastSeq /\ lastSeq \in Nat
  BY DEF ServerMoves, clientVars, TypeOK, ClientTypeOK
<1>4. down'[c] = down[c]
  BY <1>0, <1>2, Forwarded DEF Silent
<1>5. ASSUME s \notin overlapped PROVE ReachedIs(s, n)'
  <2>1. OneAt(s) /\ ReplayInv(c)
    BY <1>s, <1>5 DEF OneAtATime, CleanInv
  <2>2. \A q \in Procs : q # c => ~(sess'[q] = s /\ pc'[q] \in Front)
    <3>1. TaskStep(c) /\ Working(c, s)
      BY <1>0, <1>s DEF TaskStep, AnyConnNext, Working, InDispatch
    <3> QED
      BY <1>0, <1>1, <2>1, <3>1, FrontAlone
  <2>3. Resent(c)' = Resent(c)
    BY <1>2 DEF Resent
  <2>4. n = IF Resent(c)' > last'[c] THEN Resent(c)' ELSE last'[c]
    <3>1. Resent(c) <= last[c] /\ Len(missed[c]) <= seq[sess[c]]
      BY <2>1 DEF ReplayInv, Replayable
    <3>2. seq[sess[c]] \in Nat /\ Len(missed[c]) \in Nat /\ last[c] \in Nat
      BY <1>0, <1>s DEF SessionTypeOK, TaskTypeOK
    <3>3. Resent(c) \in Nat
      BY <3>1, <3>2 DEF Resent
    <3>4. ~(Resent(c) > last[c])
      BY <3>1, <3>2, <3>3
    <3> QED
      BY <1>1, <1>2, <2>3, <3>4
  <2>5. \A x \in Conns : sess'[x] = s /\ pc'[x] \in Replaying => x = c
    BY <1>0, <2>2 DEF Front
  <2>6. \A q \in Procs : ~(sess'[q] = s /\ pc'[q] \in {"store", "send"})
    BY <1>2, <2>2 DEF Front
  <2>7. c \in Procs /\ sess'[c] = s /\ pc'[c] \in Front
    BY <1>0, <1>s, <1>2 DEF Front, Replaying
  <2> QED
    BY <2>4, <2>5, <2>6, <2>7 DEF ReachedIs
<1>6. Known(down'[c], sessionId, s, Len(down'[c]))
  BY <1>1 DEF Known
<1>7. UpTo(down'[c], At(sessionId, lastSeq, s), n)
  BY <1>s, <1>1, <1>4 DEF UpTo, At
<1>8. overlapped \subseteq overlapped'
  BY DEF ServerMoves, Record
<1>9. Feeds(c, s)'
  BY <1>3, <1>5, <1>6, <1>7, <1>8 DEF Feeds, Reaches
<1>10. sess'[c] = s
  BY <1>s, <1>2
<1> QED
  BY <1>9, <1>10

\* An IDENTIFY is handled when its frame is taken off the queue.
LEMMA WhoIdentifies ==
  ASSUME TypeOK, ServerInv, ServerMoves, NEW c \in Conns, Identify(c)
  PROVE  TakesIdentify(c)
<1>0. PcTypeOK /\ TaskInv /\ Conns \subseteq Procs
  BY DEF TypeOK, ServerTypeOK, ServerInv, Procs
<1>1. pc[c] = "hello" /\ sess[c] = None /\ pc'[c] = "attach"
  BY <1>0 DEF Identify, Goto, PcTypeOK, TaskInv, TaskOK
<1>2. Shakes(c)
  BY <1>1, Stages
<1>3. ~Accept(c) /\ ~Forget(c)
  BY <1>1 DEF Accept, Forget
<1>4. ~TakesResume(c)
  BY <1>0, <1>1 DEF TakesResume, Resume, Goto, PcTypeOK
<1> QED
  BY <1>2, <1>3, <1>4 DEF Shakes

\* The server's side of the stream.
LEMMA WireServed ==
  ASSUME TypeOK, TypeOK', ServerInv, OneAtATime, ReadyInv, CleanInv, ServerMoves,
         NEW c \in Conns, Listening(c), AskInv(c), WireInv(c)
  PROVE  WireInv(c)'
<1>0. /\ ServerTypeOK /\ PcTypeOK /\ TaskTypeOK /\ TaskInv /\ OutboxIsLive /\ Conns \subseteq Procs
      /\ down[c] \in Seq(Frames) /\ sessionId' = sessionId /\ lastSeq' = lastSeq /\ lastSeq \in Nat
      /\ overlapped \subseteq overlapped' /\ None \notin Conns /\ [AnyServerNext]_serverVars
  BY ConnsAssumption, MovesServe
     DEF TypeOK, ServerTypeOK, ServerInv, ServerMoves, clientVars, Record, ClientTypeOK, Procs
<1>1. \/ down'[c] = down[c]
      \/ \E f \in Frames : <<c, f>> \in sent' /\ down'[c] = Append(down[c], f)
  <2>1. down \in [Conns -> Seq(Frames)] /\ sent' \subseteq Conns \X Frames /\ Forward
    BY DEF TypeOK, ServerTypeOK, ServerMoves
  <2> QED
    BY <2>1, Forwarded
\* What a dispatch that reaches c is.
<1>2. ASSUME NEW f \in Frames, <<c, f>> \in sent', IsDispatch(f)
      PROVE  \/ TakesIdentify(c) /\ f.op = "READY" /\ f.sess = c /\ f.n = 1
             \/ /\ f.sess \in Conns /\ outbox[f.sess] = c /\ outbox'[f.sess] = c
                /\ sess[c] = f.sess /\ pc[c] \in Feedable
  <2>1. SendsReady(c, f) \/ SendsMissed(c, f) \/ SendsNew(c, f)
    BY <1>0, <1>2, WhatIsSent DEF Sends, SendsOther, SendsAsk
  <2>2. CASE SendsReady(c, f)
    BY <2>2 DEF SendsReady, Dispatch
  <2>3. CASE SendsMissed(c, f) \/ SendsNew(c, f)
    BY <2>3, SentWhereHeld
  <2> QED
    BY <2>1, <2>2, <2>3
<1>3. TakesIdentify(c) => /\ Bare(down[c]) /\ pc'[c] = "attach" /\ sess'[c] = c
                          /\ sessionId = None
  <2> SUFFICES ASSUME TakesIdentify(c)
               PROVE  Bare(down[c]) /\ pc'[c] = "attach" /\ sess'[c] = c /\ sessionId = None
    OBVIOUS
  <2>1. pc[c] = "hello" /\ pc'[c] = "attach" /\ sess'[c] = c
    BY <1>0 DEF TakesIdentify, Identify, Goto, PcTypeOK, TaskTypeOK
  <2>2. up[c] \in Seq(Asked) /\ up[c] # <<>> /\ Head(up[c]).op = "IDENTIFY"
    BY DEF TakesIdentify, Next1, TypeOK
  <2>3. sessionId = None
    BY <1>0, <2>2, AsksTaken DEF AskInv
  <2> QED
    BY <2>1, <2>3 DEF AskInv, Asks
<1>4. Whose(down[c], sessionId, pc'[c], sess'[c])
  BY WhoseTask DEF WireInv
<1>5. InOrder(down[c], sessionId, lastSeq, overlapped')
  BY <1>0, OrderStays DEF WireInv
\* A dispatch goes to the end of c's queue.
<1>6. ASSUME NEW f \in Frames, <<c, f>> \in sent', IsDispatch(f)
      PROVE  /\ Whose(Append(down[c], f), sessionId, pc'[c], sess'[c])
             /\ InOrder(Append(down[c], f), sessionId, lastSeq, overlapped')
  <2>1. CASE TakesIdentify(c) /\ f.op = "READY" /\ f.sess = c /\ f.n = 1
    <3>1. Whose(Append(down[c], f), sessionId, pc'[c], sess'[c])
      <4>1. \A j \in DOMAIN down[c] : IsDispatch(down[c][j]) => down[c][j].sess = f.sess
        BY <1>3, <2>1 DEF Bare
      <4> QED
        BY <1>0, <1>3, <1>4, <1>6, <2>1, <4>1, DispatchAppended
    <3>2. UpTo(down[c], At(sessionId, lastSeq, f.sess), 0)
      BY <1>0, <1>3, <2>1 DEF UpTo, At
    <3>3. 0 \in Nat /\ f.n = 0 + 1
      BY <2>1
    <3>4. InOrder(Append(down[c], f), sessionId, lastSeq, overlapped')
      BY <1>0, <1>5, <1>6, <3>2, <3>3, DispatchAppended
    <3> QED
      BY <3>1, <3>4
  <2>2. CASE /\ f.sess \in Conns /\ outbox[f.sess] = c /\ outbox'[f.sess] = c
             /\ sess[c] = f.sess /\ pc[c] \in Feedable
    <3>1. Feeds(c, f.sess)
      BY <2>2 DEF WireInv
    <3>2. Whose(Append(down[c], f), sessionId, pc'[c], sess'[c])
      <4>1. pc'[c] # "closed" => sess'[c] = sess[c]
        <5>1. ~Shakes(c)
          BY <2>2 DEF Shakes, Accept, Forget, TakesIdentify, TakesResume, Identify, Resume, Feedable
        <5>2. pc[c] # "off"
          BY <2>2 DEF Feedable
        <5> QED
          BY <5>1, <5>2, Stages
      <4>2. \A j \in DOMAIN down[c] : IsDispatch(down[c][j]) => down[c][j].sess = f.sess
        <5>1. pc[c] # "closed"
          BY <2>2 DEF Feedable
        <5> QED
          BY <2>2, <5>1 DEF WireInv, Whose
      <4>3. Known(down[c], sessionId, f.sess, Len(down[c]))
        BY <3>1 DEF Feeds
      <4> QED
        BY <1>0, <1>4, <1>6, <2>2, <4>1, <4>2, <4>3, DispatchAppended
    <3>3. f.sess \notin overlapped' =>
            \E n \in Nat : UpTo(down[c], At(sessionId, lastSeq, f.sess), n) /\ f.n = n + 1
      <4> SUFFICES ASSUME f.sess \notin overlapped'
                   PROVE  \E n \in Nat : UpTo(down[c], At(sessionId, lastSeq, f.sess), n) /\ f.n = n + 1
        OBVIOUS
      <4>1. f.sess \in Conns \ overlapped /\ Reaches(c, f.sess)
        BY <1>0, <2>2, <3>1 DEF Feeds
      <4> QED
        BY <1>6, <2>2, <4>1, StreamMoves
    <3>4. InOrder(Append(down[c], f), sessionId, lastSeq, overlapped')
      BY <1>0, <1>5, <1>6, <3>3, DispatchAppended
    <3> QED
      BY <3>2, <3>4
  <2> QED
    BY <1>2, <1>6, <2>1, <2>2
<1>7. /\ Whose(down'[c], sessionId, pc'[c], sess'[c])
      /\ InOrder(down'[c], sessionId, lastSeq, overlapped')
  <2>1. ASSUME NEW f \in Frames, ~IsDispatch(f)
        PROVE  /\ Whose(Append(down[c], f), sessionId, pc'[c], sess'[c])
               /\ InOrder(Append(down[c], f), sessionId, lastSeq, overlapped')
    BY <1>0, <1>4, <1>5, <2>1, OtherAppended
  <2> QED
    BY <1>1, <1>4, <1>5, <1>6, <2>1
\* The session that feeds c.
<1>8. ASSUME NEW s \in Conns, outbox'[s] = c PROVE Feeds(c, s)'
  <2>1. CASE outbox[s] = c
    <3>1. Feeds(c, s)
      BY <2>1 DEF WireInv
    <3>2. Known(down'[c], sessionId, s, Len(down'[c]))
      <4>1. ASSUME NEW f \in Frames PROVE Known(Append(down[c], f), sessionId, s, Len(Append(down[c], f)))
        <5>1. Len(down[c]) \in Nat /\ Len(Append(down[c], f)) = Len(down[c]) + 1
          BY <1>0, <4>1, Appended
        <5>2. Len(Append(down[c], f)) \in Nat /\ Len(down[c]) <= Len(Append(down[c], f))
          BY <5>1
        <5> QED
          BY <1>0, <3>1, <5>1, <5>2, KnownAppended DEF Feeds
      <4> QED
        BY <1>1, <3>1, <4>1 DEF Feeds
    <3>3. s \notin overlapped' => Reaches(c, s)'
      BY <1>0, <1>8, <2>1, <3>1, StreamMoves DEF Feeds
    <3> QED
      BY <1>0, <3>2, <3>3 DEF Feeds
  <2>2. CASE Identify(s) /\ outbox'[s] = s
    BY <1>8, <2>2, WhoIdentifies, StreamStarts
  <2>3. ASSUME NEW x \in Conns, Reconnect(x), pc[x] = "rc_outbox", sess[x] = s, outbox'[s] = x
        PROVE  Feeds(c, s)'
    <3>1. x = c
      BY <1>8, <2>3
    <3>2. Feeds(c, sess[c])'
      BY <2>3, <3>1, StreamTaken
    <3>3. sess'[c] = s
      BY <2>3, <3>1 DEF Reconnect
    <3> QED
      BY <3>2, <3>3
  <2> QED
    BY <1>0, <1>8, <2>1, <2>2, <2>3, OutboxOf
<1> QED
  BY <1>0, <1>7, <1>8 DEF WireInv

\* What a ring holds, and what a resume copies from it.
LEMMA ReadyStep ==
  ASSUME ServerTypeOK, ServerInv, ReadyInv, [AnyServerNext]_serverVars
  PROVE  ReadyInv'
<1>0. /\ SessionTypeOK /\ PcTypeOK /\ TaskTypeOK /\ Conns \subseteq Procs
      /\ TaskInv /\ BufferBounded
  BY DEF ServerTypeOK, Procs, ServerInv
<1>1. ASSUME NEW s \in Conns, NEW i \in DOMAIN buffer'[s] PROVE FirstIsReady(buffer'[s][i])
  <2>1. CASE UNCHANGED <<seq, buffer, evicted_through>>
    BY <1>1, <2>1 DEF ReadyInv
  <2>2. ASSUME NEW c \in Conns, Identify(c) PROVE FirstIsReady(buffer'[s][i])
    <3>1. CASE c = s
      <4>1. buffer'[s] = <<Dispatch("READY", s, 1)>>
        BY <1>0, <2>2, <3>1 DEF Identify, SessionTypeOK
      <4>2. i = 1
        BY <1>1, <4>1
      <4> QED
        BY <4>1, <4>2 DEF FirstIsReady, Dispatch, IsDispatch, DispatchOps
    <3>2. CASE c # s
      BY <1>0, <1>1, <2>2, <3>2 DEF Identify, SessionTypeOK, ReadyInv
    <3> QED
      BY <3>1, <3>2
  <2>3. ASSUME NEW p \in Procs, DispatchNumber(p) PROVE FirstIsReady(buffer'[s][i])
    BY <1>1, <2>3 DEF DispatchNumber, ReadyInv
  <2>4. ASSUME NEW p \in Procs, DispatchStore(p) PROVE FirstIsReady(buffer'[s][i])
    <3>1. PICK f \in Frames :
            /\ f.op = EventOf(p)
            /\ buffer'[s] = IF s = sess[p] THEN Push(buffer[s], f) ELSE buffer[s]
      BY <1>0, <2>4, StoreStep
    <3>a. FirstIsReady(f)
      BY <3>1 DEF FirstIsReady, IsDispatch, EventOf, DispatchOps
    <3>2. CASE s # sess[p]
      BY <1>1, <3>1, <3>2 DEF ReadyInv
    <3>3. CASE s = sess[p]
      <4>1. buffer[s] \in Seq(Frames) /\ Len(buffer[s]) <= BufferCapacity
        BY <1>0 DEF SessionTypeOK, BufferBounded
      <4>2. PICK k \in {0, 1} :
              /\ Len(Push(buffer[s], f)) = Len(buffer[s]) + 1 - k
              /\ k <= Len(buffer[s])
              /\ \A j \in 1..(Len(buffer[s]) - k) : Push(buffer[s], f)[j] = buffer[s][j + k]
              /\ Push(buffer[s], f)[Len(buffer[s]) + 1 - k] = f
        BY <4>1, PushElements
      <4>3. i \in 1..(Len(buffer[s]) + 1 - k) /\ Len(buffer[s]) \in Nat
        <5>1. 0 \in Nat
          OBVIOUS
        <5>2. Push(buffer[s], f) \in Seq(Frames)
          BY <4>1, <5>1, PushType
        <5>3. i \in DOMAIN Push(buffer[s], f)
          BY <1>1, <3>1, <3>3
        <5>4. i \in 1..Len(Push(buffer[s], f))
          BY <5>2, <5>3
        <5> QED
          BY <4>1, <4>2, <5>4
      <4>4. CASE i = Len(buffer[s]) + 1 - k
        BY <3>1, <3>a, <3>3, <4>2, <4>4
      <4>5. CASE i # Len(buffer[s]) + 1 - k
        <5>1. i \in 1..(Len(buffer[s]) - k) /\ i + k \in DOMAIN buffer[s]
          BY <4>1, <4>2, <4>3, <4>5
        <5> QED
          BY <3>1, <3>3, <4>2, <5>1 DEF ReadyInv
      <4> QED
        BY <4>4, <4>5
    <3> QED
      BY <3>2, <3>3
  <2> QED
    BY <2>1, <2>2, <2>3, <2>4, BufferWriters
<1>2. ASSUME NEW c \in Conns, NEW i \in DOMAIN missed'[c] PROVE FirstIsReady(missed'[c][i])
  <2>1. CASE missed'[c] = missed[c]
    BY <1>2, <2>1 DEF ReadyInv
  <2>2. ASSUME NEW p \in Procs, TaskStep(p), missed'[c] # missed[c] PROVE FirstIsReady(missed'[c][i])
    <3>0. p = c
      BY <1>0, <2>2, Local
    <3>1. ReplayCollect(c) \/ Replay(c)
      BY <2>2, <3>0, Disjoint DEF TaskStep, AnyConnNext, DispatchNext, Accept, Identify, Attach, Resume,
         ReplayCheck, Forget, Reconnect, DispatchNumber, DispatchStore, DispatchSend,
         Heartbeat, EndLoop, Disconnect, Drain, task
    <3>2. CASE ReplayCollect(c)
      <4>1. sess[c] \in Conns
        BY <1>0, <3>2, ResumeHolds DEF ReplayCollect, Resuming
      <4>2. missed'[c] = buffer[sess[c]]
        BY <1>0, <3>2 DEF ReplayCollect, TaskTypeOK
      <4> QED
        BY <1>2, <4>1, <4>2 DEF ReadyInv
    <3>3. CASE Replay(c)
      <4>1. missed[c] # <<>> /\ missed'[c] = Tail(missed[c])
        BY <1>0, <2>2, <3>3 DEF Replay, TaskTypeOK
      <4>2. missed[c] \in Seq(Frames)
        BY <1>0 DEF TaskTypeOK
      <4>3. i + 1 \in DOMAIN missed[c] /\ Tail(missed[c])[i] = missed[c][i + 1]
        BY <1>2, <4>1, <4>2
      <4> QED
        BY <4>1, <4>3 DEF ReadyInv
    <3> QED
      BY <3>1, <3>2, <3>3
  <2>3. CASE UNCHANGED <<task, arrival>>
    BY <2>1, <2>3 DEF task
  <2>4. CASE Restart
    BY <1>2, <2>4 DEF Restart
  <2> QED
    BY <2>1, <2>2, <2>3, <2>4, StepOfWhom
<1> QED
  BY <1>1, <1>2 DEF ReadyInv

\* The first frame of a session is the one that starts it, on the wire too.
LEMMA QueuedServed ==
  ASSUME TypeOK, TypeOK', ServerInv, ReadyInv, ServerMoves, QueuedReady
  PROVE  QueuedReady'
<1>0. ServerTypeOK /\ TaskInv /\ OutboxIsLive
  BY DEF TypeOK, ServerInv
<1>1. ASSUME NEW c \in Conns, NEW i \in DOMAIN down'[c], down'[c][i].op = "READY" PROVE down'[c][i].n = 1
  <2>0. down[c] \in Seq(Frames)
    BY DEF TypeOK
  <2>1. down'[c] = down[c] \/ \E f \in Frames : <<c, f>> \in sent' /\ down'[c] = Append(down[c], f)
    <3>1. down \in [Conns -> Seq(Frames)] /\ sent' \subseteq Conns \X Frames /\ Forward
      BY DEF TypeOK, ServerTypeOK, ServerMoves
    <3> QED
      BY <3>1, Forwarded
  <2>2. CASE down'[c] = down[c]
    BY <1>1, <2>2 DEF QueuedReady
  <2>3. ASSUME NEW f \in Frames, <<c, f>> \in sent', down'[c] = Append(down[c], f) PROVE down'[c][i].n = 1
    <3>1. \/ i \in DOMAIN down[c] /\ down'[c][i] = down[c][i]
          \/ down'[c][i] = f
      <4>1. /\ DOMAIN down[c] = 1..Len(down[c]) /\ DOMAIN Append(down[c], f) = 1..(Len(down[c]) + 1)
            /\ Len(down[c]) \in Nat
            /\ \A j \in 1..Len(down[c]) : Append(down[c], f)[j] = down[c][j]
            /\ Append(down[c], f)[Len(down[c]) + 1] = f
        BY <2>0, Appended
      <4> QED
        BY <1>1, <2>3, <4>1
    <3>2. ASSUME f.op = "READY" PROVE f.n = 1
      <4>1. Sends(c, f)
        BY <1>0, <2>3, WhatIsSent
      <4>2. IsDispatch(f) /\ ~IsAsk(f)
        BY <3>2 DEF IsDispatch, IsAsk, DispatchOps
      <4>3. SendsReady(c, f) \/ SendsMissed(c, f) \/ SendsNew(c, f)
        BY <4>1, <4>2 DEF Sends, SendsOther, SendsAsk
      <4>4. CASE SendsReady(c, f)
        BY <4>4 DEF SendsReady, Dispatch
      <4>5. CASE SendsMissed(c, f) \/ SendsNew(c, f)
        BY <3>2, <4>5, SentWhereHeld
      <4> QED
        BY <4>3, <4>4, <4>5
    <3> QED
      BY <1>1, <3>1, <3>2 DEF QueuedReady
  <2> QED
    BY <2>1, <2>2, <2>3
<1> QED
  BY <1>1 DEF QueuedReady

\* Who has not been opened does not move.
LEMMA UnopenedServed ==
  ASSUME TypeOK, TypeOK', ServerInv, ServerMoves, UnopenedInv
  PROVE  UnopenedInv'
<1>0. UNCHANGED <<socket, opened>>
  BY DEF ServerMoves, clientVars
<1>1. ASSUME NEW c \in Conns \ opened PROVE pc'[c] = "off" /\ up'[c] = <<>> /\ down'[c] = <<>>
  <2>0. /\ pc[c] = "off" /\ up[c] = <<>> /\ down[c] = <<>>
        /\ c \in Procs /\ Conns \subseteq Procs /\ Publishers \subseteq Procs /\ c \notin Publishers
        /\ ServerTypeOK /\ PcTypeOK /\ None \notin Conns
    BY <1>1, ConnsAssumption, Disjoint DEF UnopenedInv, TypeOK, ServerTypeOK, Procs
  <2>1. down'[c] = <<>>
    <3>1. down \in [Conns -> Seq(Frames)] /\ sent' \subseteq Conns \X Frames /\ Forward
      BY DEF TypeOK, ServerTypeOK, ServerMoves
    <3>2. ~Listening(c)
      BY <1>1, <2>0 DEF Listening, UnopenedInv
    <3> QED
      BY <2>0, <3>1, <3>2, Forwarded
  <2>2. up'[c] = <<>>
    BY <2>0, UpTaken
  <2>3. ASSUME NEW p \in Procs, TaskStep(p), p # c PROVE pc'[c] = "off"
    BY <2>0, <2>3, Local
  <2>4. ASSUME NEW d \in Conns, TakesIdentify(d) \/ TakesResume(d) \/ TakesOther(d) \/ Alone(d)
        PROVE  pc'[c] = "off"
    <3>1. CASE d # c
      <4>1. TaskStep(d) /\ d \in Procs
        BY <2>0, <2>4, TakesServe DEF TaskStep
      <4> QED
        BY <2>3, <3>1, <4>1
    <3>2. CASE d = c
      <4>1. Alone(c)
        BY <2>0, <2>4, <3>2 DEF TakesIdentify, TakesResume, TakesOther, Next1
      <4>2. ~(c \in opened /\ Accept(c))
        BY <1>1
      <4> QED
        BY <2>0, <4>1, <4>2 DEF Alone, Attach, ReplayCheck, ReplayCollect, Forget, Reconnect, Replay,
           EndLoop, Disconnect, Drain
    <3> QED
      BY <3>1, <3>2
  <2>5. ASSUME NEW p \in Procs, DispatchNext(p) PROVE pc'[c] = "off"
    <3>1. p # c
      BY <2>0, <2>5 DEF DispatchNext, DispatchNumber, DispatchStore, DispatchSend
    <3> QED
      BY <2>3, <2>5, <3>1 DEF TaskStep
  <2>6. ASSUME NEW p \in Publishers, NEW u \in Users, Publish(p, u) PROVE pc'[c] = "off"
    BY <2>0, <2>3, <2>6 DEF TaskStep
  <2>7. ASSUME (\E s \in Conns : Age(s)) \/ Sweep \/ BroadcastReconnect PROVE pc'[c] = "off"
    BY <2>0, <2>7 DEF Age, Sweep, BroadcastReconnect, task
  <2>8. ASSUME Restart PROVE pc'[c] = "off"
    <3>1. pc'[c] = IF c \in Publishers THEN "idle" ELSE IF pc[c] = "off" THEN "off" ELSE "closed"
      BY <2>0, <2>8 DEF Restart
    <3> QED
      BY <2>0, <3>1
  <2>9. pc'[c] = "off"
    BY <2>4, <2>5, <2>6, <2>7, <2>8 DEF ServerMoves, TakesNothing
  <2> QED
    BY <2>1, <2>2, <2>9
<1> QED
  BY <1>0, <1>1 DEF UnopenedInv

\* Record sees every overlap.
LEMMA OverlapsSeen ==
  ASSUME ServerMoves
  PROVE  OneAtATime' /\ overlapped \subseteq overlapped'
<1>1. overlapped' = overlapped \cup
        {s \in Conns : \E p, q \in Procs :
           p # q /\ sess'[p] = s /\ sess'[q] = s /\ pc'[p] \in InDispatch /\ pc'[q] \in InDispatch}
  BY DEF ServerMoves, Record
<1>2. ASSUME NEW s \in Conns \ overlapped', NEW p \in Procs, NEW q \in Procs, Working(p, s)', Working(q, s)'
      PROVE  p = q
  BY <1>1, <1>2 DEF Working
<1> QED
  BY <1>1, <1>2 DEF OneAtATime, OneAt

\* The rings and the resumes of the sessions without overlaps.
LEMMA CleanServed ==
  ASSUME TypeOK, ServerInv, OneAtATime, CleanInv, ServerMoves
  PROVE  CleanInv'
<1>0. ServerTypeOK /\ [AnyServerNext]_serverVars /\ overlapped \subseteq overlapped'
  BY MovesServe, OverlapsSeen DEF TypeOK
<1>1. ASSUME NEW s \in Conns \ overlapped', InUse(s)' PROVE LedgerInv(s)'
  <2>1. OneAt(s) /\ (InUse(s) => LedgerInv(s))
    BY <1>0, <1>1 DEF OneAtATime, CleanInv
  <2> QED
    BY <1>0, <1>1, <2>1, LedgerStep
<1>2. ASSUME NEW c \in Conns, NEW s \in Conns \ overlapped', sess'[c] = s PROVE ReplayInv(c)'
  <2>1. OneAt(s) /\ (LedgerInv(s) \/ ~InUse(s)) /\ (sess[c] = s => ReplayInv(c))
    BY <1>0, <1>2 DEF OneAtATime, CleanInv
  <2> QED
    BY <1>0, <1>2, <2>1, ReplayStep
<1> QED
  BY <1>1, <1>2 DEF CleanInv

\* The server's steps keep the stream.
LEMMA StreamServed ==
  ASSUME TypeOK, TypeOK', ServerInv, StreamInv, ServerMoves
  PROVE  StreamInv'
<1>0. /\ OneAtATime /\ ReadyInv /\ CleanInv /\ QueuedReady /\ UnopenedInv /\ ReaderInv /\ AppliedInv
      /\ ServerTypeOK /\ [AnyServerNext]_serverVars
      /\ UNCHANGED <<socket, sessionId, lastSeq, link, applied>>
  BY MovesServe DEF StreamInv, TypeOK, ServerMoves, clientVars
<1>1. OneAtATime' /\ overlapped \subseteq overlapped'
  BY OverlapsSeen
<1>2. ReadyInv'
  BY <1>0, ReadyStep
<1>3. CleanInv'
  BY <1>0, CleanServed
<1>4. QueuedReady'
  BY <1>0, QueuedServed
<1>5. UnopenedInv'
  BY <1>0, UnopenedServed
<1>6. ASSUME NEW c \in Conns, Listening(c)' PROVE AskInv(c)' /\ WireInv(c)'
  <2>1. Listening(c)
    BY <1>0, <1>6 DEF Listening
  <2>2. AskInv(c) /\ WireInv(c)
    BY <1>0, <2>1 DEF ReaderInv
  <2> QED
    BY <1>0, <2>1, <2>2, AskServed, WireServed
<1>7. AppliedInv'
  BY <1>0, <1>1 DEF AppliedInv
<1> QED
  BY <1>1, <1>2, <1>3, <1>4, <1>5, <1>6, <1>7 DEF StreamInv, ReaderInv

(***************************************************************************)
(* The client's steps, and the links.                                      *)
(***************************************************************************)
\* What the server holds stays what it is while the client moves.
LEMMA ServerRests ==
  ASSUME UNCHANGED serverVars, overlapped' = overlapped
  PROVE  /\ OneAtATime => OneAtATime'
         /\ ReadyInv => ReadyInv'
         /\ CleanInv => CleanInv'
         /\ \A s, n : ReachedIs(s, n)' <=> ReachedIs(s, n)
         /\ UNCHANGED <<pc, sess, last, outbox>>
<1>1. /\ UNCHANGED <<sessions, seq, buffer, evicted_through, outbox>>
      /\ UNCHANGED <<pc, sess, num, todo, last, missed>>
  BY DEF serverVars
<1>2. \A c : Resent(c)' = Resent(c)
  BY <1>1 DEF Resent
<1>3. OneAtATime => OneAtATime'
  BY <1>1 DEF OneAtATime, OneAt, Working
<1>4. ReadyInv => ReadyInv'
  BY <1>1 DEF ReadyInv
<1>5. \A s : (InUse(s)' <=> InUse(s)) /\ (Pending(s)' <=> Pending(s))
  BY <1>1 DEF InUse, Pending
<1>6. \A s : LedgerInv(s) => LedgerInv(s)'
  BY <1>1, <1>5 DEF LedgerInv
<1>7. \A c : ReplayInv(c) => ReplayInv(c)'
  BY <1>1, <1>2 DEF ReplayInv
<1>8. CleanInv => CleanInv'
  BY <1>1, <1>5, <1>6, <1>7 DEF CleanInv
<1>9. \A s, n : ReachedIs(s, n)' <=> ReachedIs(s, n)
  BY <1>1, <1>2 DEF ReachedIs
<1> QED
  BY <1>1, <1>3, <1>4, <1>8, <1>9

\* The reader of c, given what the step made of its wire and of its position.
LEMMA ReaderRests ==
  ASSUME UNCHANGED serverVars, overlapped' = overlapped, NEW c \in Conns, AskInv(c), WireInv(c), TypeOK,
         down'[c] = down[c], UNCHANGED <<sessionId, lastSeq>>,
         up'[c] = up[c] \/ \E f \in Asked : ~IsAnswer(f) /\ up'[c] = Append(up[c], f)
  PROVE  AskInv(c)' /\ WireInv(c)'
<1>1. /\ UNCHANGED <<pc, sess, last, outbox>>
      /\ \A s, n : ReachedIs(s, n)' <=> ReachedIs(s, n)
  BY ServerRests
<1>2. AskInv(c)'
  <2>1. Asks(down[c], up'[c], pc[c], sess[c], last[c], sessionId, lastSeq)
    BY AsksBeat DEF AskInv, TypeOK
  <2> QED
    BY <1>1, <2>1 DEF AskInv
<1>3. ASSUME NEW s \in Conns, outbox'[s] = c PROVE Feeds(c, s)'
  <2>1. Feeds(c, s)
    BY <1>1, <1>3 DEF WireInv
  <2> QED
    BY <1>1, <2>1 DEF Feeds, Reaches
<1>4. Whose(down[c], sessionId, pc[c], sess[c])' /\ InOrder(down[c], sessionId, lastSeq, overlapped)'
  BY <1>1 DEF WireInv
<1> QED
  BY <1>2, <1>3, <1>4 DEF WireInv

\* Nobody reads on a socket that has just been opened.
LEMMA ReaderOpens ==
  ASSUME TypeOK, ServerInv, UnopenedInv, UNCHANGED serverVars, NEW c \in Conns \ opened,
         down'[c] = down[c], up'[c] = up[c]
  PROVE  AskInv(c)' /\ WireInv(c)'
<1>1. pc'[c] = "off" /\ up'[c] = <<>> /\ down'[c] = <<>> /\ outbox' = outbox
  BY DEF UnopenedInv, serverVars
<1>2. \A s \in Conns : outbox'[s] # c
  <2>1. ASSUME NEW s \in Conns, outbox[s] = c PROVE FALSE
    BY <1>1, <2>1, ConnsAssumption DEF ServerInv, OutboxIsLive, Feedable, UnopenedInv
  <2> QED
    BY <1>1, <2>1
<1>3. AskInv(c)'
  <2>1. OneQuestion(<<>>, <<>>)
    BY DEF OneQuestion, Asking, Answering
  <2>2. ~Asking(<<>>) /\ ~Answering(<<>>) /\ Bare(<<>>)
    BY NoneQueued
  <2> QED
    BY <1>1, <2>1, <2>2 DEF AskInv, Asks, Early
<1>4. Whose(<<>>, sessionId', pc'[c], sess'[c]) /\ InOrder(<<>>, sessionId', lastSeq', overlapped')
  BY DEF Whose, InOrder
<1> QED
  BY <1>1, <1>2, <1>3, <1>4 DEF WireInv

\* A step of the client that reads no frame: it sends at most a heartbeat, forgets the
\* session or keeps it, and lets go of sockets or opens a new one.
LEMMA StreamRests ==
  ASSUME TypeOK, ServerInv, StreamInv, UNCHANGED serverVars, overlapped' = overlapped,
         applied' = applied, sessionId' = None \/ UNCHANGED <<sessionId, lastSeq>>,
         \A c \in Conns : down'[c] \in {down[c], <<>>},
         opened \subseteq opened', socket' \in opened' \cup {None},
         \A c \in Conns \ opened' : up'[c] \in {up[c], <<>>},
         \A c \in Conns : Listening(c)' =>
           \/ c \notin opened /\ down'[c] = down[c] /\ up'[c] = up[c]
           \/ /\ Listening(c) /\ down'[c] = down[c] /\ UNCHANGED <<sessionId, lastSeq>>
              /\ up'[c] = up[c] \/ \E f \in Asked : ~IsAnswer(f) /\ up'[c] = Append(up[c], f)
  PROVE  StreamInv'
<1>0. OneAtATime /\ ReadyInv /\ CleanInv /\ QueuedReady /\ UnopenedInv /\ ReaderInv /\ AppliedInv
  BY DEF StreamInv
<1>1. OneAtATime' /\ ReadyInv' /\ CleanInv' /\ pc' = pc
  BY <1>0, ServerRests
<1>2. QueuedReady'
  <2>1. ASSUME NEW c \in Conns, NEW i \in DOMAIN down'[c], down'[c][i].op = "READY" PROVE down'[c][i].n = 1
    <3>1. DOMAIN <<>> = {}
      OBVIOUS
    <3>2. down'[c] = down[c]
      BY <2>1, <3>1
    <3> QED
      BY <1>0, <2>1, <3>2 DEF QueuedReady
  <2> QED
    BY <2>1 DEF QueuedReady
<1>3. UnopenedInv'
  BY <1>0, <1>1 DEF UnopenedInv
<1>4. ASSUME NEW c \in Conns, Listening(c)' PROVE AskInv(c)' /\ WireInv(c)'
  <2>1. CASE c \notin opened /\ down'[c] = down[c] /\ up'[c] = up[c]
    BY <1>0, <2>1, ReaderOpens
  <2>2. CASE /\ Listening(c) /\ down'[c] = down[c] /\ UNCHANGED <<sessionId, lastSeq>>
             /\ up'[c] = up[c] \/ \E f \in Asked : ~IsAnswer(f) /\ up'[c] = Append(up[c], f)
    <3>1. AskInv(c) /\ WireInv(c)
      BY <1>0, <2>2 DEF ReaderInv
    <3> QED
      BY <2>2, <3>1, ReaderRests
  <2> QED
    BY <1>4, <2>1, <2>2
<1>5. AppliedInv'
  BY <1>0 DEF AppliedInv
<1> QED
  BY <1>1, <1>2, <1>3, <1>4, <1>5 DEF StreamInv, ReaderInv

\* What the client says goes to the end of the queue of its socket.
LEMMA UplinkOf ==
  ASSUME TypeOK, ClientTypeOK', Uplink, NEW c \in Conns
  PROVE  /\ up'[c] = up[c] \/ (said' # Nothing /\ said' \in Asked /\ up'[c] = Append(up[c], said'))
         /\ c # socket => up'[c] = up[c]
<1>1. said' \in Asked \cup {Nothing} /\ up \in [Conns -> Seq(Asked)]
  BY DEF TypeOK, ClientTypeOK
<1>2. CASE said' = Nothing \/ link[socket] # "up"
  BY <1>2 DEF Uplink
<1>3. CASE ~(said' = Nothing \/ link[socket] # "up")
  <2>1. up' = [up EXCEPT ![socket] = Append(@, said')]
    BY <1>3 DEF Uplink
  <2> QED
    BY <1>1, <1>3, <2>1
<1> QED
  BY <1>2, <1>3

\* StreamInv and the steps of the client and the network that read no frame.
LEMMA StreamKept ==
  ASSUME TypeOK, TypeOK', ServerInv, StreamInv, OtherMoves, ~DeliverFrame
  PROVE  StreamInv'
<1>0. /\ UNCHANGED serverVars /\ overlapped' = overlapped
      /\ ClientTypeOK /\ ClientTypeOK' /\ None = Nothing /\ Sockets = Conns /\ None \notin Conns
      /\ UnopenedInv
      /\ down \in [Conns -> Seq(Frames)] /\ up \in [Conns -> Seq(Asked)]
  BY GatewayAssumption, ConnsAssumption DEF OtherMoves, TypeOK, StreamInv
<1>1. ASSUME ClientSide((Start \/ Retry) /\ UNCHANGED <<up, applied>>) PROVE StreamInv'
  <2>1. /\ Open /\ UNCHANGED <<up, applied, down, link>> /\ UNCHANGED <<sessionId, lastSeq>>
    BY <1>1 DEF ClientSide, Start, Retry
  <2>2. UNCHANGED <<socket, opened>> \/ \E c \in Conns \ opened : socket' = c /\ opened' = opened \cup {c}
    BY <1>0, <2>1 DEF Open
  <2>3. opened \subseteq opened' /\ socket' \in opened' \cup {None}
    BY <1>0, <2>2 DEF UnopenedInv
  <2>4. \A c \in Conns : Listening(c)' => c \notin opened \/ Listening(c)
    BY <2>1, <2>2 DEF Listening
  <2> QED
    BY <1>0, <2>1, <2>3, <2>4, StreamRests
<1>2. ASSUME ClientSide(Stop /\ UNCHANGED <<up, applied>>) PROVE StreamInv'
  <2>1. UNCHANGED <<up, applied, down, link, opened>> /\ sessionId' = None /\ socket' = None
    BY <1>0, <1>2 DEF ClientSide, Stop
  <2>2. \A c \in Conns : ~Listening(c)'
    BY <1>0, <2>1 DEF Listening
  <2> QED
    BY <1>0, <2>1, <2>2, StreamRests
<1>3. ASSUME ClientSide(Beat /\ Uplink /\ UNCHANGED applied) PROVE StreamInv'
  <2>1. UNCHANGED <<applied, down, link, opened, socket, sessionId, lastSeq>> /\ Uplink /\ Beat
    BY <1>3 DEF ClientSide, Beat
  <2>2. said' # Nothing => ~IsAnswer(said')
    <3>1. said' = Nothing \/ said' = Ask("HEARTBEAT", Nothing, 0)
      BY <2>1 DEF Beat
    <3>2. Ask("HEARTBEAT", Nothing, 0).op = "HEARTBEAT"
      BY DEF Ask
    <3> QED
      BY <3>1, <3>2 DEF IsAnswer
  <2>3. ASSUME NEW c \in Conns
        PROVE  up'[c] = up[c] \/ \E f \in Asked : ~IsAnswer(f) /\ up'[c] = Append(up[c], f)
    BY <1>0, <2>1, <2>2, UplinkOf
  <2>4. \A c \in Conns \ opened' : up'[c] = up[c]
    BY <1>0, <2>1, UplinkOf DEF UnopenedInv
  <2>5. socket' \in opened' \cup {None}
    BY <1>0, <2>1 DEF UnopenedInv
  <2>6. \A c \in Conns : Listening(c)' => Listening(c)
    BY <2>1 DEF Listening
  <2> QED
    BY <1>0, <2>1, <2>3, <2>4, <2>5, <2>6, StreamRests
<1>4. ASSUME \/ ClientSide(TokenExpires /\ UNCHANGED <<up, applied>>)
             \/ ClientSide(TokenRenewed /\ UNCHANGED <<up, applied>>)
      PROVE  StreamInv'
  <2>1. UNCHANGED <<up, applied, down, link, opened, socket, sessionId, lastSeq>>
    BY <1>4 DEF ClientSide, TokenExpires, TokenRenewed
  <2>2. socket' \in opened' \cup {None}
    BY <1>0, <2>1 DEF UnopenedInv
  <2>3. \A c \in Conns : Listening(c)' => Listening(c)
    BY <2>1 DEF Listening
  <2> QED
    BY <1>0, <2>1, <2>2, <2>3, StreamRests
<1>5. ASSUME DeliverClose PROVE StreamInv'
  <2>1. /\ UNCHANGED <<up, applied, link>> /\ down' = [down EXCEPT ![socket] = <<>>]
        /\ \E code : HandleClose(code)
    BY <1>5 DEF DeliverClose
  <2>2. /\ socket' = None /\ opened' = opened
        /\ sessionId' = None \/ UNCHANGED <<sessionId, lastSeq>>
    BY <1>0, <2>1 DEF HandleClose
  <2>3. \A c \in Conns : ~Listening(c)'
    BY <1>0, <2>2 DEF Listening
  <2>4. \A c \in Conns : down'[c] \in {down[c], <<>>}
    BY <1>0, <2>1
  <2> QED
    BY <1>0, <2>1, <2>2, <2>3, <2>4, StreamRests
<1>6. ASSUME NEW d \in Conns, LinkDies(d) PROVE StreamInv'
  <2>1. /\ link' = [link EXCEPT ![d] = "dead"]
        /\ down' = [down EXCEPT ![d] = <<>>] /\ up' = [up EXCEPT ![d] = <<>>]
        /\ UNCHANGED <<applied, opened, socket, sessionId, lastSeq>>
    BY <1>6 DEF LinkDies, clientVars, histVars
  <2>2. \A c \in Conns : /\ down'[c] \in {down[c], <<>>} /\ up'[c] \in {up[c], <<>>}
                         /\ c # d => down'[c] = down[c] /\ up'[c] = up[c]
    BY <1>0, <2>1
  <2>3. \A c \in Conns : Listening(c)' => c # d /\ Listening(c)
    BY <2>1 DEF Listening, TypeOK
  <2>4. socket' \in opened' \cup {None}
    BY <1>0, <2>1 DEF UnopenedInv
  <2> QED
    BY <1>0, <2>1, <2>2, <2>3, <2>4, StreamRests
<1> QED
  BY <1>1, <1>2, <1>3, <1>4, <1>5, <1>6 DEF OtherMoves, ClientStep

\* The client reads a frame.
LEMMA FrameRead ==
  ASSUME TypeOK, TypeOK', DeliverFrame
  PROVE  /\ UNCHANGED serverVars /\ overlapped' = overlapped /\ link' = link
         /\ socket \in Conns /\ Listening(socket) /\ down[socket] # <<>>
         /\ UNCHANGED <<socket, opened>>
         /\ down[socket] \in Seq(Frames) /\ up[socket] \in Seq(Asked)
         /\ Head(down[socket]) \in Frames /\ HandleFrame(Head(down[socket]))
         /\ Head(down[socket]).op # "CLOSE"
         /\ down'[socket] = Tail(down[socket])
         /\ up'[socket] = up[socket] \/ (said' # Nothing /\ said' \in Asked /\ up'[socket] = Append(up[socket], said'))
         /\ \A c \in Conns : c # socket => down'[c] = down[c] /\ up'[c] = up[c]
<1>1. /\ ClientTypeOK /\ ClientTypeOK' /\ None = Nothing /\ Sockets = Conns
      /\ down \in [Conns -> Seq(Frames)] /\ up \in [Conns -> Seq(Asked)]
  BY GatewayAssumption DEF TypeOK
<1>2. /\ UNCHANGED serverVars /\ overlapped' = overlapped /\ link' = link /\ Uplink
      /\ socket # Nothing /\ link[socket] = "up" /\ down[socket] # <<>>
      /\ HandleFrame(Head(down[socket])) /\ Head(down[socket]).op # "CLOSE"
      /\ down' = [down EXCEPT ![socket] = Tail(@)]
  BY DEF DeliverFrame
<1>3. socket \in Conns
  BY <1>1, <1>2 DEF ClientTypeOK
<1>4. UNCHANGED <<socket, opened>>
  BY <1>2 DEF HandleFrame, HandleHello, HandleAck, HandleInvalidSession, HandleReconnect, HandleDispatch
<1>5. down[socket] \in Seq(Frames) /\ up[socket] \in Seq(Asked)
  BY <1>1, <1>3
<1>6. Head(down[socket]) \in Frames
  BY <1>2, <1>5, Dropped
<1>7. \A c \in Conns : c # socket => down'[c] = down[c] /\ up'[c] = up[c]
  BY <1>1, <1>2, UplinkOf
<1>8. down'[socket] = Tail(down[socket])
  BY <1>1, <1>2, <1>3
<1> QED
  BY <1>1, <1>2, <1>3, <1>4, <1>5, <1>6, <1>7, <1>8, UplinkOf DEF Listening

\* Whatever it reads, what holds of the other sockets and of the server is left alone.
LEMMA RestRead ==
  ASSUME TypeOK, TypeOK', StreamInv, DeliverFrame,
         AskInv(socket)', WireInv(socket)', AppliedInv'
  PROVE  StreamInv'
<1>0. OneAtATime /\ ReadyInv /\ CleanInv /\ QueuedReady /\ UnopenedInv /\ ReaderInv
  BY DEF StreamInv
<1>f. /\ UNCHANGED serverVars /\ overlapped' = overlapped /\ socket \in Conns
      /\ down[socket] # <<>> /\ UNCHANGED <<socket, opened>>
      /\ down[socket] \in Seq(Frames) /\ down'[socket] = Tail(down[socket])
      /\ \A c \in Conns : c # socket => down'[c] = down[c] /\ up'[c] = up[c]
  BY FrameRead
<1>1. OneAtATime' /\ ReadyInv' /\ CleanInv' /\ pc' = pc
  BY <1>0, <1>f, ServerRests
<1>2. QueuedReady'
  <2>1. ASSUME NEW c \in Conns, NEW i \in DOMAIN down'[c], down'[c][i].op = "READY" PROVE down'[c][i].n = 1
    <3>1. CASE c = socket
      <4>1. i + 1 \in DOMAIN down[socket] /\ Tail(down[socket])[i] = down[socket][i + 1]
        <5>1. i \in DOMAIN Tail(down[socket])
          BY <1>f, <2>1, <3>1
        <5>2. LET q == down[socket] IN
              /\ DOMAIN q = 1..Len(q) /\ Len(q) \in Nat /\ DOMAIN Tail(q) = 1..(Len(q) - 1)
              /\ \A k \in 1..(Len(q) - 1) : Tail(q)[k] = q[k + 1]
          BY <1>f, Dropped
        <5> QED
          BY <5>1, <5>2
      <4> QED
        BY <1>0, <1>f, <2>1, <3>1, <4>1 DEF QueuedReady
    <3>2. CASE c # socket
      BY <1>0, <1>f, <2>1, <3>2 DEF QueuedReady
    <3> QED
      BY <3>1, <3>2
  <2> QED
    BY <2>1 DEF QueuedReady
<1>3. UnopenedInv'
  <2>1. socket \in opened
    BY <1>0, <1>f, ConnsAssumption DEF UnopenedInv
  <2> QED
    BY <1>0, <1>1, <1>f, <2>1 DEF UnopenedInv
<1>4. ASSUME NEW c \in Conns, Listening(c)' PROVE AskInv(c)' /\ WireInv(c)'
  BY <1>4, <1>f DEF Listening
<1> QED
  BY <1>1, <1>2, <1>3, <1>4 DEF StreamInv, ReaderInv

\* HELLO and INVALID_SESSION: the client answers, with the session it keeps.
LEMMA AskRead ==
  ASSUME TypeOK, TypeOK', ServerInv, StreamInv, DeliverFrame,
         IsAsk(Head(down[socket]))
  PROVE  AskInv(socket)' /\ WireInv(socket)' /\ AppliedInv'
<1> DEFINE d == down[socket]
           u == up[socket]
           f == Head(down[socket])
<1>f. /\ UNCHANGED serverVars /\ overlapped' = overlapped /\ socket \in Conns /\ Listening(socket)
      /\ d # <<>> /\ d \in Seq(Frames) /\ u \in Seq(Asked) /\ f \in Frames /\ HandleFrame(f)
      /\ down'[socket] = Tail(d) /\ socket' = socket
      /\ up'[socket] = u \/ (said' # Nothing /\ said' \in Asked /\ up'[socket] = Append(u, said'))
      /\ None = Nothing
  BY FrameRead, GatewayAssumption
<1>0. AskInv(socket) /\ WireInv(socket) /\ AppliedInv
  BY <1>f DEF StreamInv, ReaderInv
<1>1. /\ UNCHANGED <<pc, sess, last, outbox>>
  BY <1>f, ServerRests
<1>2. /\ applied' = applied
      /\ sessionId' = None \/ UNCHANGED <<sessionId, lastSeq>>
      /\ said' = Nothing \/ (sessionId' = None /\ said' = Ask("IDENTIFY", Nothing, 0))
                         \/ said' = Ask("RESUME", sessionId', lastSeq')
  <2>1. applied' = applied
    BY DEF DeliverFrame, IsAsk
  <2>2. CASE f.op = "HELLO"
    <3>1. HandleHello
      BY <1>f, <2>2 DEF HandleFrame
    <3> QED
      BY <1>f, <2>1, <3>1 DEF HandleHello, SendIdentify
  <2>3. CASE f.op = "INVALID_SESSION"
    <3>1. HandleInvalidSession
      BY <1>f, <2>3 DEF HandleFrame
    <3> QED
      BY <1>f, <2>1, <3>1 DEF HandleInvalidSession, SendIdentify
  <2> QED
    BY <2>2, <2>3 DEF IsAsk
<1>3. said' # Nothing => /\ said'.op = "IDENTIFY" => sessionId' = None
                         /\ said'.op = "RESUME" => said'.sess = sessionId' /\ said'.n = lastSeq'
  <2>1. /\ Ask("IDENTIFY", Nothing, 0).op = "IDENTIFY"
        /\ Ask("RESUME", sessionId', lastSeq').op = "RESUME"
        /\ Ask("RESUME", sessionId', lastSeq').sess = sessionId'
        /\ Ask("RESUME", sessionId', lastSeq').n = lastSeq'
    BY DEF Ask
  <2> QED
    BY <1>2, <2>1
<1>4. /\ Asks(Tail(d), up'[socket], pc[socket], sess[socket], last[socket], sessionId', lastSeq')
      /\ pc[socket] \in {"hello", "drain", "closed"} /\ sess[socket] = None /\ Bare(Tail(d))
  <2>1. Asks(d, u, pc[socket], sess[socket], last[socket], sessionId, lastSeq)
    BY <1>0 DEF AskInv
  <2>2. IsAsk(Head(d))
    OBVIOUS
  <2>f. d \in Seq(Frames) /\ u \in Seq(Asked) /\ d # <<>>
    BY <1>f
  <2> HIDE DEF d, u, f
  <2>3. /\ Asks(Tail(d), u, pc[socket], sess[socket], last[socket], sessionId', lastSeq')
        /\ \A a \in Asked :
             (a.op = "IDENTIFY" => sessionId' = None) /\ (a.op = "RESUME" => a.sess = sessionId' /\ a.n = lastSeq')
               => Asks(Tail(d), Append(u, a), pc[socket], sess[socket], last[socket], sessionId', lastSeq')
        /\ pc[socket] \in {"hello", "drain", "closed"} /\ sess[socket] = None /\ Bare(Tail(d))
    BY <2>f, <2>1, <2>2, AsksAnswered
  <2>4. up'[socket] = u \/ (said' # Nothing /\ said' \in Asked /\ up'[socket] = Append(u, said'))
    BY <1>f
  <2> QED
    BY <1>3, <2>3, <2>4
<1>5. AskInv(socket)'
  BY <1>f, <1>1, <1>4 DEF AskInv
<1>6. \A s \in Conns : outbox'[s] # socket
  <2>1. ASSUME NEW s \in Conns, outbox[s] = socket PROVE FALSE
    <3>1. outbox[s] # None => sess[outbox[s]] = s
      BY DEF ServerInv, OutboxIsLive
    <3> QED
      BY <1>f, <1>4, <2>1, <3>1, ConnsAssumption
  <2> QED
    BY <1>1, <2>1
<1>7. /\ Whose(Tail(d), sessionId', pc[socket], sess[socket])
      /\ InOrder(Tail(d), sessionId', lastSeq', overlapped)
  BY <1>4 DEF Bare, Whose, InOrder
<1>8. WireInv(socket)'
  BY <1>f, <1>1, <1>6, <1>7 DEF WireInv
<1>9. AppliedInv'
  BY <1>0, <1>2, <1>f DEF AppliedInv
<1> QED
  BY <1>5, <1>8, <1>9

\* An answered heartbeat and RECONNECT: nothing the stream depends on.
LEMMA OtherRead ==
  ASSUME TypeOK, TypeOK', StreamInv, DeliverFrame,
         ~IsAsk(Head(down[socket])), ~IsDispatch(Head(down[socket]))
  PROVE  AskInv(socket)' /\ WireInv(socket)' /\ AppliedInv'
<1> DEFINE d == down[socket]
           f == Head(down[socket])
<1>f. /\ UNCHANGED serverVars /\ overlapped' = overlapped /\ socket \in Conns /\ Listening(socket)
      /\ d # <<>> /\ d \in Seq(Frames) /\ up[socket] \in Seq(Asked) /\ f \in Frames /\ HandleFrame(f)
      /\ f.op # "CLOSE"
      /\ down'[socket] = Tail(d) /\ socket' = socket
      /\ up'[socket] = up[socket] \/ said' # Nothing
  BY FrameRead
<1>0. AskInv(socket) /\ WireInv(socket) /\ AppliedInv
  BY <1>f DEF StreamInv, ReaderInv
<1>1. /\ UNCHANGED <<pc, sess, last, outbox>>
      /\ \A s, n : ReachedIs(s, n)' <=> ReachedIs(s, n)
  BY <1>f, ServerRests
<1>2. /\ applied' = applied /\ UNCHANGED <<sessionId, lastSeq>> /\ said' = Nothing
  <2>1. f.op \in {"HEARTBEAT_ACK", "RECONNECT"}
    BY <1>f DEF IsAsk, IsDispatch, Frames, ControlOps
  <2>2. applied' = applied
    BY <2>1 DEF DeliverFrame
  <2>3. HandleAck \/ HandleReconnect
    BY <1>f, <2>1 DEF HandleFrame
  <2> QED
    BY <2>2, <2>3 DEF HandleAck, HandleReconnect
<1>3. AskInv(socket)'
  <2>1. Asks(d, up[socket], pc[socket], sess[socket], last[socket], sessionId, lastSeq)
    BY <1>0 DEF AskInv
  <2>2. ~IsAsk(Head(d))
    OBVIOUS
  <2> HIDE DEF d, f
  <2>3. Asks(Tail(d), up[socket], pc[socket], sess[socket], last[socket], sessionId, lastSeq)
    BY <1>f, <2>1, <2>2, AsksRead
  <2> QED
    BY <1>f, <1>1, <1>2, <2>3 DEF AskInv
<1>4. /\ Whose(Tail(d), sessionId, pc[socket], sess[socket])
      /\ InOrder(Tail(d), sessionId, lastSeq, overlapped)
  BY <1>0, <1>f, OtherDropped DEF WireInv
<1>5. ASSUME NEW s \in Conns, outbox[s] = socket
      PROVE  /\ Known(Tail(d), sessionId, s, Len(Tail(d)))
             /\ s \notin overlapped =>
                  \E n \in Nat : ReachedIs(s, n) /\ UpTo(Tail(d), At(sessionId, lastSeq, s), n)
  <2>1. Feeds(socket, s)
    BY <1>0, <1>5 DEF WireInv
  <2> QED
    BY <1>f, <2>1, OtherDropped DEF Feeds, Reaches
<1>6. WireInv(socket)'
  <2>1. ASSUME NEW s \in Conns, outbox'[s] = socket PROVE Feeds(socket, s)'
    BY <1>1, <1>2, <1>5, <1>f, <2>1 DEF Feeds, Reaches
  <2> QED
    BY <1>1, <1>2, <1>4, <1>f, <2>1 DEF WireInv
<1>7. AppliedInv'
  BY <1>0, <1>2, <1>f DEF AppliedInv
<1> QED
  BY <1>3, <1>6, <1>7

\* READY, RESUMED and EVENT: the next number of the session the client follows.
LEMMA DispatchRead ==
  ASSUME TypeOK, TypeOK', ServerInv, StreamInv, DeliverFrame,
         IsDispatch(Head(down[socket]))
  PROVE  AskInv(socket)' /\ WireInv(socket)' /\ AppliedInv'
<1> DEFINE d == down[socket]
           f == Head(down[socket])
           l == pc[socket]
           x == sess[socket]
<1>f. /\ UNCHANGED serverVars /\ overlapped' = overlapped /\ socket \in Conns /\ Listening(socket)
      /\ d # <<>> /\ d \in Seq(Frames) /\ up[socket] \in Seq(Asked) /\ f \in Frames /\ HandleFrame(f)
      /\ down'[socket] = Tail(d) /\ socket' = socket
      /\ up'[socket] = up[socket] \/ said' # Nothing
  BY FrameRead
<1>0. AskInv(socket) /\ WireInv(socket) /\ AppliedInv /\ QueuedReady /\ lastSeq \in Nat
  BY <1>f DEF StreamInv, ReaderInv, TypeOK, ClientTypeOK
<1>1. /\ UNCHANGED <<pc, sess, last, outbox>>
      /\ \A s, n : ReachedIs(s, n)' <=> ReachedIs(s, n)
  BY <1>f, ServerRests
<1>2. /\ lastSeq' = f.n /\ said' = Nothing /\ f.n \in Nat
      /\ sessionId' = IF f.op = "READY" THEN f.sess ELSE sessionId
      /\ applied' = IF f.op = "READY" THEN <<f.n>> ELSE Append(applied, f.n)
  <2>1. f.op \in {"READY", "RESUMED", "EVENT"} /\ f.n \in Nat
    BY <1>f DEF IsDispatch, DispatchOps, Frames
  <2>2. HandleDispatch(f)
    BY <1>f, <2>1 DEF HandleFrame
  <2>3. applied' = IF f.op = "READY" THEN <<f.n>> ELSE Append(applied, f.n)
    BY <2>1 DEF DeliverFrame
  <2> QED
    BY <2>1, <2>2, <2>3 DEF HandleDispatch
<1>3. /\ sessionId' = f.sess /\ f.sess \in Conns
      /\ f.sess \notin overlapped => f.n = At(sessionId, lastSeq, f.sess) + 1
      /\ Whose(Tail(d), sessionId', l, x)
      /\ InOrder(Tail(d), sessionId', f.n, overlapped)
      /\ \A a, n : f.sess \notin overlapped /\ UpTo(d, a, n) => UpTo(Tail(d), f.n, n)
      /\ l # "closed" => f.sess = x
  <2>1. IsDispatch(f) /\ f = Head(d)
    OBVIOUS
  <2>2. Whose(d, sessionId, l, x) /\ InOrder(d, sessionId, lastSeq, overlapped)
    BY <1>0 DEF WireInv
  <2>3. d \in Seq(Frames) /\ d # <<>>
    BY <1>f
  <2>4. sessionId' = IF f.op = "READY" THEN f.sess ELSE sessionId
    BY <1>2
  <2>5. lastSeq \in Nat
    BY <1>0
  <2>8. l # "closed" => f.sess = x
    <3>1. 1 \in DOMAIN d /\ f = d[1]
      BY <2>3, Dropped
    <3> HIDE DEF d, l, x, f
    <3> QED
      BY <2>1, <2>2, <3>1 DEF Whose
  <2> HIDE DEF d, l, x
  <2>6. /\ Head(d).op # "READY" => sessionId = Head(d).sess
        /\ Head(d).sess \in Conns
        /\ Head(d).sess \notin overlapped => Head(d).n = At(sessionId, lastSeq, Head(d).sess) + 1
        /\ Whose(Tail(d), Head(d).sess, l, x)
        /\ InOrder(Tail(d), Head(d).sess, Head(d).n, overlapped)
        /\ \A a, n : Head(d).sess \notin overlapped /\ UpTo(d, a, n) => UpTo(Tail(d), Head(d).n, n)
    BY <2>1, <2>2, <2>3, <2>5, DispatchDropped
  <2>7. sessionId' = f.sess
    BY <2>1, <2>4, <2>6
  <2> QED
    BY <2>1, <2>6, <2>7, <2>8
<1>4. AskInv(socket)'
  <2>1. Asks(d, up[socket], l, x, last[socket], sessionId, lastSeq)
    BY <1>0 DEF AskInv
  <2>2. ~IsAsk(Head(d)) /\ IsDispatch(Head(d))
    BY DEF IsAsk, IsDispatch, DispatchOps
  <2>3. d \in Seq(Frames) /\ d # <<>> /\ up[socket] \in Seq(Asked)
    BY <1>f
  <2>4. Asks(Tail(d), up[socket], l, x, last[socket], sessionId', lastSeq')
    <3> HIDE DEF d, f, l, x
    <3> QED
      BY <2>1, <2>2, <2>3, AsksRead
  <2> QED
    BY <1>f, <1>1, <1>2, <2>4 DEF AskInv
<1>5. ASSUME NEW s \in Conns, outbox[s] = socket
      PROVE  /\ sessionId' = s
             /\ s \notin overlapped => \E n \in Nat : ReachedIs(s, n) /\ UpTo(Tail(d), f.n, n)
  <2>1. x = s /\ l # "closed"
    <3>1. outbox[s] # None => sess[outbox[s]] = s /\ pc[outbox[s]] \in Feedable
      BY DEF ServerInv, OutboxIsLive
    <3> QED
      BY <1>5, <1>f, <3>1, ConnsAssumption DEF Feedable
  <2>2. Feeds(socket, s)
    BY <1>0, <1>5 DEF WireInv
  <2> QED
    BY <1>3, <2>1, <2>2 DEF Feeds, Reaches
<1>6. WireInv(socket)'
  <2>1. ASSUME NEW s \in Conns, outbox'[s] = socket PROVE Feeds(socket, s)'
    <3>1. Known(Tail(d), sessionId', s, Len(Tail(d)))
      BY <1>1, <1>5, <2>1 DEF Known
    <3>2. At(sessionId', lastSeq', s) = f.n
      BY <1>1, <1>2, <1>5, <2>1 DEF At
    <3>3. s \notin overlapped => \E n \in Nat : ReachedIs(s, n)' /\ UpTo(Tail(d), f.n, n)
      BY <1>1, <1>5, <2>1
    <3> QED
      BY <1>f, <3>1, <3>2, <3>3 DEF Feeds, Reaches
  <2> QED
    BY <1>1, <1>2, <1>3, <1>f, <2>1 DEF WireInv
<1>7. AppliedInv'
  <2>1. ASSUME f.sess \notin overlapped PROVE applied' = [i \in 1..lastSeq' |-> i]
    <3>1. CASE f.op = "READY"
      <4>1. f.n = 1
        <5>1. 1 \in DOMAIN d /\ f = d[1]
          BY <1>f, Dropped
        <5> QED
          BY <1>0, <1>f, <3>1, <5>1 DEF QueuedReady
      <4>2. <<1>> = [i \in 1..1 |-> i]
        OBVIOUS
      <4> QED
        BY <1>2, <3>1, <4>1, <4>2
    <3>2. CASE f.op # "READY"
      <4>1. sessionId = f.sess /\ f.n = lastSeq + 1
        BY <1>2, <1>3, <2>1, <3>2 DEF At
      <4>2. applied = [i \in 1..lastSeq |-> i]
        BY <1>0, <1>3, <2>1, <4>1, ConnsAssumption DEF AppliedInv
      <4>3. Append([i \in 1..lastSeq |-> i], lastSeq + 1) = [i \in 1..(lastSeq + 1) |-> i]
        BY <1>0
      <4> QED
        BY <1>2, <3>2, <4>1, <4>2, <4>3
    <3> QED
      BY <3>1, <3>2
  <2> QED
    BY <1>3, <1>f, <2>1 DEF AppliedInv
<1> QED
  BY <1>4, <1>6, <1>7

\* StreamInv and the frame the client reads.
LEMMA StreamRead ==
  ASSUME TypeOK, TypeOK', ServerInv, StreamInv, DeliverFrame
  PROVE  StreamInv'
BY AskRead, OtherRead, DispatchRead, RestRead

(***************************************************************************)
(* Every step, and the theorem.                                            *)
(***************************************************************************)
LEMMA StreamStep ==
  ASSUME TypeOK, TypeOK', ServerInv, StreamInv, [Next]_vars
  PROVE  StreamInv'
<1>1. CASE UNCHANGED vars
  BY <1>1 DEF vars, serverVars, clientVars, netVars, histVars, StreamInv, OneAtATime, OneAt, Working,
    ReadyInv, CleanInv, LedgerInv, InUse, Pending, ReplayInv, Resent, QueuedReady, UnopenedInv, ReaderInv, Listening,
    AskInv, WireInv, Feeds, Reaches, ReachedIs, AppliedInv
<1>2. CASE Next
  BY <1>2, NextCases, StreamServed, StreamKept, StreamRead
<1> QED
  BY <1>1, <1>2

\* Nothing is on the wire at first.
LEMMA StreamInit == Init => StreamInv
<1> SUFFICES ASSUME Init PROVE StreamInv
  OBVIOUS
<1>0. /\ None \notin Conns /\ None = Nothing
      /\ pc = [p \in Procs |-> IF p \in Conns THEN "off" ELSE "idle"]
      /\ sess = [p \in Procs |-> None]
      /\ outbox = [s \in Conns |-> None]
      /\ down = [c \in Conns |-> <<>>] /\ up = [c \in Conns |-> <<>>]
      /\ socket = None /\ sessionId = None /\ opened = {}
      /\ sessions = {} /\ todo = [p \in Publishers |-> {}]
      /\ buffer = [s \in Conns |-> <<>>] /\ missed = [c \in Conns |-> <<>>]
  BY ConnsAssumption, GatewayAssumption DEF Init, ServerInit, ClientInit
<1>1. \A p \in Procs : sess[p] = None
  BY <1>0
<1>2. OneAtATime
  BY <1>0, <1>1 DEF OneAtATime, OneAt, Working
<1>3. ReadyInv
  <2>1. DOMAIN <<>> = {}
    OBVIOUS
  <2> QED
    BY <1>0, <2>1 DEF ReadyInv
<1>4. CleanInv
  BY <1>0, <1>1 DEF CleanInv, InUse, Procs
<1>5. QueuedReady
  BY <1>0 DEF QueuedReady
<1>6. UnopenedInv
  BY <1>0 DEF UnopenedInv, Procs
<1>7. ReaderInv /\ AppliedInv
  BY <1>0 DEF ReaderInv, Listening, AppliedInv
<1> QED
  BY <1>2, <1>3, <1>4, <1>5, <1>6, <1>7 DEF StreamInv

\* StreamInv is an invariant.
LEMMA StreamInvariant == Spec => [](TypeOK /\ ServerInv /\ StreamInv)
<1>1. Init => StreamInv
  BY StreamInit
<1>2. TypeOK /\ TypeOK' /\ ServerInv /\ StreamInv /\ [Next]_vars => StreamInv'
  BY StreamStep
<1> QED
  BY <1>1, <1>2, GatewayInvariant, PTL DEF Spec

\* Across lost links, resumes and restarts the client handles the dispatches of its
\* session exactly once, in order and without a gap, for every number of connections,
\* users and publishers and every size of the ring, as long as no two dispatches of
\* that session, nor a dispatch and a resume of it, ran at the same time (session.rs,
\* replay_after; mod.rs, resume; client.ts, handleDispatch).
THEOREM StreamIsInOrder == Spec => []StreamInOrder
<1>1. TypeOK /\ StreamInv => StreamInOrder
  <2> SUFFICES ASSUME TypeOK, AppliedInv, sessionId # Nothing, sessionId \notin overlapped
               PROVE  applied = [i \in 1..Len(applied) |-> i]
    BY DEF StreamInv, StreamInOrder
  <2>1. applied = [i \in 1..lastSeq |-> i] /\ lastSeq \in Nat
    BY GatewayAssumption DEF AppliedInv, TypeOK, ClientTypeOK
  <2>2. Len([i \in 1..lastSeq |-> i]) = lastSeq
    BY <2>1
  <2> QED
    BY <2>1, <2>2
<1> QED
  BY <1>1, StreamInvariant, PTL

=============================================================================
